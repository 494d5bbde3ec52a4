--------------------------- MODULE ProducerProofs ---------------------------
(***************************************************************************)
(* Proofs about Producer, for any number of events, data lines and         *)
(* attempts, and whichever events are bad.                                 *)
(***************************************************************************)
EXTENDS Producer, TLAPS

(***************************************************************************)
(* The types, in two halves: the reader, then main and the writer.         *)
(***************************************************************************)
ReaderTypes ==
  /\ emitted \in 0..EventLimit
  /\ rpc \in Receiving \cup {"top", "connect", "backoff", "stopped"}
  /\ next \in 1..(EventLimit + 1)
  /\ line \in 0..Blank
  /\ eventData \in Seq(Events \X (1..Parts))
  /\ late \in Nat

WriterTypes ==
  /\ closed \in BOOLEAN
  /\ queue \in Seq(Events)
  /\ attempts \in 0..MaxAttempts
  /\ writerClosed \in BOOLEAN
  /\ topic \in Seq(Events)
  /\ outcome \in [Events -> {"none", "bad", "failed", "acked"}]
  /\ mpc \in {"run", "stop", "close", "wait", "exit"}

\* A line in hand is a line of an event that was emitted.
Shape ==
  /\ next <= emitted + 1
  /\ rpc \in {"line", "handle", "dispatch", "publish"} => next <= emitted

LEMMA TypeInit == Init => TypeOK /\ Shape
<1> SUFFICES ASSUME Init PROVE TypeOK /\ Shape
    OBVIOUS
<1> USE ProducerAssumption DEF Init, Blank, Receiving
<1>1. closed \in BOOLEAN /\ writerClosed \in BOOLEAN
  BY Zenon
<1>2. ReaderTypes /\ Shape
  BY DEF ReaderTypes, Shape
<1>3. /\ queue \in Seq(Events)
      /\ attempts \in 0..MaxAttempts
      /\ topic \in Seq(Events)
      /\ outcome \in [Events -> {"none", "bad", "failed", "acked"}]
      /\ mpc \in {"run", "stop", "close", "wait", "exit"}
  OBVIOUS
<1> QED
  BY <1>1, <1>2, <1>3, Zenon DEF ReaderTypes, TypeOK, Blank, Receiving

LEMMA LineDoneTypes ==
  ASSUME TypeOK, next <= emitted, LineDone, UNCHANGED <<emitted, late>>
  PROVE  ReaderTypes' /\ Shape'
<1> USE ProducerAssumption DEF TypeOK, Blank, Events
<1>1. rpc' = "scan"
  BY DEF LineDone
<1>2. next' \in 1..(EventLimit + 1) /\ next' <= emitted + 1
  BY DEF LineDone
<1>3. line' \in 0..Blank
  BY DEF LineDone
<1>4. eventData' \in Seq(Events \X (1..Parts))
  <2>1. CASE line = Blank
    BY <2>1 DEF LineDone
  <2>2. CASE line # Blank
    BY <2>2 DEF LineDone
  <2> QED
    BY <2>1, <2>2
<1> QED
  BY <1>1, <1>2, <1>3, <1>4 DEF ReaderTypes, Shape, Receiving

LEMMA ReaderTypesStep ==
  TypeOK /\ Shape /\ [Next]_vars => ReaderTypes' /\ Shape'
<1> SUFFICES ASSUME TypeOK, Shape, [Next]_vars PROVE ReaderTypes' /\ Shape'
    OBVIOUS
<1> USE ProducerAssumption
    DEF TypeOK, Shape, ReaderTypes, Receiving, Blank, Events
<1>1. CASE Emit
  BY <1>1 DEF Emit, reader
<1>2. CASE Top \/ Backoff \/ Scan \/ CheckLine \/ ConnectFails \/ StreamEnds
  BY <1>2 DEF Top, Backoff, Scan, CheckLine, ConnectFails, StreamEnds, Go,
     AfterError, stream
<1>3. CASE OtherLine
  BY <1>3, LineDoneTypes DEF OtherLine, stream
<1>4. CASE DataLine
  <2>1. <<next, line>> \in (1..EventLimit) \X (1..Parts)
    BY <1>4 DEF DataLine
  <2>2. eventData' \in Seq((1..EventLimit) \X (1..Parts))
    BY <1>4, <2>1 DEF DataLine
  <2>3. /\ rpc' = "scan" /\ line' = line + 1 /\ line \in 1..Parts
        /\ UNCHANGED <<emitted, next, late>>
    BY <1>4 DEF DataLine, stream
  <2> QED
    BY <2>2, <2>3
<1>5. CASE EmptyLine
  BY <1>5 DEF EmptyLine, stream
<1>6. CASE DispatchFails
  BY <1>6, LineDoneTypes DEF DispatchFails, stream
<1>7. CASE Publish
  <2> HIDE DEF Events
  <2> QED
    BY <1>7 DEF Publish, HandOver, stream
<1>8. CASE PublishTimeout
  BY <1>8, LineDoneTypes DEF PublishTimeout, stream
<1>9. CASE ConnectOK
  BY <1>9 DEF ConnectOK, StartAt, Fresh, stream
<1>10. CASE Acked \/ NotAcked
  <2>1. CASE LineDone /\ rpc = "publish" /\ UNCHANGED <<emitted, late>>
    BY <2>1, LineDoneTypes
  <2>2. CASE UNCHANGED <<emitted, rpc, next, line, eventData, late>>
    BY <2>2
  <2> QED
    BY <1>10, <2>1, <2>2 DEF Acked, NotAcked, Settle, stream, reader
<1>11. CASE Signal \/ Main \/ UNCHANGED vars
  BY <1>11 DEF Signal, Main, Stop, Close, Exit, vars, stream, reader
<1> QED
  BY <1>1, <1>2, <1>3, <1>4, <1>5, <1>6, <1>7, <1>8, <1>9, <1>10, <1>11
  DEF Next, Read, Network, Connect, Broker, Exited

(***************************************************************************)
(* What a step of the writer does to its queue and to the topic.           *)
(***************************************************************************)
LEMMA BrokerEffect ==
  ASSUME Acked \/ NotAcked
  PROVE  /\ queue # <<>>
         /\ topic' = topic \/ topic' = Append(topic, Head(queue))
         /\ queue' = queue \/ queue' = Tail(queue)
         /\ UNCHANGED <<emitted, closed, writerClosed, late, mpc>>
<1>1. CASE Acked
  BY <1>1 DEF Acked, Settle, Sending, stream, main
<1>2. CASE NotAcked
  <2>1. topic' = topic \/ topic' = Append(topic, Head(queue))
    BY <1>2 DEF NotAcked
  <2>2. queue # <<>>
    BY <1>2 DEF NotAcked, Sending
  <2>3. /\ queue' = queue \/ queue' = Tail(queue)
        /\ UNCHANGED <<emitted, closed, writerClosed, late, mpc>>
    BY <1>2 DEF NotAcked, Settle, stream, reader, main
  <2> QED
    BY <2>1, <2>2, <2>3
<1> QED
  BY <1>1, <1>2

LEMMA WriterTypesStep == TypeOK /\ Shape /\ [Next]_vars => WriterTypes'
<1> SUFFICES ASSUME TypeOK, Shape, [Next]_vars PROVE WriterTypes'
    OBVIOUS
<1> USE ProducerAssumption DEF TypeOK, Shape, WriterTypes
<1>1. CASE Emit
  BY <1>1 DEF Emit, writer, main
<1>2. CASE Top \/ Backoff \/ Scan \/ CheckLine \/ ConnectFails \/ StreamEnds
  BY <1>2 DEF Top, Backoff, Scan, CheckLine, ConnectFails, StreamEnds, Go,
     writer, main
<1>3. CASE OtherLine \/ DataLine \/ EmptyLine \/ ConnectOK
  BY <1>3 DEF OtherLine, DataLine, EmptyLine, ConnectOK, writer, main
<1>4. CASE DispatchFails \/ PublishTimeout
  BY <1>4 DEF DispatchFails, PublishTimeout, Report, writer, main
<1>5. CASE Publish
  <2>1. next \in Events
    BY <1>5 DEF Publish, Events
  <2>2. queue' \in Seq(Events)
    BY <1>5, <2>1 DEF Publish
  <2>3. UNCHANGED <<closed, attempts, writerClosed, topic, outcome, mpc>>
    BY <1>5 DEF Publish, HandOver, main
  <2> QED
    BY <2>2, <2>3
<1>6. CASE Acked \/ NotAcked
  <2>1. Head(queue) \in Events /\ queue # <<>>
    BY <1>6 DEF Acked, NotAcked, Sending
  <2>2. topic' \in Seq(Events) /\ queue' \in Seq(Events)
    <3>1. Append(topic, Head(queue)) \in Seq(Events)
      BY <2>1
    <3>2. Tail(queue) \in Seq(Events)
      BY <2>1
    <3> QED
      BY <1>6, <3>1, <3>2, BrokerEffect
  <2>3. attempts' \in 0..MaxAttempts
    BY <1>6 DEF Acked, NotAcked, Settle
  <2>4. outcome' \in [Events -> {"none", "bad", "failed", "acked"}]
    BY <1>6, <2>1 DEF Acked, NotAcked, Settle, Report
  <2>5. UNCHANGED <<closed, writerClosed, mpc>>
    BY <1>6 DEF Acked, NotAcked, Settle, main
  <2> QED
    BY <2>2, <2>3, <2>4, <2>5
<1>7. CASE Signal \/ Main
  <2>1. closed' \in BOOLEAN /\ writerClosed' \in BOOLEAN
    BY <1>7, Zenon DEF Signal, Main, Stop, Close, Exit
  <2>2. mpc' \in {"run", "stop", "close", "wait", "exit"}
    BY <1>7 DEF Signal, Main, Stop, Close, Exit
  <2>3. UNCHANGED <<queue, attempts, topic, outcome>>
    BY <1>7 DEF Signal, Main, Stop, Close, Exit, writer
  <2> QED
    BY <2>1, <2>2, <2>3
<1>8. CASE UNCHANGED vars
  BY <1>8 DEF vars, writer, main
<1> QED
  BY <1>1, <1>2, <1>3, <1>4, <1>5, <1>6, <1>7, <1>8
  DEF Next, Read, Network, Connect, Broker, Exited

(***************************************************************************)
(* Type correctness: whatever the connections do, a data line is one of    *)
(* the Parts lines of an emitted event, and the writer never sends a       *)
(* message more than MaxAttempts times.                                    *)
(***************************************************************************)
THEOREM TypeCorrect == Spec => [](TypeOK /\ Shape)
<1>1. TypeOK /\ Shape /\ [Next]_vars => (TypeOK /\ Shape)'
  BY ReaderTypesStep, WriterTypesStep
  DEF ReaderTypes, WriterTypes, TypeOK, Receiving, Blank
<1> QED
  BY <1>1, TypeInit, PTL DEF Spec

-----------------------------------------------------------------------------
(***************************************************************************)
(* Why events are whole.  While a connection is open, eventData is exactly *)
(* the data lines of the current event that were received so far.          *)
(***************************************************************************)
Gathered ==
  /\ rpc \in Receiving =>
       eventData = [i \in 1..(IF line = 0 THEN 0 ELSE line - 1) |-> <<next, i>>]
  /\ rpc \in {"dispatch", "publish"} => line = Blank

LEMMA LineDoneGathers ==
  ASSUME TypeOK, Gathered, line = Blank \/ line = 0, rpc \in Receiving, LineDone
  PROVE  Gathered'
<1> USE ProducerAssumption DEF TypeOK, Blank, Receiving
<1>1. CASE line = Blank
  <2>1. rpc' = "scan" /\ line' = 0 /\ eventData' = <<>>
    BY <1>1 DEF LineDone
  <2> QED
    BY <2>1 DEF Gathered
<1>2. CASE line = 0
  <2>1. rpc' = "scan" /\ line' = 1 /\ next' = next /\ eventData' = eventData
    BY <1>2 DEF LineDone
  <2>2. eventData = [i \in 1..0 |-> <<next, i>>]
    BY <1>2 DEF Gathered
  <2> QED
    BY <2>1, <2>2 DEF Gathered
<1> QED
  BY <1>1, <1>2

LEMMA GatheredStep == TypeOK /\ Gathered /\ [Next]_vars => Gathered'
<1> SUFFICES ASSUME TypeOK, Gathered, [Next]_vars PROVE Gathered'
    OBVIOUS
<1> USE DEF Receiving
<1>1. CASE UNCHANGED <<rpc, next, line, eventData>>
  BY <1>1 DEF Gathered
<1>2. CASE Top \/ Backoff \/ Scan \/ CheckLine \/ ConnectFails \/ StreamEnds
  BY <1>2 DEF Top, Backoff, Scan, CheckLine, ConnectFails, StreamEnds, Go,
     AfterError, Gathered
<1>3. CASE OtherLine \/ DispatchFails \/ PublishTimeout
  <2>1. /\ rpc \in Receiving /\ LineDone
        /\ line = Blank \/ line = 0
    BY <1>3 DEF OtherLine, DispatchFails, PublishTimeout, Gathered
  <2> QED
    BY <2>1, LineDoneGathers
<1>4. CASE DataLine
  <2>1. /\ line \in 1..Parts /\ line \in Nat /\ line' = line + 1
        /\ rpc' = "scan" /\ next' = next
        /\ eventData' = Append(eventData, <<next, line>>)
        /\ eventData = [i \in 1..(line - 1) |-> <<next, i>>]
    BY <1>4, ProducerAssumption DEF DataLine, Gathered, TypeOK
  <2>2. eventData' = [i \in 1..line |-> <<next, i>>]
    BY <2>1
  <2> QED
    BY <2>1, <2>2 DEF Gathered
<1>5. CASE EmptyLine
  BY <1>5 DEF EmptyLine, Gathered
<1>6. CASE Publish
  BY <1>6 DEF Publish, HandOver, Gathered
<1>7. CASE ConnectOK
  <2>1. rpc' = "scan" /\ line' = 0 /\ eventData' = <<>>
    BY <1>7 DEF ConnectOK, Fresh
  <2> QED
    BY <2>1 DEF Gathered
<1>8. CASE Acked \/ NotAcked
  <2>1. CASE LineDone /\ rpc = "publish"
    BY <2>1, LineDoneGathers DEF Gathered
  <2> QED
    BY <1>1, <1>8, <2>1 DEF Acked, NotAcked, Settle, reader
<1> QED
  BY <1>1, <1>2, <1>3, <1>4, <1>5, <1>6, <1>7, <1>8
  DEF Next, Read, Network, Connect, Broker, Exited, Emit, Signal, Main, Stop,
      Close, Exit, vars, reader

(***************************************************************************)
(* What dispatch is given is one whole event, wherever connections broke.  *)
(***************************************************************************)
THEOREM EventsAreWhole == Spec => []WholeEvents
<1>1. Init => Gathered
  BY DEF Init, Gathered, Receiving
<1>2. TypeOK /\ Gathered => WholeEvents
  <2> SUFFICES ASSUME TypeOK, Gathered, rpc \in {"dispatch", "publish"}
               PROVE  eventData = [i \in 1..Parts |-> <<next, i>>]
    BY DEF WholeEvents
  <2>1. line = Parts + 1 /\ Parts \in Nat
    BY ProducerAssumption DEF Gathered, Blank
  <2>2. eventData = [i \in 1..(IF line = 0 THEN 0 ELSE line - 1) |-> <<next, i>>]
    BY DEF Gathered, Receiving
  <2>3. (IF line = 0 THEN 0 ELSE line - 1) = Parts
    BY <2>1
  <2> QED
    BY <2>2, <2>3
<1> QED
  BY <1>1, <1>2, TypeCorrect, GatheredStep, PTL DEF Spec

-----------------------------------------------------------------------------
(***************************************************************************)
(* Why Stop is prompt.  The one late event was in hand when closeCh was    *)
(* closed, and behind it no line gets past the check.                      *)
(***************************************************************************)
LastLine == late <= 1 /\ (late = 1 => closed /\ rpc # "handle")

LEMMA LastLineStep == TypeOK /\ LastLine /\ [Next]_vars => LastLine'
<1> SUFFICES ASSUME TypeOK, LastLine, [Next]_vars PROVE LastLine'
    OBVIOUS
<1> USE DEF TypeOK, LastLine
<1>1. CASE Emit \/ UNCHANGED vars
  BY <1>1 DEF Emit, vars, reader, main
<1>2. CASE Top \/ Backoff \/ Scan \/ ConnectFails \/ StreamEnds
  BY <1>2 DEF Top, Backoff, Scan, ConnectFails, StreamEnds, Go, AfterError, main
<1>3. CASE CheckLine
  BY <1>3 DEF CheckLine, LineSeesStop, Go, main
<1>4. CASE OtherLine \/ DispatchFails \/ PublishTimeout
  BY <1>4 DEF OtherLine, DispatchFails, PublishTimeout, LineDone, main
<1>5. CASE DataLine \/ ConnectOK \/ Publish
  BY <1>5 DEF DataLine, ConnectOK, Publish, HandOver, main
<1>6. CASE EmptyLine
  BY <1>6 DEF EmptyLine, main
<1>7. CASE Acked \/ NotAcked
  <2>1. UNCHANGED <<late, closed>>
    BY <1>7, BrokerEffect
  <2>2. rpc' = rpc \/ rpc' = "scan"
    BY <1>7 DEF Acked, NotAcked, Settle, LineDone, reader
  <2> QED
    BY <2>1, <2>2
<1>8. CASE Signal \/ Main
  BY <1>8 DEF Signal, Main, Stop, Close, Exit, reader
<1> QED
  BY <1>1, <1>2, <1>3, <1>4, <1>5, <1>6, <1>7, <1>8
  DEF Next, Read, Network, Connect, Broker, Exited

(***************************************************************************)
(* At most one event is dispatched after Stop.                             *)
(***************************************************************************)
THEOREM StopsPromptly == Spec => []StopIsPrompt
<1>1. Init => LastLine
  BY DEF Init, LastLine
<1>2. LastLine => StopIsPrompt
  BY DEF LastLine, StopIsPrompt
<1> QED
  BY <1>1, <1>2, TypeCorrect, LastLineStep, PTL DEF Spec

-----------------------------------------------------------------------------
(***************************************************************************)
(* Why the order of the stream is kept: the queue is in order and behind   *)
(* the topic, and neither is ahead of the reader.                          *)
(***************************************************************************)
QueueInOrder ==
  /\ \A i, j \in 1..Len(queue) : i < j => queue[i] <= queue[j]
  /\ \A i \in 1..Len(queue) : queue[i] <= next
  /\ \A i \in 1..Len(topic) : topic[i] <= next

Order == InStreamOrder /\ QueueInOrder

LEMMA AppendFacts ==
  ASSUME NEW s \in Seq(Events), NEW e \in Events
  PROVE  /\ Len(Append(s, e)) = Len(s) + 1
         /\ \A i \in 1..Len(s) : Append(s, e)[i] = s[i]
         /\ Append(s, e)[Len(s) + 1] = e
  OBVIOUS

LEMMA TailFacts ==
  ASSUME NEW s \in Seq(Events), s # <<>>
  PROVE  /\ Len(s) \in Nat \ {0} /\ Head(s) = s[1]
         /\ Len(Tail(s)) = Len(s) - 1
         /\ \A i \in 1..(Len(s) - 1) : Tail(s)[i] = s[i + 1]
  OBVIOUS

\* The reader never goes back.
LEMMA NextGrows == TypeOK /\ Shape /\ [Next]_vars => next <= next'
<1> SUFFICES ASSUME TypeOK, Shape, [Next]_vars PROVE next <= next'
    OBVIOUS
<1> USE ProducerAssumption DEF TypeOK, Shape
<1>1. CASE LineDone
  BY <1>1 DEF LineDone
<1>2. CASE next' = next
  BY <1>2
<1>3. CASE ConnectOK
  BY <1>3 DEF ConnectOK, StartAt
<1> QED
  BY <1>1, <1>2, <1>3
  DEF Next, Read, Network, Connect, Broker, Exited, Emit, Signal, Main, Stop,
      Close, Exit, vars, reader, Top, Backoff, Scan, CheckLine, ConnectFails,
      StreamEnds, Go, OtherLine, DataLine, EmptyLine, DispatchFails,
      PublishTimeout, Publish, HandOver, Acked, NotAcked, Settle

\* The topic and the queue change in two places only.
LEMMA TopicAndQueue ==
  [Next]_vars => \/ UNCHANGED <<topic, queue>>
                 \/ Publish
                 \/ Acked \/ NotAcked
<1> SUFFICES ASSUME [Next]_vars
             PROVE  UNCHANGED <<topic, queue>> \/ Publish \/ Acked \/ NotAcked
    OBVIOUS
<1> QED
  BY DEF Next, Read, Network, Connect, Broker, Exited, Emit, Signal, Main,
     Stop, Close, Exit, vars, writer, Top, Backoff, Scan, CheckLine,
     ConnectFails, ConnectOK, StreamEnds, Go, OtherLine, DataLine, EmptyLine,
     DispatchFails, PublishTimeout

LEMMA OrderStep ==
  TypeOK /\ Shape /\ Order /\ [Next]_vars => Order'
<1> SUFFICES ASSUME TypeOK, Shape, Order, [Next]_vars PROVE Order'
    OBVIOUS
<1>0. /\ next <= next' /\ next \in Nat /\ next' \in Nat
      /\ queue \in Seq(Events) /\ topic \in Seq(Events)
      /\ \A e \in Events : e \in Nat
  BY NextGrows, ReaderTypesStep, ProducerAssumption DEF TypeOK, ReaderTypes, Events
<1>1. CASE UNCHANGED <<topic, queue>>
  <2>1. \A i \in 1..Len(queue) : queue[i] \in Nat
    BY <1>0
  <2>2. \A i \in 1..Len(topic) : topic[i] \in Nat
    BY <1>0
  <2> QED
    BY <1>0, <1>1, <2>1, <2>2 DEF Order, QueueInOrder, InStreamOrder
<1>2. CASE Publish
  <2>1. next \in Events /\ next' = next /\ topic' = topic
        /\ queue' = Append(queue, next)
    <3>1. next' = next /\ topic' = topic /\ queue' = Append(queue, next)
      BY <1>2 DEF Publish, HandOver, main
    <3>2. next \in Events
      BY <1>2, ProducerAssumption DEF Publish, Shape, TypeOK, Events
    <3> QED
      BY <3>1, <3>2
  <2>2. /\ Len(queue') = Len(queue) + 1 /\ Len(queue) \in Nat
        /\ \A i \in 1..Len(queue) : queue'[i] = queue[i]
        /\ queue'[Len(queue) + 1] = next
    BY <1>0, <2>1, AppendFacts
  <2>3. \A i \in 1..Len(queue') : i \in 1..Len(queue) \/ i = Len(queue) + 1
    BY <2>2
  <2>4. \A i, j \in 1..Len(queue') : i < j => queue'[i] <= queue'[j]
    <3> SUFFICES ASSUME NEW i \in 1..Len(queue'), NEW j \in 1..Len(queue'), i < j
                 PROVE  queue'[i] <= queue'[j]
      OBVIOUS
    <3>1. i \in 1..Len(queue) /\ queue'[i] = queue[i] /\ queue[i] <= next
      BY <2>2, <2>3 DEF Order, QueueInOrder
    <3>2. CASE j \in 1..Len(queue)
      BY <2>2, <3>1, <3>2 DEF Order, QueueInOrder
    <3>3. CASE j = Len(queue) + 1
      BY <2>2, <3>1, <3>3
    <3> QED
      BY <2>3, <3>2, <3>3
  <2>5. \A i \in 1..Len(queue') : queue'[i] <= next'
    BY <1>0, <2>1, <2>2, <2>3 DEF Order, QueueInOrder
  <2>6. \A i \in 1..Len(topic'), j \in 1..Len(queue') : topic'[i] <= queue'[j]
    BY <2>1, <2>2, <2>3 DEF Order, QueueInOrder, InStreamOrder
  <2> QED
    BY <2>1, <2>4, <2>5, <2>6 DEF Order, QueueInOrder, InStreamOrder
<1>3. CASE Acked \/ NotAcked
  <2>1. /\ queue # <<>>
        /\ topic' = topic \/ topic' = Append(topic, Head(queue))
        /\ queue' = queue \/ queue' = Tail(queue)
    BY <1>3, BrokerEffect
  <2>2. /\ Len(queue) \in Nat \ {0} /\ Head(queue) = queue[1]
        /\ queue[1] \in Events /\ queue[1] \in Nat
        /\ Len(Tail(queue)) = Len(queue) - 1
        /\ \A i \in 1..(Len(queue) - 1) : Tail(queue)[i] = queue[i + 1]
    BY <1>0, <2>1, TailFacts
  <2>3. \A i \in 1..Len(queue) : queue[1] <= queue[i]
    BY <1>0, <2>2 DEF Order, QueueInOrder
  <2>4. \A j \in 1..Len(queue') : \E k \in 1..Len(queue) :
          /\ queue'[j] = queue[k]
          /\ k = j \/ k = j + 1
    BY <2>1, <2>2
  <2>5. /\ \A i, j \in 1..Len(queue') : i < j => queue'[i] <= queue'[j]
        /\ \A j \in 1..Len(queue') : queue'[j] \in Nat /\ queue'[j] <= next'
    <3>1. CASE queue' = queue
      BY <1>0, <3>1 DEF Order, QueueInOrder
    <3>2. CASE queue' = Tail(queue)
      BY <1>0, <2>2, <3>2 DEF Order, QueueInOrder
    <3> QED
      BY <2>1, <3>1, <3>2
  <2>6. \A i \in 1..Len(topic') :
          topic'[i] = queue[1] \/ (i \in 1..Len(topic) /\ topic'[i] = topic[i])
    <3>1. CASE topic' = topic
      BY <3>1
    <3>2. CASE topic' = Append(topic, Head(queue))
      <4>1. /\ Len(topic') = Len(topic) + 1 /\ Len(topic) \in Nat
            /\ \A i \in 1..Len(topic) : topic'[i] = topic[i]
            /\ topic'[Len(topic) + 1] = queue[1]
        BY <1>0, <2>2, <3>2, AppendFacts
      <4> QED
        BY <4>1
    <3> QED
      BY <2>1, <3>1, <3>2
  <2>7. \A i, j \in 1..Len(topic') : i < j => topic'[i] <= topic'[j]
    <3>1. CASE topic' = topic
      BY <3>1 DEF Order, InStreamOrder
    <3>2. CASE topic' = Append(topic, Head(queue))
      <4>1. /\ Len(topic') = Len(topic) + 1 /\ Len(topic) \in Nat
            /\ \A i \in 1..Len(topic) : topic'[i] = topic[i]
            /\ topic'[Len(topic) + 1] = queue[1]
        BY <1>0, <2>2, <3>2, AppendFacts
      <4>2. \A i \in 1..Len(topic) : topic[i] <= queue[1]
        BY <2>2 DEF Order, InStreamOrder
      <4> QED
        BY <4>1, <4>2 DEF Order, InStreamOrder
    <3> QED
      BY <2>1, <3>1, <3>2
  <2>8. \A i \in 1..Len(topic'), j \in 1..Len(queue') : topic'[i] <= queue'[j]
    BY <2>3, <2>4, <2>6 DEF Order, InStreamOrder
  <2>9. \A i \in 1..Len(topic') : topic'[i] <= next'
    <3>1. \A i \in 1..Len(topic) : topic[i] \in Nat /\ topic[i] <= next
      BY <1>0 DEF Order, QueueInOrder
    <3>2. queue[1] <= next
      BY <2>2 DEF Order, QueueInOrder
    <3> QED
      BY <1>0, <2>2, <2>6, <3>1, <3>2
  <2> QED
    BY <2>5, <2>7, <2>8, <2>9 DEF Order, QueueInOrder, InStreamOrder
<1> QED
  BY <1>1, <1>2, <1>3, TopicAndQueue

(***************************************************************************)
(* The topic keeps the order of the stream, through timeouts and retries.  *)
(***************************************************************************)
THEOREM KeepsStreamOrder == Spec => []InStreamOrder
<1>1. Init => Order
  BY DEF Init, Order, QueueInOrder, InStreamOrder
<1>2. Order => InStreamOrder
  BY DEF Order
<1> QED
  BY <1>1, <1>2, TypeCorrect, OrderStep, PTL DEF Spec

-----------------------------------------------------------------------------
(***************************************************************************)
(* Why the counts are true: what is bad is never given to the writer, and  *)
(* nothing else is reported as bad.                                        *)
(***************************************************************************)
OnlyGood ==
  /\ \A i \in 1..Len(queue) : queue[i] \notin Bad
  /\ \A i \in 1..Len(topic) : topic[i] \notin Bad
  /\ \A e \in Events : outcome[e] = "bad" => e \in Bad
  /\ \A e \in Events : outcome[e] = "acked" => InTopic(e)

\* Only these steps report.
LEMMA Reporters ==
  [Next]_vars => \/ UNCHANGED outcome
                 \/ DispatchFails \/ PublishTimeout \/ Acked \/ NotAcked
<1> SUFFICES ASSUME [Next]_vars
             PROVE  \/ UNCHANGED outcome
                    \/ DispatchFails \/ PublishTimeout \/ Acked \/ NotAcked
    OBVIOUS
<1> QED
  BY DEF Next, Read, Network, Connect, Broker, Exited, Emit, Signal, Main,
     Stop, Close, Exit, vars, Top, Backoff, Scan, CheckLine, ConnectFails,
     ConnectOK, StreamEnds, Go, OtherLine, DataLine, EmptyLine, Publish,
     HandOver

\* What is in the topic stays there.
LEMMA TopicGrows ==
  ASSUME topic \in Seq(Events), queue \in Seq(Events),
         topic' = topic \/ (queue # <<>> /\ topic' = Append(topic, Head(queue))),
         NEW e, InTopic(e)
  PROVE  InTopic(e)'
<1>1. PICK i \in 1..Len(topic) : topic[i] = e
  BY DEF InTopic
<1>2. i \in 1..Len(topic') /\ topic'[i] = topic[i]
  <2>1. CASE topic' = topic
    BY <2>1
  <2>2. CASE queue # <<>> /\ topic' = Append(topic, Head(queue))
    <3>1. Head(queue) \in Events
      BY <2>2
    <3> QED
      BY <2>2, <3>1, AppendFacts
  <2> QED
    BY <2>1, <2>2
<1> QED
  BY <1>1, <1>2 DEF InTopic

LEMMA OnlyGoodStep ==
  TypeOK /\ Shape /\ OnlyGood /\ [Next]_vars => OnlyGood'
<1> SUFFICES ASSUME TypeOK, Shape, OnlyGood, [Next]_vars PROVE OnlyGood'
    OBVIOUS
<1>0. /\ queue \in Seq(Events) /\ topic \in Seq(Events)
      /\ outcome \in [Events -> {"none", "bad", "failed", "acked"}]
  BY DEF TypeOK
<1>1. /\ \A i \in 1..Len(queue') : queue'[i] \notin Bad
      /\ \A i \in 1..Len(topic') : topic'[i] \notin Bad
      /\ topic' = topic \/ (queue # <<>> /\ topic' = Append(topic, Head(queue)))
  <2>1. CASE UNCHANGED <<topic, queue>>
    BY <2>1 DEF OnlyGood
  <2>2. CASE Publish
    <3>1. /\ next \notin Bad /\ topic' = topic
          /\ queue' = Append(queue, next)
      BY <2>2 DEF Publish, main
    <3>2. next \in Events
      BY <2>2, ProducerAssumption DEF Publish, Shape, TypeOK, Events
    <3>3. /\ Len(queue') = Len(queue) + 1 /\ Len(queue) \in Nat
          /\ \A i \in 1..Len(queue) : queue'[i] = queue[i]
          /\ queue'[Len(queue) + 1] = next
      BY <1>0, <3>1, <3>2, AppendFacts
    <3> QED
      BY <3>1, <3>3 DEF OnlyGood
  <2>3. CASE Acked \/ NotAcked
    <3>1. /\ queue # <<>>
          /\ topic' = topic \/ topic' = Append(topic, Head(queue))
          /\ queue' = queue \/ queue' = Tail(queue)
      BY <2>3, BrokerEffect
    <3>2. /\ Len(queue) \in Nat \ {0} /\ Head(queue) = queue[1]
          /\ queue[1] \in Events
          /\ Len(Tail(queue)) = Len(queue) - 1
          /\ \A i \in 1..(Len(queue) - 1) : Tail(queue)[i] = queue[i + 1]
      BY <1>0, <3>1, TailFacts
    <3>3. \A i \in 1..Len(queue') : queue'[i] \notin Bad
      BY <3>1, <3>2 DEF OnlyGood
    <3>4. \A i \in 1..Len(topic') : topic'[i] \notin Bad
      <4>1. CASE topic' = topic
        BY <4>1 DEF OnlyGood
      <4>2. CASE topic' = Append(topic, Head(queue))
        <5>1. /\ Len(topic') = Len(topic) + 1 /\ Len(topic) \in Nat
              /\ \A i \in 1..Len(topic) : topic'[i] = topic[i]
              /\ topic'[Len(topic) + 1] = queue[1]
          BY <1>0, <3>2, <4>2, AppendFacts
        <5> QED
          BY <3>2, <5>1 DEF OnlyGood
      <4> QED
        BY <3>1, <4>1, <4>2
    <3> QED
      BY <3>1, <3>3, <3>4
  <2> QED
    BY <2>1, <2>2, <2>3, TopicAndQueue
<1>2. \A e \in Events : InTopic(e) => InTopic(e)'
  BY <1>0, <1>1, TopicGrows
<1>3. ASSUME NEW e \in Events
      PROVE  /\ outcome'[e] = "bad" => e \in Bad
             /\ outcome'[e] = "acked" => InTopic(e)'
  <2>1. CASE outcome' = outcome
    BY <1>2, <2>1 DEF OnlyGood
  <2>2. CASE DispatchFails \/ PublishTimeout
    <3>1. outcome'[e] = outcome[e] \/ outcome'[e] = "failed"
            \/ (outcome'[e] = "bad" /\ e \in Bad)
      BY <1>0, <2>2 DEF DispatchFails, PublishTimeout, Report
    <3> QED
      BY <1>2, <3>1 DEF OnlyGood
  <2>3. CASE Acked
    <3>1. /\ queue # <<>> /\ Head(queue) \in Events
          /\ topic' = Append(topic, Head(queue))
      BY <1>0, <2>3 DEF Acked, Sending
    <3>2. \E i \in 1..Len(topic') : topic'[i] = Head(queue)
      <4>1. /\ Len(topic) + 1 \in 1..Len(topic')
            /\ topic'[Len(topic) + 1] = Head(queue)
        BY <1>0, <3>1, AppendFacts
      <4> QED
        BY <4>1, Zenon
    <3>3. outcome'[e] = outcome[e] \/ (e = Head(queue) /\ outcome'[e] = "acked")
      BY <1>0, <2>3, <3>1 DEF Acked, Settle, Report
    <3>4. outcome'[e] = "acked" => InTopic(e)'
      <4>1. CASE e = Head(queue)
        BY <3>2, <4>1, Zenon DEF InTopic
      <4>2. CASE outcome'[e] = outcome[e]
        BY <1>2, <4>2 DEF OnlyGood
      <4> QED
        BY <3>3, <4>1, <4>2
    <3> QED
      BY <3>3, <3>4 DEF OnlyGood
  <2>4. CASE NotAcked
    <3>1. outcome'[e] = outcome[e] \/ outcome'[e] = "failed"
      BY <1>0, <2>4 DEF NotAcked, Settle, Report
    <3> QED
      BY <1>2, <3>1 DEF OnlyGood
  <2> QED
    BY <2>1, <2>2, <2>3, <2>4, Reporters
<1> QED
  BY <1>1, <1>3 DEF OnlyGood

(***************************************************************************)
(* The counts of onEvent are true, whatever answers the broker loses.      *)
(***************************************************************************)
THEOREM TruthfulCounts == Spec => []CountsAreTrue
<1>1. Init => OnlyGood
  BY DEF Init, OnlyGood
<1>2. OnlyGood => CountsAreTrue
  BY DEF OnlyGood, CountsAreTrue, InTopic
<1> QED
  BY <1>1, <1>2, TypeCorrect, OnlyGoodStep, PTL DEF Spec
=============================================================================
