------------------------------ MODULE Producer ------------------------------
(***************************************************************************)
(* services/producer with internal/almanac/sse: one goroutine reads the    *)
(* event stream, line by line, and publishes each event from the same      *)
(* goroutine; main waits for a signal, stops the reader and closes the     *)
(* writer.                                                                 *)
(*                                                                         *)
(* Events are 1, 2, 3 ... in the order in which the stream emits them.  An *)
(* event is sent as one line that the reader ignores (its name or its id), *)
(* then Parts data lines, then an empty line.  The stream is live: a new   *)
(* connection starts at what is emitted next.                              *)
(*                                                                         *)
(* kafka-go's Writer is external: a queue of messages that it sends one at *)
(* a time and retries MaxAttempts times; the answer to a request that was  *)
(* served may be lost.  One partition is modelled.                         *)
(***************************************************************************)
EXTENDS Integers, Sequences

CONSTANTS
  EventLimit,       \* bound of the model: how many events are emitted
  Parts,            \* data lines of an event
  MaxAttempts,      \* kafka-go: how often a message is sent
  Bad               \* the events that do not parse or do not encode

ASSUME ProducerAssumption ==
  /\ EventLimit \in Nat
  /\ Parts \in Nat \ {0}
  /\ MaxAttempts \in Nat \ {0}
  /\ Bad \subseteq 1..EventLimit

Events == 1..EventLimit
Blank == Parts + 1  \* the number of an event's empty line

VARIABLES
  emitted,          \* how many events the stream has emitted
  rpc,              \* where the reader's goroutine is
  next,             \* the event whose lines the reader receives
  line,             \* the line of that event it receives next, from 0
  eventData,        \* connect's local variable: the data lines so far
  closed,           \* Reader.closeCh is closed
  late,             \* history: events dispatched after Stop
  queue,            \* the messages the writer holds
  attempts,         \* how often it has sent the first of them
  writerClosed,     \* Producer.Close was called
  topic,            \* the messages of the topic
  outcome,          \* history: what onEvent or onError said of an event
  mpc               \* where main is

stream == <<emitted>>
reader == <<rpc, next, line, eventData, late>>
writer == <<queue, attempts>>
main == <<mpc, closed, writerClosed>>
vars == <<stream, reader, writer, main, topic, outcome>>

Receiving == {"scan", "line", "handle", "dispatch", "publish"}

TypeOK ==
  /\ emitted \in 0..EventLimit
  /\ rpc \in Receiving \cup {"top", "connect", "backoff", "stopped"}
  /\ next \in 1..(EventLimit + 1)
  /\ line \in 0..Blank
  /\ eventData \in Seq(Events \X (1..Parts))
  /\ closed \in BOOLEAN
  /\ late \in Nat
  /\ queue \in Seq(Events)
  /\ attempts \in 0..MaxAttempts
  /\ writerClosed \in BOOLEAN
  /\ topic \in Seq(Events)
  /\ outcome \in [Events -> {"none", "bad", "failed", "acked"}]
  /\ mpc \in {"run", "stop", "close", "wait", "exit"}

Init ==
  /\ emitted = 0
  /\ rpc = "top"
  /\ next = 1
  /\ line = 0
  /\ eventData = <<>>
  /\ closed = FALSE
  /\ late = 0
  /\ queue = <<>>
  /\ attempts = 0
  /\ writerClosed = FALSE
  /\ topic = <<>>
  /\ outcome = [e \in Events |-> "none"]
  /\ mpc = "run"

\* The process has not exited.
Alive == mpc # "exit"

-----------------------------------------------------------------------------
\* The world edits a wiki.
Emit ==
  /\ emitted < EventLimit
  /\ emitted' = emitted + 1
  /\ UNCHANGED <<reader, writer, main, topic, outcome>>

\* The reader moves, and nothing else changes.
Go(label) ==
  /\ rpc' = label
  /\ UNCHANGED <<stream, next, line, eventData, late, writer, main, topic,
                 outcome>>

\* loop, the select at its top
Top ==
  /\ rpc = "top"
  /\ Go(IF closed THEN "stopped" ELSE "connect")

\* The definitions named ...Bug are not part of the specification: each is a
\* slip the next definition could contain, and the README says which property
\* fails with it.
StartAtBug1 == emitted
StartAtBug2 == 1

\* A new connection asks for no earlier event (it sends no Last-Event-ID).
StartAt == emitted + 1

FreshBug == eventData

\* connect declares eventData: each connection starts with none.
Fresh == <<>>

\* connect: the stream answers with status 200, from now on.
ConnectOK ==
  /\ rpc = "connect"
  /\ rpc' = "scan"
  /\ next' = StartAt
  /\ line' = 0
  /\ eventData' = Fresh
  /\ UNCHANGED <<stream, late, writer, main, topic, outcome>>

\* loop reports the error and waits for ReconnectDelay.
AfterError == "backoff"

\* connect: no connection, or another status
ConnectFails == rpc = "connect" /\ Go(AfterError)

\* The stream ends in the middle of whatever it was sending.  Only a read
\* error is an error of connect: after a clean end loop connects at once.
\* A line that was cut is still scanned, into an eventData that is dropped.
StreamEnds == rpc = "scan" /\ (Go("top") \/ Go(AfterError))

\* loop, the second select
Backoff ==
  /\ rpc = "backoff"
  /\ Go("top") \/ (closed /\ Go("stopped"))

\* Scan returns a line.
Scan ==
  /\ rpc = "scan"
  /\ next <= emitted
  /\ Go("line")

LineSeesStopBug == FALSE

\* connect looks at closeCh after each line, and only then.
LineSeesStop == closed

CheckLine == rpc = "line" /\ Go(IF LineSeesStop THEN "top" ELSE "handle")

\* The reader is done with the current line.
LineDone ==
  /\ rpc' = "scan"
  /\ IF line = Blank
       THEN next' = next + 1 /\ line' = 0 /\ eventData' = <<>>
       ELSE next' = next /\ line' = line + 1 /\ UNCHANGED eventData

OtherLine ==
  /\ rpc = "handle"
  /\ line = 0 \/ (line = Blank /\ eventData = <<>>)
  /\ LineDone
  /\ UNCHANGED <<stream, late, writer, main, topic, outcome>>

DataLine ==
  /\ rpc = "handle"
  /\ line \in 1..Parts
  /\ eventData' = Append(eventData, <<next, line>>)
  /\ line' = line + 1
  /\ rpc' = "scan"
  /\ UNCHANGED <<stream, next, late, writer, main, topic, outcome>>

\* connect calls dispatch.
EmptyLine ==
  /\ rpc = "handle"
  /\ line = Blank /\ eventData # <<>>
  /\ rpc' = "dispatch"
  /\ late' = IF closed THEN late + 1 ELSE late
  /\ UNCHANGED <<stream, next, line, eventData, writer, main, topic, outcome>>

-----------------------------------------------------------------------------
Report(e, what) == outcome' = [outcome EXCEPT ![e] = what]

\* dispatch or onEvent give the event up: it does not parse or encode, or
\* Publish fails at once (the writer is closed, the partition not known).
DispatchFails ==
  /\ rpc = "dispatch"
  /\ Report(next, IF next \in Bad THEN "bad" ELSE "failed")
  /\ LineDone
  /\ UNCHANGED <<stream, late, writer, main, topic>>

HandOverBug ==
  /\ Report(next, "acked")
  /\ LineDone

\* Publish waits for the outcome (Async: false).
HandOver ==
  /\ rpc' = "publish"
  /\ UNCHANGED <<next, line, eventData, outcome>>

\* onEvent calls Publish, which gives the message to the writer.
Publish ==
  /\ rpc = "dispatch"
  /\ next \notin Bad
  /\ ~writerClosed
  /\ queue' = Append(queue, next)
  /\ HandOver
  /\ UNCHANGED <<stream, late, attempts, main, topic>>

\* The five seconds are over: Publish returns, the message stays.
PublishTimeout ==
  /\ rpc = "publish"
  /\ Report(next, "failed")
  /\ LineDone
  /\ UNCHANGED <<stream, late, writer, main, topic>>

\* The writer is done with its first message; the caller, if it still waits
\* for that one, learns how it went.
Settle(what) ==
  /\ queue' = Tail(queue)
  /\ attempts' = 0
  /\ IF rpc = "publish" /\ Len(queue) = 1
       THEN Report(Head(queue), what) /\ LineDone
       ELSE UNCHANGED <<rpc, next, line, eventData, outcome>>
  /\ UNCHANGED <<stream, late, main>>

Sending == queue # <<>> /\ attempts < MaxAttempts

\* All replicas have the message (RequireAll), and the writer is told so.
Acked ==
  /\ Sending
  /\ topic' = Append(topic, Head(queue))
  /\ Settle("acked")

\* They have it, or have it not, and the writer is told nothing: it tries
\* again, or gives up.
NotAcked ==
  /\ Sending
  /\ topic' \in {topic, Append(topic, Head(queue))}
  /\ IF attempts + 1 < MaxAttempts
       THEN /\ attempts' = attempts + 1
            /\ UNCHANGED <<queue, stream, reader, main, outcome>>
       ELSE Settle("failed")

-----------------------------------------------------------------------------
\* main: a signal, then Stop, then the deferred Close and the end.
Signal ==
  /\ mpc = "run"
  /\ mpc' = "stop"
  /\ UNCHANGED <<closed, writerClosed, stream, reader, writer, topic, outcome>>

Stop ==
  /\ mpc = "stop"
  /\ closed' = TRUE
  /\ mpc' = "close"
  /\ UNCHANGED <<writerClosed, stream, reader, writer, topic, outcome>>

Close ==
  /\ mpc = "close"
  /\ writerClosed' = TRUE
  /\ mpc' = "wait"
  /\ UNCHANGED <<closed, stream, reader, writer, topic, outcome>>

\* What Close of the writer waits for: its callers and its messages.
WriterIdle == queue = <<>> /\ rpc # "publish"

ReaderDoneBug == rpc = "stopped"

\* main does not wait for the reader.
ReaderDone == TRUE

Exit ==
  /\ mpc = "wait"
  /\ WriterIdle
  /\ ReaderDone
  /\ mpc' = "exit"
  /\ UNCHANGED <<closed, writerClosed, stream, reader, writer, topic, outcome>>

Exited == ~Alive /\ UNCHANGED vars

Read ==
  /\ Alive
  /\ \/ Top \/ Backoff \/ Scan \/ CheckLine \/ OtherLine \/ DataLine
     \/ EmptyLine \/ DispatchFails \/ Publish

Network == Alive /\ (ConnectFails \/ StreamEnds \/ PublishTimeout)
Connect == Alive /\ ConnectOK
Broker == Alive /\ (Acked \/ NotAcked)
Main == Stop \/ Close \/ Exit

Next == Emit \/ Read \/ Network \/ Connect \/ Broker \/ Signal \/ Main \/ Exited

Spec == Init /\ [][Next]_vars

(***************************************************************************)
(* Fairness: the goroutines run, the writer ends its attempts, and the     *)
(* stream accepts a connection now and then.  Nothing is assumed of the    *)
(* events: the stream may fall silent on an open connection.               *)
(***************************************************************************)
Fairness ==
  /\ WF_vars(Read)
  /\ SF_vars(Connect)
  /\ WF_vars(Broker)
  /\ WF_vars(Main)

FairSpec == Spec /\ Fairness

-----------------------------------------------------------------------------
InTopic(e) == \E i \in 1..Len(topic) : topic[i] = e

(***************************************************************************)
(* What is dispatched is one whole event: a connection that ends inside an *)
(* event leaves nothing behind that is joined to the next one.             *)
(***************************************************************************)
WholeEvents ==
  rpc \in {"dispatch", "publish"} =>
    eventData = [i \in 1..Parts |-> <<next, i>>]

(***************************************************************************)
(* The topic has the events in the order of the stream, though publishes   *)
(* time out while the writer goes on with them.  This is about order only: *)
(* the writer's retries put an event into the topic several times          *)
(* (PublishedOnce fails), and the copies are next to each other.           *)
(***************************************************************************)
InStreamOrder ==
  /\ \A i, j \in 1..Len(topic) : i < j => topic[i] <= topic[j]
  /\ \A i \in 1..Len(topic), j \in 1..Len(queue) : topic[i] <= queue[j]

(***************************************************************************)
(* CHANGELOG.md, line 23: "Redpanda producer wrapper using ... hashed      *)
(* partitioning and idempotent writes".  A write whose answer is lost and  *)
(* that is tried again leaves one message.  The writer of NewProducer does *)
(* not do this: it has retries, and nothing by which the broker would know *)
(* the second request.                                                     *)
(***************************************************************************)
PublishedOnce ==
  \A i, j \in 1..Len(topic) : topic[i] = topic[j] => i = j

(***************************************************************************)
(* What onEvent counts as published is in the topic, also after the exit,  *)
(* and what does not parse or encode is not.  (An event counted as a       *)
(* publish error may be there all the same.)                               *)
(***************************************************************************)
CountsAreTrue ==
  \A e \in Events : /\ outcome[e] = "acked" => InTopic(e)
                    /\ outcome[e] = "bad" => ~InTopic(e)

(***************************************************************************)
(* Stop takes effect at the next line: at most one event, the one whose    *)
(* empty line was being handled, is dispatched after it.                   *)
(***************************************************************************)
StopIsPrompt == late <= 1

\* A signal ends the process, even when the stream is silent and the reader
\* never sees that it was stopped.
SignalEndsProcess == mpc = "stop" ~> ~Alive
=============================================================================
