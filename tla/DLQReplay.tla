----------------------------- MODULE DLQReplay -----------------------------
(***************************************************************************)
(* services/dlq-replay: the tool reads the dead-letter queue as a consumer *)
(* group of its own and publishes what it reads to the original topic,     *)
(* where the consumer service meets the message once more.                 *)
(*                                                                         *)
(* The queue is filled from outside.  The consumer service does not do it: *)
(* WriteFailed hands kafka-go a nil context, on which the writer panics or *)
(* refuses the message (module Consumer).  So a message that the consumer  *)
(* still cannot decode is lost, and one day the cause is fixed, and it can.*)
(* Offsets are 1, 2, 3 ...                                                 *)
(*                                                                         *)
(* kafka-go is external: ReadMessage is a fetch and a commit, and a        *)
(* rebalance of the group sets the reader back to the committed offset, as *)
(* in module Consumer.  The tool's writer is asynchronous and asks for no  *)
(* acknowledgement: what it was given arrives, or vanishes, or arrives and *)
(* is sent again.                                                          *)
(***************************************************************************)
EXTENDS Integers, Sequences, FiniteSets

CONSTANTS
  Messages,         \* the messages that come into the queue
  QueueLimit,       \* bound of the model: how long the dead-letter queue gets
  MaxRuns,          \* bound of the model: how often the tool is run
  MaxFaults         \* bound of the model: crashes, rebalances and errors of
                    \* the network

ASSUME DLQReplayAssumption ==
  /\ IsFiniteSet(Messages)
  /\ QueueLimit \in Nat
  /\ MaxRuns \in Nat
  /\ MaxFaults \in Nat

None == 0           \* the offset the group has before its first commit

VARIABLES
  topic,            \* messages of the topic that the consumer has not read
  fixed,            \* the cause of the failures is fixed
  stored,           \* message -> how often the consumer has stored it
  dlq,              \* the dead-letter topic
  put,              \* history: how often each message was put into it
  committed,        \* the offset committed by the tool's group
  position,         \* the next offset the tool will fetch
  msg,              \* the offset of the message that the loop is at
  pc,               \* where the tool is
  publishes,        \* it was started with -replay and without -dry-run
  cancelled,        \* its context is cancelled
  queue,            \* the messages its writer holds
  runs,             \* history: how often it was started
  faults,           \* history: how many faults there were
  rejoins,          \* history: how often the group rebalanced
  repeats,          \* history: how often the writer sent a message again
  returned          \* history: how often Read returned each offset

consumer == <<fixed, stored>>
dead == <<dlq, put>>
tool == <<position, msg, pc, publishes, cancelled>>
vars == <<topic, consumer, dead, committed, tool, queue, runs, faults,
          rejoins, repeats, returned>>

Entries == 1..QueueLimit

TypeOK ==
  /\ topic \in Seq(Messages)
  /\ fixed \in BOOLEAN
  /\ stored \in [Messages -> Nat]
  /\ dlq \in Seq(Messages) /\ Len(dlq) <= QueueLimit
  /\ put \in [Messages -> Nat]
  /\ committed \in 0..(Len(dlq) + 1)
  /\ position \in 1..(Len(dlq) + 1)
  /\ msg \in 0..Len(dlq)
  /\ pc \in {"off", "read", "fetched", "handle", "close"}
  /\ publishes \in BOOLEAN
  /\ cancelled \in BOOLEAN
  /\ queue \in Seq(Messages)
  /\ runs \in 0..MaxRuns
  /\ faults \in 0..MaxFaults
  /\ rejoins \in Nat
  /\ repeats \in Nat
  /\ returned \in [Entries -> Nat]

Init ==
  /\ topic = <<>>
  /\ fixed = FALSE
  /\ stored = [m \in Messages |-> 0]
  /\ dlq = <<>>
  /\ put = [m \in Messages |-> 0]
  /\ committed = None
  /\ position = 1
  /\ msg = None
  /\ pc = "off"
  /\ publishes = FALSE
  /\ cancelled = FALSE
  /\ queue = <<>>
  /\ runs = 0
  /\ faults = 0
  /\ rejoins = 0
  /\ repeats = 0
  /\ returned = [o \in Entries |-> 0]

\* Something outside goes wrong.
Fault == faults < MaxFaults /\ faults' = faults + 1

-----------------------------------------------------------------------------
\* Something outside puts a message into the queue.
Put ==
  /\ Len(dlq) < QueueLimit
  /\ \E m \in Messages :
       /\ dlq' = Append(dlq, m)
       /\ put' = [put EXCEPT ![m] = @ + 1]
  /\ UNCHANGED <<topic, consumer, committed, tool, queue, runs, faults,
                 rejoins, repeats, returned>>

\* Somebody fixes the cause.
Fix ==
  /\ ~fixed
  /\ fixed' = TRUE
  /\ UNCHANGED <<topic, stored, dead, committed, tool, queue, runs, faults,
                 rejoins, repeats, returned>>

\* The consumer service reads a message that it can decode now ...
ConsumerStores ==
  /\ topic # <<>>
  /\ fixed
  /\ stored' = [stored EXCEPT ![Head(topic)] = @ + 1]
  /\ topic' = Tail(topic)
  /\ UNCHANGED <<fixed, dead, committed, tool, queue, runs, faults, rejoins,
                 repeats, returned>>

\* ... or one that it cannot, and loses it, having committed its offset.
ConsumerDrops ==
  /\ topic # <<>>
  /\ ~fixed
  /\ topic' = Tail(topic)
  /\ UNCHANGED <<consumer, dead, committed, tool, queue, runs, faults,
                 rejoins, repeats, returned>>

-----------------------------------------------------------------------------
\* The definitions named ...Bug are not part of the specification: each is a
\* slip the next definition could contain, and the README says which property
\* fails with it.
ResumeBug1 == 1
ResumeBug2 == committed

\* Where the reader starts: with no commit of its group, at the end of the
\* queue (StartOffset: LastOffset).
Resume == IF committed = None THEN Len(dlq) + 1 ELSE committed

\* main up to its loop, with and without -replay and -dry-run
Start ==
  /\ pc = "off"
  /\ runs < MaxRuns
  /\ runs' = runs + 1
  /\ position' = Resume
  /\ msg' = None
  /\ pc' = "read"
  /\ publishes' \in BOOLEAN
  /\ cancelled' = FALSE
  /\ UNCHANGED <<topic, consumer, dead, committed, queue, faults, rejoins,
                 repeats, returned>>

Goto(label) == pc' = label /\ UNCHANGED <<position, msg, publishes, cancelled>>

\* ReadMessage, the fetch
Fetch ==
  /\ pc = "read"
  /\ position <= Len(dlq)
  /\ msg' = position
  /\ position' = position + 1
  /\ pc' = "fetched"
  /\ UNCHANGED <<publishes, cancelled, topic, consumer, dead, committed, queue,
                 runs, faults, rejoins, repeats, returned>>

CommitOffsetBug == committed' = msg

\* It commits the offset after the message.
CommitOffset == committed' = msg + 1

\* ReadMessage returns the message, its offset committed.
ReadReturns ==
  /\ pc = "fetched"
  /\ CommitOffset
  /\ returned' = [returned EXCEPT ![msg] = @ + 1]
  /\ Goto("handle")
  /\ UNCHANGED <<topic, consumer, dead, queue, runs, faults, rejoins, repeats>>

\* The loop looks at the context only when Read has failed.
AfterReadError == IF cancelled THEN "close" ELSE "read"

\* The commit fails, and the message is not returned.
ReadError ==
  /\ pc = "fetched"
  /\ IF cancelled THEN UNCHANGED faults ELSE Fault
  /\ CommitOffset \/ UNCHANGED committed
  /\ Goto(AfterReadError)
  /\ UNCHANGED <<topic, consumer, dead, queue, runs, rejoins, repeats, returned>>

\* Read gives up because the context is cancelled.
ReadCancelled ==
  /\ pc = "read"
  /\ cancelled
  /\ Goto(AfterReadError)
  /\ UNCHANGED <<topic, consumer, dead, committed, queue, runs, faults,
                 rejoins, repeats, returned>>

HandOverBug == queue' = <<dlq[msg]>>

\* The writer is asynchronous: it only takes the message.
HandOver == queue' = Append(queue, dlq[msg])

\* The body of the loop prints the message and, with -replay, hands it to the
\* writer; when the writer refuses it, that is logged.
Handle ==
  /\ pc = "handle"
  /\ IF publishes
       THEN \/ HandOver /\ UNCHANGED faults
            \/ UNCHANGED queue /\ IF cancelled THEN UNCHANGED faults ELSE Fault
       ELSE UNCHANGED <<queue, faults>>
  /\ Goto("read")
  /\ UNCHANGED <<topic, consumer, dead, committed, runs, rejoins, repeats,
                 returned>>

\* The deferred writer.Close waits until its messages are sent.
Close ==
  /\ pc = "close"
  /\ queue = <<>>
  /\ Goto("off")
  /\ UNCHANGED <<topic, consumer, dead, committed, queue, runs, faults,
                 rejoins, repeats, returned>>

Signal ==
  /\ pc # "off"
  /\ ~cancelled
  /\ cancelled' = TRUE
  /\ UNCHANGED <<topic, consumer, dead, committed, position, msg, pc, publishes,
                 queue, runs, faults, rejoins, repeats, returned>>

\* The tool is killed, with what its writer holds.
Crash ==
  /\ pc # "off"
  /\ Fault
  /\ Goto("off")
  /\ queue' = <<>>
  /\ UNCHANGED <<topic, consumer, dead, committed, runs, rejoins, repeats,
                 returned>>

\* A rebalance of the tool's group: the reader fetches from the committed
\* offset again, and a message that was fetched before is still returned.
Rejoin ==
  /\ pc # "off"
  /\ Fault
  /\ rejoins' = rejoins + 1
  /\ position' = Resume
  /\ UNCHANGED <<topic, consumer, dead, committed, msg, pc, publishes,
                 cancelled, queue, runs, repeats, returned>>

-----------------------------------------------------------------------------
\* The writer's goroutine.
Send ==
  /\ queue # <<>>
  /\ topic' = Append(topic, Head(queue))
  /\ queue' = Tail(queue)
  /\ UNCHANGED <<consumer, dead, committed, tool, runs, faults, rejoins,
                 repeats, returned>>

\* No acknowledgement is asked for, and nobody learns of an error.
SendVanishes ==
  /\ queue # <<>>
  /\ Fault
  /\ queue' = Tail(queue)
  /\ UNCHANGED <<topic, consumer, dead, committed, tool, runs, rejoins,
                 repeats, returned>>

\* The connection breaks behind the message, which is sent again.
SendRepeats ==
  /\ queue # <<>>
  /\ Fault
  /\ topic' = Append(topic, Head(queue))
  /\ repeats' = repeats + 1
  /\ UNCHANGED <<queue, consumer, dead, committed, tool, runs, rejoins,
                 returned>>

Consumer == ConsumerStores \/ ConsumerDrops
Tool ==
  \/ Fetch \/ ReadReturns \/ ReadError \/ ReadCancelled \/ Handle \/ Close
Writer == Send \/ SendVanishes \/ SendRepeats

Next ==
  \/ Put \/ Fix \/ Consumer \/ Start \/ Tool \/ Writer
  \/ Signal \/ Crash \/ Rejoin

Spec == Init /\ [][Next]_vars

(***************************************************************************)
(* Fairness: the consumer, the tool and its writer run.  Faults are never  *)
(* forced, and MaxFaults is the assumption that they cease.                *)
(***************************************************************************)
FairSpec == Spec /\ WF_vars(Consumer) /\ WF_vars(Tool) /\ WF_vars(Writer)

-----------------------------------------------------------------------------
\* Read may still return entry o, now or after a restart or a rebalance.
CanRead(o) ==
  \/ committed # None /\ o >= committed
  \/ pc # "off" /\ o >= position
  \/ pc = "fetched" /\ o >= msg

Unread(m) == {o \in 1..Len(dlq) : dlq[o] = m /\ CanRead(o)}

InHand(m) == pc = "handle" /\ publishes /\ dlq[msg] = m

Count(s, m) == Cardinality({i \in 1..Len(s) : s[i] = m})

\* Where m is, and can still go on from.
LiveCopies(m) ==
  Count(topic, m) + Cardinality(Unread(m)) + Count(queue, m)
    + (IF InHand(m) THEN 1 ELSE 0) + stored[m]

(***************************************************************************)
(* The tool does not multiply a message: over any number of restarts,      *)
(* crashes and failed commits there are as many copies of it as were put   *)
(* into the queue, and one more per message that the writer sent again and *)
(* per rebalance, which may come between the fetch and the commit.         *)
(***************************************************************************)
NotMultiplied == \A m \in Messages : LiveCopies(m) <= put[m] + repeats + rejoins

(***************************************************************************)
(* Read returns an entry once in all runs of the tool together, and once   *)
(* more per rebalance at most.  That is so in each mode of the tool: also  *)
(* what is only printed, without -replay or with -dry-run, is consumed, and*)
(* the run that would replay it does not see it.                           *)
(***************************************************************************)
ReadsBounded == \A o \in Entries : returned[o] <= 1 + rejoins

\* The tool has not handed entry o to its writer yet.
Ahead(o) == o >= (IF pc \in {"fetched", "handle"} THEN msg ELSE position)

(***************************************************************************)
(* Recovery.  When the cause is fixed and no more faults come, a tool that *)
(* replays gets every entry that is ahead of it stored, unless it is       *)
(* stopped before it has handed the entry to its writer.  (One that it has *)
(* read and committed when it is stopped may be lost: the writer is given  *)
(* the cancelled context.  Entries that were in the queue before the group *)
(* first started are never ahead of it: see Resume.)                       *)
(***************************************************************************)
Recovers ==
  \A o \in Entries :
    (fixed /\ faults = MaxFaults /\ pc = "read" /\ publishes
       /\ o \in position..Len(dlq))
      ~> \/ cancelled /\ Ahead(o)
         \/ o <= Len(dlq) /\ stored[dlq[o]] > 0
=============================================================================
