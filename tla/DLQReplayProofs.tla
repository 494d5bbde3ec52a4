-------------------------- MODULE DLQReplayProofs --------------------------
(***************************************************************************)
(* Proofs about DLQReplay, for any messages, runs and faults.              *)
(***************************************************************************)
EXTENDS DLQReplay, FiniteSetTheorems, TLAPS

LEMMA TypeInit == Init => TypeOK
<1> SUFFICES ASSUME Init PROVE TypeOK
    OBVIOUS
<1> USE DLQReplayAssumption DEF Init, None, Entries
<1>2. topic \in Seq(Messages)
  OBVIOUS
<1>3. fixed \in BOOLEAN /\ publishes \in BOOLEAN /\ cancelled \in BOOLEAN
  BY Zenon
<1>4. /\ stored \in [Messages -> Nat]
      /\ dlq \in Seq(Messages) /\ Len(dlq) <= QueueLimit
      /\ put \in [Messages -> Nat]
      /\ committed \in 0..(Len(dlq) + 1)
      /\ position \in 1..(Len(dlq) + 1)
      /\ msg \in 0..Len(dlq)
      /\ pc \in {"off", "read", "fetched", "handle", "close"}
  OBVIOUS
<1>5. /\ queue \in Seq(Messages)
      /\ runs \in 0..MaxRuns
      /\ faults \in 0..MaxFaults
      /\ rejoins \in Nat
      /\ repeats \in Nat
      /\ returned \in [1..QueueLimit -> Nat]
  OBVIOUS
<1> QED
  BY <1>2, <1>3, <1>4, <1>5, Zenon DEF TypeOK

(***************************************************************************)
(* The types, in two halves: the logs and the writer, then the reader.     *)
(***************************************************************************)
LogTypes ==
  /\ topic \in Seq(Messages)
  /\ fixed \in BOOLEAN
  /\ stored \in [Messages -> Nat]
  /\ dlq \in Seq(Messages) /\ Len(dlq) <= QueueLimit
  /\ put \in [Messages -> Nat]
  /\ queue \in Seq(Messages)
  /\ runs \in 0..MaxRuns
  /\ faults \in 0..MaxFaults
  /\ rejoins \in Nat
  /\ repeats \in Nat

ReaderTypes ==
  /\ committed \in 0..(Len(dlq) + 1)
  /\ position \in 1..(Len(dlq) + 1)
  /\ msg \in 0..Len(dlq)
  /\ pc \in {"off", "read", "fetched", "handle", "close"}
  /\ publishes \in BOOLEAN
  /\ cancelled \in BOOLEAN
  /\ returned \in [Entries -> Nat]

\* Behind a fetch there is a message.
Shape == pc \in {"fetched", "handle"} => msg # None

LEMMA LogTypesStep == TypeOK /\ Shape /\ [Next]_vars => LogTypes'
<1> SUFFICES ASSUME TypeOK, Shape, [Next]_vars PROVE LogTypes'
    OBVIOUS
<1> USE DLQReplayAssumption DEF TypeOK, LogTypes
<1>1. CASE Fix
  BY <1>1 DEF Fix, dead
<1>2. CASE ConsumerStores
  BY <1>2 DEF ConsumerStores, dead
<1>3. CASE ConsumerDrops
  BY <1>3 DEF ConsumerDrops, consumer, dead
<1>4. CASE Start
  BY <1>4 DEF Start, consumer, dead
<1>14. CASE Put
  <2>1. PICK m \in Messages :
          dlq' = Append(dlq, m) /\ put' = [put EXCEPT ![m] = @ + 1]
    BY <1>14 DEF Put
  <2>2. Len(dlq) < QueueLimit
    BY <1>14 DEF Put
  <2>3. dlq' \in Seq(Messages) /\ Len(dlq') <= QueueLimit
    BY <2>1, <2>2
  <2>4. put' \in [Messages -> Nat]
    BY <2>1
  <2>5. fixed' \in BOOLEAN
    BY <1>14, Zenon DEF Put, consumer
  <2>6. UNCHANGED <<topic, stored, queue, runs, faults, rejoins, repeats>>
    BY <1>14 DEF Put, consumer
  <2> QED
    BY <2>3, <2>4, <2>5, <2>6
<1>5. CASE Fetch \/ ReadReturns \/ ReadCancelled \/ Close
  BY <1>5 DEF Fetch, ReadReturns, ReadCancelled, Close, consumer, dead
<1>6. CASE ReadError
  BY <1>6 DEF ReadError, consumer, dead, Fault
<1>7. CASE Handle
  <2>1. dlq[msg] \in Messages
    BY <1>7 DEF Handle, Shape, None
  <2>2. queue' \in Seq(Messages)
    <3>1. CASE HandOver
      BY <2>1, <3>1 DEF HandOver
    <3>2. CASE queue' = queue
      BY <3>2
    <3> QED
      BY <1>7, <3>1, <3>2, Zenon DEF Handle
  <2>3. faults' \in 0..MaxFaults
    BY <1>7 DEF Handle, Fault
  <2>4. fixed' \in BOOLEAN
    BY <1>7, Zenon DEF Handle, consumer
  <2>5. UNCHANGED <<topic, stored, dlq, put, runs, rejoins, repeats>>
    BY <1>7 DEF Handle, consumer, dead
  <2> QED
    BY <2>2, <2>3, <2>4, <2>5
<1>8. CASE Signal
  BY <1>8 DEF Signal, consumer, dead
<1>9. CASE Crash
  BY <1>9 DEF Crash, consumer, dead, Fault
<1>15. CASE Rejoin
  BY <1>15 DEF Rejoin, consumer, dead, Fault
<1>10. CASE Send
  BY <1>10 DEF Send, consumer, dead
<1>11. CASE SendVanishes
  BY <1>11 DEF SendVanishes, consumer, dead, Fault
<1>12. CASE SendRepeats
  BY <1>12 DEF SendRepeats, consumer, dead, Fault
<1>13. CASE UNCHANGED vars
  BY <1>13 DEF vars, consumer, dead
<1> QED
  BY <1>1, <1>2, <1>3, <1>4, <1>5, <1>6, <1>7, <1>8, <1>9, <1>10, <1>11,
     <1>12, <1>13, <1>14, <1>15 DEF Next, Consumer, Tool, Writer

LEMMA ReaderTypesStep ==
  TypeOK /\ Shape /\ [Next]_vars => ReaderTypes' /\ Shape'
<1> SUFFICES ASSUME TypeOK, Shape, [Next]_vars PROVE ReaderTypes' /\ Shape'
    OBVIOUS
<1> USE DEF TypeOK, ReaderTypes, Shape, Entries
<1>1. CASE Fix
  BY <1>1 DEF Fix, tool, dead
<1>2. CASE ConsumerStores \/ ConsumerDrops
  BY <1>2 DEF ConsumerStores, ConsumerDrops, tool, dead
<1>3. CASE Put
  <2>1. Len(dlq') = Len(dlq) + 1
    BY <1>3 DEF Put
  <2> QED
    BY <1>3, <2>1 DEF Put, tool
<1>4. CASE Start
  <2>1. publishes' \in BOOLEAN /\ cancelled' \in BOOLEAN
    BY <1>4, Zenon DEF Start
  <2>2. /\ UNCHANGED <<dlq, committed, returned>>
        /\ position' \in 1..(Len(dlq) + 1) /\ pc' = "read" /\ msg' = None
    BY <1>4 DEF Start, Resume, None, dead
  <2> QED
    BY <2>1, <2>2 DEF None
<1>5. CASE Fetch
  BY <1>5 DEF Fetch, dead, None
<1>6. CASE ReadReturns
  <2>1. msg \in 1..QueueLimit
    BY <1>6, DLQReplayAssumption DEF ReadReturns, None
  <2>2. returned[msg] \in Nat
    BY <2>1
  <2>3. returned' \in [1..QueueLimit -> Nat]
    BY <1>6, <2>1, <2>2 DEF ReadReturns
  <2>4. publishes' \in BOOLEAN /\ cancelled' \in BOOLEAN
    BY <1>6, Zenon DEF ReadReturns, Goto
  <2>5. dlq' = dlq /\ committed' = msg + 1 /\ position' = position
        /\ pc' = "handle" /\ msg' = msg
    BY <1>6 DEF ReadReturns, CommitOffset, Goto, dead
  <2> QED
    BY <1>6, <2>3, <2>4, <2>5 DEF ReadReturns
<1>7. CASE ReadError
  BY <1>7 DEF ReadError, CommitOffset, AfterReadError, Goto, dead
<1>8. CASE ReadCancelled \/ Close \/ Handle \/ Crash
  BY <1>8 DEF ReadCancelled, Close, Handle, Crash, AfterReadError, Goto, dead
<1>9. CASE Signal
  BY <1>9 DEF Signal, dead
<1>10. CASE Writer
  BY <1>10 DEF Writer, Send, SendVanishes, SendRepeats, tool, dead
<1>11. CASE UNCHANGED vars
  BY <1>11 DEF vars, tool, dead
<1>12. CASE Rejoin
  BY <1>12 DEF Rejoin, Resume, None, dead
<1> QED
  BY <1>1, <1>2, <1>3, <1>4, <1>5, <1>6, <1>7, <1>8, <1>9, <1>10, <1>11,
     <1>12 DEF Next, Consumer, Tool

(***************************************************************************)
(* Type correctness: the offsets that the tool fetches, commits and counts *)
(* are offsets of the dead-letter queue, in every run and after any fault. *)
(***************************************************************************)
THEOREM TypeCorrect == Spec => [](TypeOK /\ Shape)
<1>1. Init => TypeOK /\ Shape
  BY TypeInit DEF Init, Shape
<1>2. TypeOK /\ Shape /\ [Next]_vars => (TypeOK /\ Shape)'
  BY LogTypesStep, ReaderTypesStep DEF LogTypes, ReaderTypes, TypeOK, Entries
<1> QED
  BY <1>1, <1>2, PTL DEF Spec

-----------------------------------------------------------------------------
\* A message was fetched, and a rebalance set the reader back to it or before.
Again == pc = "fetched" /\ position <= msg

\* The steps of the tool and what happens to it.
ToolMoves ==
  \/ Start \/ Fetch \/ ReadReturns \/ ReadError \/ ReadCancelled \/ Handle
  \/ Close \/ Signal \/ Crash \/ Rejoin

(***************************************************************************)
(* The tool never gets an entry back that it could not read any more: a    *)
(* restart and a rebalance begin at the committed offset, and no commit is *)
(* before what the reader can still fetch.                                 *)
(***************************************************************************)
LEMMA Narrows ==
  ASSUME TypeOK, Shape, ToolMoves, NEW o \in 1..Len(dlq), CanRead(o)'
  PROVE  CanRead(o)
<1> USE DEF TypeOK, CanRead, None
<1>1. CASE Start
  BY <1>1 DEF Start, Resume
<1>2. CASE Fetch
  BY <1>2 DEF Fetch
<1>3. CASE ReadReturns
  BY <1>3 DEF ReadReturns, CommitOffset, Goto
<1>4. CASE ReadError
  BY <1>4 DEF ReadError, CommitOffset, AfterReadError, Goto
<1>5. CASE ReadCancelled \/ Handle \/ Close \/ Crash
  BY <1>5 DEF ReadCancelled, Handle, Close, Crash, AfterReadError, Goto
<1>6. CASE Signal
  BY <1>6 DEF Signal
<1>7. CASE Rejoin
  BY <1>7 DEF Rejoin, Resume
<1> QED
  BY <1>1, <1>2, <1>3, <1>4, <1>5, <1>6, <1>7 DEF ToolMoves

\* What else happens does not touch the reader.
Elsewhere == Put \/ Fix \/ Consumer \/ Writer \/ UNCHANGED vars

LEMMA Aside ==
  ASSUME Elsewhere
  PROVE  UNCHANGED <<committed, position, msg, pc, publishes, rejoins, returned>>
BY DEF Elsewhere, Put, Fix, Consumer, ConsumerStores, ConsumerDrops, Writer,
   Send, SendVanishes, SendRepeats, vars, tool

(***************************************************************************)
(* How often Read has returned what it can still return: at most once per  *)
(* rebalance, and once less when the message at hand will come again.      *)
(***************************************************************************)
Behind ==
  /\ \A o \in Entries : returned[o] > 0 => o <= Len(dlq)
  /\ \A o \in Entries : CanRead(o) => returned[o] <= rejoins
  /\ Again => returned[msg] + 1 <= rejoins

LEMMA BehindStep ==
  TypeOK /\ Shape /\ ReadsBounded /\ Behind /\ [Next]_vars
    => ReadsBounded' /\ Behind'
<1> SUFFICES ASSUME TypeOK, Shape, ReadsBounded, Behind, [Next]_vars
             PROVE  ReadsBounded' /\ Behind'
    OBVIOUS
<1>1. /\ Len(dlq) \in Nat /\ rejoins \in Nat /\ position \in Nat /\ msg \in Nat
      /\ returned \in [Entries -> Nat] /\ Entries = 1..QueueLimit
      /\ QueueLimit \in Nat /\ Len(dlq) <= QueueLimit
  BY DLQReplayAssumption DEF TypeOK, Entries
<1>2. CASE Elsewhere
  <2>1. /\ UNCHANGED <<committed, position, msg, pc, rejoins, returned>>
        /\ \A o : CanRead(o)' <=> CanRead(o)
    BY <1>2, Aside DEF CanRead
  <2>2. Len(dlq) <= Len(dlq')
    <3>1. CASE Put
      BY <3>1 DEF Put, TypeOK
    <3>2. CASE dlq' = dlq
      BY <1>1, <3>2
    <3> QED
      BY <1>2, <3>1, <3>2
      DEF Elsewhere, Fix, Consumer, ConsumerStores, ConsumerDrops, Writer, Send,
          SendVanishes, SendRepeats, vars, dead
  <2>3. Len(dlq') \in Nat
    BY LogTypesStep DEF LogTypes
  <2> QED
    BY <1>1, <2>1, <2>2, <2>3 DEF ReadsBounded, Behind, Again
<1>3. CASE ToolMoves
  <2>1. dlq' = dlq
    BY <1>3 DEF ToolMoves, Start, Fetch, ReadReturns, ReadError, ReadCancelled,
       Handle, Close, Signal, Crash, Rejoin, dead
  <2>2. \A o \in 1..Len(dlq) : CanRead(o)' => CanRead(o)
    BY <1>3, Narrows
  <2>3. CASE ReadReturns
    <3>1. /\ pc = "fetched" /\ pc' = "handle" /\ committed' = msg + 1
          /\ UNCHANGED <<position, msg, rejoins>> /\ msg \in 1..Len(dlq)
          /\ returned' = [returned EXCEPT ![msg] = @ + 1]
      BY <2>3 DEF ReadReturns, CommitOffset, Goto, Shape, None, TypeOK
    <3>2. \A o \in Entries :
            returned'[o] = IF o = msg THEN returned[o] + 1 ELSE returned[o]
      BY <1>1, <3>1
    <3>3. msg \in Entries /\ returned[msg] <= rejoins
      BY <1>1, <3>1 DEF Behind, CanRead
    <3>4. CanRead(msg)' => Again
      BY <1>1, <3>1 DEF CanRead, Again
    <3>5. \A o \in Entries : CanRead(o)' => returned'[o] <= rejoins
      BY <1>1, <2>2, <3>1, <3>2, <3>4 DEF Behind
    <3>6. \A o \in Entries : returned'[o] <= 1 + rejoins
      BY <1>1, <3>2, <3>3 DEF ReadsBounded
    <3>7. \A o \in Entries : returned'[o] > 0 => o <= Len(dlq)
      BY <1>1, <3>1, <3>2 DEF Behind
    <3> QED
      BY <2>1, <3>1, <3>5, <3>6, <3>7 DEF ReadsBounded, Behind, Again
  <2>4. CASE Rejoin
    <3>1. UNCHANGED <<msg, pc, returned>> /\ rejoins' = rejoins + 1
      BY <2>4 DEF Rejoin
    <3>2. \A o \in Entries : CanRead(o)' => returned[o] <= rejoins
      BY <1>1, <2>2 DEF Behind
    <3>3. pc = "fetched" => msg \in Entries /\ returned[msg] <= rejoins
      BY <1>1 DEF Behind, CanRead, Shape, None, TypeOK
    <3>4. Again' => returned[msg] + 1 <= rejoins'
      BY <1>1, <3>1, <3>3 DEF Again
    <3> QED
      BY <1>1, <2>1, <3>1, <3>2, <3>4 DEF ReadsBounded, Behind
  <2>5. CASE ~ReadReturns /\ ~Rejoin
    <3>1. UNCHANGED <<rejoins, returned>>
      BY <1>3, <2>5 DEF ToolMoves, Start, Fetch, ReadError, ReadCancelled, Handle,
         Close, Signal, Crash
    <3>2. \A o \in Entries : CanRead(o)' => returned[o] <= rejoins
      BY <1>1, <2>2 DEF Behind
    <3>3. Again' => Again /\ msg' = msg
      BY <1>1, <1>3, <2>5 DEF ToolMoves, Start, Fetch, ReadError, ReadCancelled,
         Handle, Close, Signal, Crash, AfterReadError, Goto, Again
    <3> QED
      BY <2>1, <3>1, <3>2, <3>3 DEF ReadsBounded, Behind
  <2> QED
    BY <2>3, <2>4, <2>5
<1> QED
  BY <1>2, <1>3 DEF Next, Tool, ToolMoves, Elsewhere

(***************************************************************************)
(* Read returns an entry of the dead-letter queue once in all runs of the  *)
(* tool, after any crash or failed commit, and once more per rebalance of  *)
(* its group at most.                                                      *)
(***************************************************************************)
THEOREM EntryReadsBounded == Spec => []ReadsBounded
<1>1. Init => ReadsBounded /\ Behind
  BY DEF Init, ReadsBounded, Behind, Again
<1> QED
  BY <1>1, TypeCorrect, BehindStep, PTL DEF Spec

-----------------------------------------------------------------------------
(***************************************************************************)
(* How Count goes with what is done to a sequence.                         *)
(***************************************************************************)
Where(s, m) == {i \in 1..Len(s) : s[i] = m}
One(condition) == IF condition THEN 1 ELSE 0

LEMMA CountFinite ==
  ASSUME NEW s \in Seq(Messages), NEW m
  PROVE  /\ IsFiniteSet(Where(s, m))
         /\ Count(s, m) = Cardinality(Where(s, m))
         /\ Count(s, m) \in Nat
<1>1. IsFiniteSet(1..Len(s))
  BY FS_Interval
<1>2. Where(s, m) \in SUBSET (1..Len(s))
  BY DEF Where
<1>3. IsFiniteSet(Where(s, m))
  BY <1>1, <1>2, FS_Subset
<1> QED
  BY <1>3, FS_CardinalityType DEF Count, Where

LEMMA CountAppend ==
  ASSUME NEW s \in Seq(Messages), NEW m, NEW x \in Messages
  PROVE  Count(Append(s, x), m) = Count(s, m) + One(x = m)
<1> DEFINE t == Append(s, x)
           n == Len(s) + 1
<1>1. /\ t \in Seq(Messages) /\ Len(t) = n /\ t[n] = x
      /\ n \in Nat /\ Len(s) \in Nat
      /\ \A i \in 1..Len(s) : t[i] = s[i]
  OBVIOUS
<1> HIDE DEF t
<1>2. /\ IsFiniteSet(Where(s, m))
      /\ Count(s, m) = Cardinality(Where(s, m))
      /\ Count(s, m) \in Nat
      /\ Count(t, m) = Cardinality(Where(t, m))
  BY <1>1, CountFinite
<1>3. CASE x = m
  <2>1. Where(t, m) = Where(s, m) \cup {n}
    BY <1>1, <1>3 DEF Where
  <2>2. n \notin Where(s, m)
    BY <1>1 DEF Where
  <2>3. Cardinality(Where(t, m)) = Cardinality(Where(s, m)) + 1
    BY <1>2, <2>1, <2>2, FS_AddElement
  <2> QED
    BY <1>2, <1>3, <2>3 DEF One, t
<1>4. CASE x # m
  <2>1. Where(t, m) = Where(s, m)
    BY <1>1, <1>4 DEF Where
  <2> QED
    BY <1>2, <1>4, <2>1 DEF One, t
<1> QED
  BY <1>3, <1>4

LEMMA CountTail ==
  ASSUME NEW s \in Seq(Messages), NEW m, s # <<>>
  PROVE  Count(s, m) = One(Head(s) = m) + Count(Tail(s), m)
<1> DEFINE t == Tail(s)
           S == Where(s, m) \ {1}
           T == Where(t, m)
           f == [i \in S |-> i - 1]
<1>1. /\ Len(s) \in Nat /\ Len(s) >= 1 /\ Head(s) = s[1]
      /\ t \in Seq(Messages) /\ Len(t) = Len(s) - 1
      /\ \A i \in 1..Len(t) : t[i] = s[i + 1]
  OBVIOUS
<1> HIDE DEF t
<1>2. f \in Bijection(S, T)
  <2>1. \A i \in S : i \in Nat /\ i - 1 \in T
    BY <1>1 DEF Where
  <2>2. f \in Injection(S, T)
    BY <2>1 DEF Injection, IsInjective
  <2>3. \A j \in T : j + 1 \in S /\ (j + 1) - 1 = j
    BY <1>1 DEF Where
  <2>4. \A j \in T : \E i \in S : f[i] = j
    BY <2>3
  <2>5. f \in Surjection(S, T)
    BY <2>1, <2>4 DEF Surjection
  <2> QED
    BY <2>2, <2>5 DEF Bijection
<1>3. ExistsBijection(S, T)
  BY <1>2 DEF ExistsBijection
<1>4. /\ IsFiniteSet(Where(s, m)) /\ Count(s, m) = Cardinality(Where(s, m))
      /\ Count(t, m) = Cardinality(T)
  BY <1>1, CountFinite
<1>5. IsFiniteSet(S) /\ Cardinality(S) \in Nat
  <2>1. S \in SUBSET Where(s, m)
    OBVIOUS
  <2> QED
    BY <1>4, <2>1, FS_Subset, FS_CardinalityType
<1>6. Cardinality(T) = Cardinality(S)
  BY <1>3, <1>5, FS_Bijection
<1>7. CASE s[1] = m
  <2>1. Where(s, m) = S \cup {1} /\ 1 \notin S
    BY <1>1, <1>7 DEF Where
  <2>2. Cardinality(Where(s, m)) = Cardinality(S) + 1
    BY <1>5, <2>1, FS_AddElement
  <2> QED
    BY <1>1, <1>4, <1>5, <1>6, <1>7, <2>2 DEF One, t
<1>8. CASE s[1] # m
  <2>1. Where(s, m) = S
    BY <1>8 DEF Where
  <2>2. One(Head(s) = m) = 0
    BY <1>1, <1>8 DEF One
  <2> HIDE DEF S, T
  <2> QED
    BY <1>4, <1>5, <1>6, <2>1, <2>2 DEF t
<1> QED
  BY <1>7, <1>8

LEMMA CountEmpty ==
  ASSUME NEW m
  PROVE  Count(<<>>, m) = 0
<1>1. Where(<<>>, m) = {}
  BY DEF Where
<1> QED
  BY <1>1, FS_EmptySet DEF Count, Where

-----------------------------------------------------------------------------
(***************************************************************************)
(* Where the copies of a message are, and the one that is still to come    *)
(* because a rebalance has set the reader back under a fetched message.    *)
(* A step moves a copy from one place to another, loses it, or is one of   *)
(* the three that are counted: Put, SendRepeats and Rejoin.                *)
(***************************************************************************)
InTopic(m) == Count(topic, m)
Waiting(m) == Cardinality(Unread(m))
InQueue(m) == Count(queue, m)
Held(m) == One(InHand(m))
Twice(m) == One(Again /\ dlq[msg] = m)
Potential(m) ==
  InTopic(m) + Waiting(m) + InQueue(m) + Held(m) + Twice(m) + stored[m]

LEMMA UnreadFinite ==
  ASSUME NEW m
  PROVE  /\ Len(dlq) \in Nat =>
              IsFiniteSet(Unread(m)) /\ Waiting(m) \in Nat
         /\ Len(dlq') \in Nat =>
              IsFiniteSet(Unread(m)') /\ Cardinality(Unread(m)') \in Nat
<1>1. ASSUME Len(dlq) \in Nat PROVE IsFiniteSet(Unread(m)) /\ Waiting(m) \in Nat
  <2>1. IsFiniteSet(1..Len(dlq)) /\ Unread(m) \in SUBSET (1..Len(dlq))
    BY <1>1, FS_Interval DEF Unread
  <2> QED
    BY <2>1, FS_Subset, FS_CardinalityType DEF Waiting
<1>2. ASSUME Len(dlq') \in Nat
      PROVE  IsFiniteSet(Unread(m)') /\ Cardinality(Unread(m)') \in Nat
  <2>1. IsFiniteSet(1..Len(dlq')) /\ Unread(m)' \in SUBSET (1..Len(dlq'))
    BY <1>2, FS_Interval DEF Unread
  <2> QED
    BY <2>1, FS_Subset, FS_CardinalityType
<1> QED
  BY <1>1, <1>2

LEMMA Places ==
  ASSUME TypeOK, Shape, NEW m \in Messages
  PROVE  /\ InTopic(m) \in Nat /\ Waiting(m) \in Nat /\ InQueue(m) \in Nat
         /\ Held(m) \in {0, 1} /\ Twice(m) \in {0, 1} /\ stored[m] \in Nat
         /\ put[m] \in Nat /\ repeats \in Nat /\ rejoins \in Nat
<1>1. InTopic(m) \in Nat /\ InQueue(m) \in Nat
  BY CountFinite DEF InTopic, InQueue, TypeOK
<1>2. Waiting(m) \in Nat
  BY UnreadFinite DEF TypeOK
<1> QED
  BY <1>1, <1>2 DEF Held, Twice, One, TypeOK

\* What can still be read after a step of the tool could be read before it.
LEMMA WaitingLess ==
  ASSUME TypeOK, Shape, ToolMoves, NEW m \in Messages
  PROVE  /\ dlq' = dlq /\ put' = put
         /\ Unread(m)' \subseteq Unread(m) /\ IsFiniteSet(Unread(m))
         /\ Waiting(m)' \in Nat /\ Waiting(m) \in Nat /\ Waiting(m)' <= Waiting(m)
<1>1. dlq' = dlq /\ put' = put
  BY DEF ToolMoves, Start, Fetch, ReadReturns, ReadError, ReadCancelled,
     Handle, Close, Signal, Crash, Rejoin, dead
<1>2. \A o \in 1..Len(dlq) : CanRead(o)' => CanRead(o)
  BY Narrows
<1>3. Unread(m)' \in SUBSET Unread(m)
  BY <1>1, <1>2 DEF Unread
<1>4. /\ IsFiniteSet(Unread(m)) /\ Waiting(m) \in Nat
      /\ Cardinality(Unread(m)') \in Nat
  BY <1>1, UnreadFinite DEF TypeOK
<1>5. Cardinality(Unread(m)') <= Cardinality(Unread(m))
  BY <1>3, <1>4, FS_Subset
<1> QED
  BY <1>1, <1>3, <1>4, <1>5 DEF Waiting

\* The reader moves past an entry, or takes it in its hand; a rebalance may
\* bring an entry that it holds a second time.
LEMMA ReaderMoves ==
  ASSUME TypeOK, Shape, ToolMoves, ~Handle, NEW m \in Messages
  PROVE  /\ Potential(m)' + put[m] + repeats + rejoins
              <= Potential(m) + put'[m] + repeats' + rejoins'
<1>1. /\ put' = put /\ UNCHANGED <<dlq, topic, stored, repeats>>
      /\ Unread(m)' \subseteq Unread(m) /\ IsFiniteSet(Unread(m))
      /\ Waiting(m)' \in Nat /\ Waiting(m) \in Nat /\ Waiting(m)' <= Waiting(m)
  BY WaitingLess DEF ToolMoves, Start, Fetch, ReadReturns, ReadError,
     ReadCancelled, Close, Signal, Crash, Rejoin, consumer
<1>2. /\ InTopic(m) \in Nat /\ InQueue(m) \in Nat /\ stored[m] \in Nat
      /\ Held(m) \in {0, 1} /\ Twice(m) \in {0, 1}
      /\ put[m] \in Nat /\ repeats \in Nat /\ rejoins \in Nat
  BY Places
<1>3. InTopic(m)' = InTopic(m) /\ stored'[m] = stored[m]
  BY <1>1 DEF InTopic
<1>4. InQueue(m)' \in Nat /\ InQueue(m)' <= InQueue(m)
  <2>1. CASE queue' = queue
    BY <1>2, <2>1 DEF InQueue
  <2>2. CASE queue' = <<>>
    BY <1>2, <2>2, CountEmpty DEF InQueue
  <2> QED
    BY <2>1, <2>2 DEF ToolMoves, Start, Fetch, ReadReturns, ReadError,
       ReadCancelled, Close, Signal, Crash, Rejoin
<1>5. Held(m)' \in {0, 1} /\ Twice(m)' \in {0, 1}
  BY DEF Held, Twice, One
<1> DEFINE Goal == Waiting(m)' + Held(m)' + Twice(m)' + rejoins
                     <= Waiting(m) + Held(m) + Twice(m) + rejoins'
<1>6. rejoins' \in Nat /\ Goal
  <2>1. CASE ReadReturns
    <3>1. /\ pc = "fetched" /\ pc' = "handle" /\ committed' = msg + 1
          /\ UNCHANGED <<position, msg, rejoins>> /\ msg \in 1..Len(dlq)
      BY <2>1 DEF ReadReturns, CommitOffset, Goto, Shape, None, TypeOK
    <3>2. Held(m) = 0 /\ Twice(m)' = 0
      BY <3>1 DEF Held, InHand, Twice, Again, One
    <3>3. CASE dlq[msg] # m
      <4>1. Held(m)' = 0 /\ Twice(m) = 0
        BY <1>1, <3>1, <3>3 DEF Held, InHand, Twice, One
      <4> QED
        BY <1>1, <1>2, <3>1, <3>2, <4>1
    <3>4. CASE dlq[msg] = m /\ Again
      <4>1. Twice(m) = 1
        BY <3>4 DEF Twice, One
      <4> QED
        BY <1>1, <1>2, <1>5, <3>1, <3>2, <4>1
    <3>5. CASE dlq[msg] = m /\ ~Again
      <4>1. msg \in Unread(m)
        BY <3>1, <3>5 DEF Unread, CanRead, TypeOK
      <4>2. msg \notin Unread(m)'
        BY <3>1, <3>5 DEF Unread, CanRead, Again, TypeOK
      <4>3. Unread(m)' \in SUBSET (Unread(m) \ {msg})
        BY <1>1, <4>2
      <4>4. /\ IsFiniteSet(Unread(m) \ {msg})
            /\ Cardinality(Unread(m) \ {msg}) = Cardinality(Unread(m)) - 1
        BY <1>1, <4>1, FS_RemoveElement
      <4>5. Cardinality(Unread(m)') <= Cardinality(Unread(m) \ {msg})
        BY <4>3, <4>4, FS_Subset
      <4>6. Waiting(m)' + 1 <= Waiting(m)
        BY <1>1, <4>4, <4>5 DEF Waiting
      <4> QED
        BY <1>1, <1>2, <1>5, <3>1, <3>2, <4>6
    <3> QED
      BY <3>3, <3>4, <3>5
  <2>2. CASE Rejoin
    <3>1. UNCHANGED <<msg, pc, publishes>> /\ rejoins' = rejoins + 1
      BY <2>2 DEF Rejoin
    <3>2. Held(m)' = Held(m)
      BY <1>1, <3>1 DEF Held, InHand
    <3> QED
      BY <1>1, <1>2, <1>5, <3>1, <3>2
  <2>3. CASE ~ReadReturns /\ ~Rejoin
    <3>1. rejoins' = rejoins
      BY <2>3 DEF ToolMoves, Start, Fetch, ReadError, ReadCancelled, Close,
         Signal, Crash
    <3>2. InHand(m)' => InHand(m)
      BY <1>1, <2>3 DEF ToolMoves, Start, Fetch, ReadError, ReadCancelled, Close,
         Signal, Crash, AfterReadError, Goto, InHand
    <3>3. Again' => Again /\ msg' = msg
      BY <2>3 DEF ToolMoves, Start, Fetch, ReadError, ReadCancelled,
         Close, Signal, Crash, AfterReadError, Goto, Again, TypeOK
    <3>4. Held(m)' <= Held(m)
      BY <3>2 DEF Held, One
    <3>5. Twice(m)' <= Twice(m)
      BY <1>1, <3>3 DEF Twice, One
    <3> QED
      BY <1>1, <1>2, <1>5, <3>1, <3>4, <3>5
  <2> QED
    BY <2>1, <2>2, <2>3
<1> QED
  BY <1>1, <1>2, <1>3, <1>4, <1>5, <1>6 DEF Potential

\* The loop's body gives what it has in its hand to the writer, or drops it.
LEMMA HandleMoves ==
  ASSUME TypeOK, Shape, Handle, NEW m \in Messages
  PROVE  Potential(m)' + put[m] + repeats + rejoins
           <= Potential(m) + put'[m] + repeats' + rejoins'
<1>1. /\ UNCHANGED <<topic, dlq, put, committed, position, msg, publishes,
                     stored, repeats, rejoins>>
      /\ pc = "handle" /\ pc' = "read"
  BY DEF Handle, Goto, consumer, dead
<1>2. /\ InTopic(m) \in Nat /\ InQueue(m) \in Nat /\ stored[m] \in Nat
      /\ Held(m) \in {0, 1} /\ Twice(m) \in {0, 1}
      /\ put[m] \in Nat /\ repeats \in Nat /\ rejoins \in Nat
  BY Places
<1>3. /\ Waiting(m)' \in Nat /\ Waiting(m) \in Nat /\ Waiting(m)' <= Waiting(m)
  BY WaitingLess DEF ToolMoves
<1>4. InTopic(m)' = InTopic(m) /\ stored'[m] = stored[m]
  BY <1>1 DEF InTopic
<1>5. Held(m)' = 0 /\ Twice(m)' = 0
  BY <1>1 DEF Held, InHand, Twice, Again, One
<1>6. InQueue(m)' \in Nat /\ InQueue(m)' <= InQueue(m) + Held(m)
  <2>1. CASE queue' = queue
    BY <1>2, <2>1 DEF InQueue
  <2>2. CASE queue' # queue
    <3>1. publishes /\ queue' = Append(queue, dlq[msg])
      BY <2>2 DEF Handle, HandOver
    <3>2. dlq[msg] \in Messages /\ queue \in Seq(Messages)
      BY <1>1 DEF TypeOK, Shape, None
    <3>3. InQueue(m)' = InQueue(m) + One(dlq[msg] = m)
      BY <3>1, <3>2, CountAppend DEF InQueue
    <3>4. Held(m) = One(dlq[msg] = m)
      BY <1>1, <3>1 DEF Held, InHand, One
    <3> QED
      BY <1>2, <3>3, <3>4
  <2> QED
    BY <2>1, <2>2
<1> QED
  BY <1>1, <1>2, <1>3, <1>4, <1>5, <1>6 DEF Potential

\* A step that leaves the tool and the queue alone.
LEMMA ToolIdle ==
  ASSUME UNCHANGED <<dlq, committed, position, msg, pc, publishes>>, NEW m
  PROVE  Waiting(m)' = Waiting(m) /\ Held(m)' = Held(m) /\ Twice(m)' = Twice(m)
<1>1. \A o : CanRead(o)' <=> CanRead(o)
  BY DEF CanRead
<1>2. Unread(m)' = Unread(m)
  BY <1>1 DEF Unread
<1> QED
  BY <1>2 DEF Waiting, Held, InHand, Twice, Again

\* The writer's goroutine, for the message at the head of its queue.
LEMMA WriterMoves ==
  ASSUME TypeOK, Shape, Writer, NEW m \in Messages
  PROVE  Potential(m)' + put[m] + repeats + rejoins
           <= Potential(m) + put'[m] + repeats' + rejoins'
<1>1. /\ UNCHANGED <<dlq, put, committed, position, msg, pc, publishes, stored,
                     rejoins>>
      /\ queue # <<>>
  BY DEF Writer, Send, SendVanishes, SendRepeats, tool, consumer, dead
<1>2. Waiting(m)' = Waiting(m) /\ Held(m)' = Held(m) /\ Twice(m)' = Twice(m)
  BY <1>1, ToolIdle
<1>3. /\ InTopic(m) \in Nat /\ Waiting(m) \in Nat /\ stored[m] \in Nat
      /\ Held(m) \in {0, 1} /\ Twice(m) \in {0, 1}
      /\ put[m] \in Nat /\ repeats \in Nat /\ rejoins \in Nat
  BY Places
<1> DEFINE one == One(Head(queue) = m)
           rest == Count(Tail(queue), m)
<1>4. /\ topic \in Seq(Messages) /\ queue \in Seq(Messages)
      /\ Head(queue) \in Messages /\ Tail(queue) \in Seq(Messages)
  BY <1>1 DEF TypeOK
<1>5. /\ InQueue(m) = one + rest /\ rest \in Nat /\ one \in {0, 1}
      /\ Count(Append(topic, Head(queue)), m) = InTopic(m) + one
  BY <1>1, <1>4, CountTail, CountAppend, CountFinite DEF InQueue, InTopic, One
<1> HIDE DEF one, rest
<1>9. stored'[m] = stored[m] /\ put'[m] = put[m] /\ rejoins' = rejoins
  BY <1>1
<1>6. CASE Send
  <2>1. InTopic(m)' = InTopic(m) + one /\ InQueue(m)' = rest /\ repeats' = repeats
    BY <1>5, <1>6 DEF Send, InTopic, InQueue, rest
  <2> QED
    BY <1>2, <1>3, <1>5, <1>9, <2>1 DEF Potential
<1>7. CASE SendVanishes
  <2>1. InTopic(m)' = InTopic(m) /\ InQueue(m)' = rest /\ repeats' = repeats
    BY <1>7 DEF SendVanishes, InTopic, InQueue, rest
  <2> QED
    BY <1>2, <1>3, <1>5, <1>9, <2>1 DEF Potential
<1>8. CASE SendRepeats
  <2>1. /\ InTopic(m)' = InTopic(m) + one /\ InQueue(m)' = InQueue(m)
        /\ repeats' = repeats + 1
    BY <1>5, <1>8 DEF SendRepeats, InTopic, InQueue
  <2> QED
    BY <1>2, <1>3, <1>5, <1>9, <2>1 DEF Potential
<1> QED
  BY <1>6, <1>7, <1>8 DEF Writer

\* The consumer takes the message at the head of the topic.
LEMMA ConsumerMoves ==
  ASSUME TypeOK, Shape, Consumer, NEW m \in Messages
  PROVE  Potential(m)' + put[m] + repeats + rejoins
           <= Potential(m) + put'[m] + repeats' + rejoins'
<1>1. /\ UNCHANGED <<dlq, put, committed, position, msg, pc, publishes, queue,
                     repeats, rejoins>>
      /\ topic # <<>> /\ topic' = Tail(topic)
  BY DEF Consumer, ConsumerStores, ConsumerDrops, tool, dead
<1>2. Waiting(m)' = Waiting(m) /\ Held(m)' = Held(m) /\ Twice(m)' = Twice(m)
  BY <1>1, ToolIdle
<1>3. /\ Waiting(m) \in Nat /\ InQueue(m) \in Nat /\ stored[m] \in Nat
      /\ Held(m) \in {0, 1} /\ Twice(m) \in {0, 1}
      /\ put[m] \in Nat /\ repeats \in Nat /\ rejoins \in Nat
  BY Places
<1> DEFINE one == One(Head(topic) = m)
<1>4. /\ topic \in Seq(Messages) /\ Tail(topic) \in Seq(Messages)
      /\ Head(topic) \in Messages /\ stored \in [Messages -> Nat]
  BY <1>1 DEF TypeOK
<1>5. InTopic(m) = one + InTopic(m)' /\ InTopic(m)' \in Nat /\ one \in {0, 1}
  BY <1>1, <1>4, CountTail, CountFinite DEF InTopic, One
<1>6. stored'[m] \in {stored[m], stored[m] + one}
  <2>1. CASE ConsumerStores
    BY <1>4, <2>1 DEF ConsumerStores, One
  <2>2. CASE ConsumerDrops
    BY <2>2 DEF ConsumerDrops, consumer
  <2> QED
    BY <2>1, <2>2 DEF Consumer
<1>7. InQueue(m)' = InQueue(m)
  BY <1>1 DEF InQueue
<1>8. put'[m] = put[m] /\ repeats' = repeats /\ rejoins' = rejoins
  BY <1>1
<1> HIDE DEF one
<1> QED
  BY <1>2, <1>3, <1>5, <1>6, <1>7, <1>8 DEF Potential

\* A message comes into the queue from outside.
LEMMA PutMoves ==
  ASSUME TypeOK, Shape, Put, NEW m \in Messages
  PROVE  Potential(m)' + put[m] + repeats + rejoins
           <= Potential(m) + put'[m] + repeats' + rejoins'
<1>1. UNCHANGED <<topic, committed, position, msg, pc, publishes, queue, stored,
                  repeats, rejoins>>
  BY DEF Put, tool, consumer
<1>2. PICK x \in Messages :
        dlq' = Append(dlq, x) /\ put' = [put EXCEPT ![x] = @ + 1]
  BY DEF Put
<1>3. /\ InTopic(m) \in Nat /\ InQueue(m) \in Nat /\ stored[m] \in Nat
      /\ Waiting(m) \in Nat /\ Held(m) \in {0, 1} /\ Twice(m) \in {0, 1}
      /\ put[m] \in Nat /\ repeats \in Nat /\ rejoins \in Nat
  BY Places
<1> DEFINE n == Len(dlq) + 1
           one == One(x = m)
<1>4. /\ Len(dlq) \in Nat /\ n \in Nat /\ Len(dlq') = n /\ dlq'[n] = x
      /\ \A i \in 1..Len(dlq) : dlq'[i] = dlq[i]
  BY <1>2 DEF TypeOK
<1>5. InTopic(m)' = InTopic(m) /\ InQueue(m)' = InQueue(m)
  BY <1>1 DEF InTopic, InQueue
<1>6. Held(m)' = Held(m) /\ Twice(m)' = Twice(m)
  <2>1. pc \in {"fetched", "handle"} => dlq'[msg] = dlq[msg]
    BY <1>4 DEF Shape, None, TypeOK
  <2> QED
    BY <1>1, <2>1 DEF Held, InHand, Twice, Again
<1>7. put'[m] = put[m] + one
  BY <1>2 DEF One, TypeOK
<1>8. Waiting(m)' \in Nat /\ Waiting(m)' <= Waiting(m) + one
  <2>1. \A o : CanRead(o)' <=> CanRead(o)
    BY <1>1 DEF CanRead
  <2>2. /\ IsFiniteSet(Unread(m)) /\ IsFiniteSet(Unread(m)')
        /\ Cardinality(Unread(m)') \in Nat
    BY <1>4, UnreadFinite
  <2>3. CASE x = m
    <3>1. Unread(m)' \in SUBSET (Unread(m) \cup {n})
      BY <1>4, <2>1 DEF Unread
    <3>2. n \notin Unread(m)
      BY <1>4 DEF Unread
    <3>3. /\ IsFiniteSet(Unread(m) \cup {n})
          /\ Cardinality(Unread(m) \cup {n}) = Cardinality(Unread(m)) + 1
      BY <2>2, <3>2, FS_AddElement
    <3>4. Cardinality(Unread(m)') <= Cardinality(Unread(m) \cup {n})
      BY <3>1, <3>3, FS_Subset
    <3>5. one = 1
      BY <2>3 DEF One
    <3> QED
      BY <1>3, <2>2, <3>3, <3>4, <3>5 DEF Waiting
  <2>4. CASE x # m
    <3>1. Unread(m)' \in SUBSET Unread(m)
      BY <1>4, <2>1, <2>4 DEF Unread
    <3>2. Cardinality(Unread(m)') <= Cardinality(Unread(m))
      BY <2>2, <3>1, FS_Subset
    <3>3. one = 0
      BY <2>4 DEF One
    <3> QED
      BY <1>3, <2>2, <3>2, <3>3 DEF Waiting
  <2> QED
    BY <2>3, <2>4
<1>9. one \in {0, 1}
  BY DEF One
<1> HIDE DEF one
<1> QED
  BY <1>1, <1>3, <1>5, <1>6, <1>7, <1>8, <1>9 DEF Potential

LEMMA CopiesMove ==
  ASSUME TypeOK, Shape, [Next]_vars, NEW m \in Messages
  PROVE  Potential(m)' + put[m] + repeats + rejoins
           <= Potential(m) + put'[m] + repeats' + rejoins'
<1>1. CASE Fix \/ UNCHANGED vars
  <2>1. UNCHANGED <<dlq, committed, position, msg, pc, publishes>>
    BY <1>1 DEF Fix, vars, tool, dead
  <2>2. UNCHANGED <<topic, queue, stored, put, repeats, rejoins>>
    BY <1>1 DEF Fix, vars, dead, consumer
  <2>3. Potential(m)' = Potential(m)
    BY <2>1, <2>2, ToolIdle DEF Potential, InTopic, InQueue
  <2>4. /\ InTopic(m) \in Nat /\ InQueue(m) \in Nat /\ stored[m] \in Nat
        /\ Waiting(m) \in Nat /\ Held(m) \in {0, 1} /\ Twice(m) \in {0, 1}
        /\ put[m] \in Nat /\ repeats \in Nat /\ rejoins \in Nat
    BY Places
  <2>5. Potential(m) \in Nat
    BY <2>4 DEF Potential
  <2> QED
    BY <2>2, <2>3, <2>4, <2>5
<1>2. CASE ToolMoves
  BY <1>2, ReaderMoves, HandleMoves DEF ToolMoves
<1> QED
  BY <1>1, <1>2, WriterMoves, ConsumerMoves, PutMoves DEF Next, Tool, ToolMoves

\* NotMultiplied with the copy that is still to come.
Counted(m) == Potential(m) <= put[m] + repeats + rejoins

(***************************************************************************)
(* The tool does not multiply a message: there are as many copies of it as *)
(* were put into the queue, and one more per message that the writer sent  *)
(* again and per rebalance, over any restarts, crashes and failed commits. *)
(***************************************************************************)
THEOREM MessagesNotMultiplied == Spec => []NotMultiplied
<1> DEFINE AllCounted == \A m \in Messages : Counted(m)
<1>1. Init => AllCounted
  <2> SUFFICES ASSUME Init, NEW m \in Messages PROVE Counted(m)
      OBVIOUS
  <2>1. InTopic(m) = 0 /\ InQueue(m) = 0
    BY CountEmpty DEF Init, InTopic, InQueue
  <2>2. Unread(m) = {}
    BY DEF Init, Unread
  <2>3. Waiting(m) = 0
    BY <2>2, FS_EmptySet DEF Waiting
  <2>4. Held(m) = 0 /\ Twice(m) = 0
    BY DEF Init, Held, InHand, Twice, Again, One
  <2>5. stored[m] = 0 /\ put[m] = 0 /\ repeats = 0 /\ rejoins = 0
    BY DEF Init
  <2> QED
    BY <2>1, <2>3, <2>4, <2>5 DEF Counted, Potential
<1>2. TypeOK /\ Shape /\ AllCounted /\ [Next]_vars => AllCounted'
  <2> SUFFICES ASSUME TypeOK, Shape, AllCounted, [Next]_vars, NEW m \in Messages
               PROVE  Counted(m)'
      OBVIOUS
  <2>1. Potential(m)' + put[m] + repeats + rejoins
          <= Potential(m) + put'[m] + repeats' + rejoins'
    BY CopiesMove
  <2>2. /\ InTopic(m) \in Nat /\ InQueue(m) \in Nat /\ stored[m] \in Nat
        /\ Waiting(m) \in Nat /\ Held(m) \in {0, 1} /\ Twice(m) \in {0, 1}
        /\ put[m] \in Nat /\ repeats \in Nat /\ rejoins \in Nat
    BY Places
  <2>3. Potential(m) \in Nat /\ Potential(m) <= put[m] + repeats + rejoins
    BY <2>2 DEF Potential, Counted
  <2>4. TypeOK' /\ Shape'
    BY LogTypesStep, ReaderTypesStep DEF LogTypes, ReaderTypes, TypeOK, Entries
  <2>5. put'[m] \in Nat /\ repeats' \in Nat /\ rejoins' \in Nat
    BY <2>4 DEF TypeOK
  <2>6. Potential(m)' \in Nat
    <3>5. dlq' \in Seq(Messages)
      BY <2>4 DEF TypeOK
    <3>6. topic' \in Seq(Messages) /\ queue' \in Seq(Messages)
      BY <2>4 DEF TypeOK
    <3>7. stored'[m] \in Nat
      BY <2>4 DEF TypeOK
    <3>8. Len(dlq') \in Nat
      BY <3>5
    <3>1. /\ topic' \in Seq(Messages) /\ queue' \in Seq(Messages)
          /\ stored'[m] \in Nat /\ Len(dlq') \in Nat
      BY <3>6, <3>7, <3>8
    <3>2. InTopic(m)' \in Nat /\ InQueue(m)' \in Nat
      BY <3>1, CountFinite DEF InTopic, InQueue
    <3>3. Waiting(m)' \in Nat
      BY <3>1, UnreadFinite DEF Waiting
    <3>4. Held(m)' \in Nat /\ Twice(m)' \in Nat
      BY DEF Held, Twice, One
    <3> QED
      BY <3>1, <3>2, <3>3, <3>4 DEF Potential
  <2> QED
    BY <2>1, <2>2, <2>3, <2>5, <2>6 DEF Counted
<1>3. TypeOK /\ Shape /\ AllCounted => NotMultiplied
  <2> SUFFICES ASSUME TypeOK, Shape, AllCounted, NEW m \in Messages
               PROVE  LiveCopies(m) <= put[m] + repeats + rejoins
      BY DEF NotMultiplied
  <2>1. /\ InTopic(m) \in Nat /\ InQueue(m) \in Nat /\ stored[m] \in Nat
        /\ Waiting(m) \in Nat /\ Held(m) \in {0, 1} /\ Twice(m) \in {0, 1}
        /\ put[m] \in Nat /\ repeats \in Nat /\ rejoins \in Nat
    BY Places
  <2>2. LiveCopies(m) =
          InTopic(m) + Waiting(m) + InQueue(m) + Held(m) + stored[m]
    BY DEF LiveCopies, InTopic, Waiting, InQueue, Held, One
  <2>3. Potential(m) <= put[m] + repeats + rejoins
    BY DEF Counted
  <2> QED
    BY <2>1, <2>2, <2>3 DEF Potential
<1> QED
  BY <1>1, <1>2, <1>3, TypeCorrect, PTL DEF Spec
=============================================================================
