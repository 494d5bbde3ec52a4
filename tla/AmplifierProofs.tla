-------------------------- MODULE AmplifierProofs --------------------------
(***************************************************************************)
(* What the amplifier's report says, for every number of events and of     *)
(* producers and every rate.                                               *)
(***************************************************************************)
EXTENDS Amplifier, FiniteSetTheorems, TLAPS

\* The states of main before its loop, and from the loop on
Before == {"register", "open", "ticker"}
Loop == {"loop", "report", "errors", "close", "wait", "exited"}

\* The events behind the two counters
PublishedEvents == {e \in Events : gs[e] = "published"}
FailedEvents == {e \in Events : gs[e] = "failed"}

(***************************************************************************)
(* A goroutine that is told of success, or has counted it, has its message *)
(* in the topic.                                                           *)
(***************************************************************************)
CountedIsAcked ==
  /\ acked \subseteq topic
  /\ \A e \in Events : gs[e] \in {"add", "published"} => e \in acked

\* Writer.Close of this producer has returned.
Closed(p) == IF pc = "wait" THEN p > open ELSE p >= open

(***************************************************************************)
(* No goroutine waits for a closed producer, and no closed writer holds a  *)
(* message.  Until the closes begin, every producer is open.               *)
(***************************************************************************)
ClosedIsIdle ==
  /\ pc \in Before => started = 0
  /\ pc \in {"ticker", "loop", "report", "errors"} => open = concurrency
  /\ pc \in Loop => open <= concurrency /\ concurrency >= 0
  /\ pc = "exited" => open = 0
  /\ pc \in Loop => \A e \in Events :
       gs[e] # "none" /\ Closed(pid[e]) => gs[e] # "wait" /\ e \notin held

\* The counters only go up once they are read.
ReadIsPast ==
  /\ count # None => count <= Published
  /\ errCount # None => errCount <= Errors

AmplifierInv == TypeOK /\ CountedIsAcked /\ ClosedIsIdle /\ ReadIsPast

USE DEF AfterHandOver, Pid, Leave

States == {"none", "publish", "wait", "add", "published", "failed"}

-----------------------------------------------------------------------------
LEMMA EventsFinite ==
  ASSUME NEW S \in SUBSET Events
  PROVE  IsFiniteSet(S) /\ Cardinality(S) \in Nat
<1>1. IsFiniteSet(Events)
  BY AmplifierAssumption, FS_Interval DEF Events
<1>2. QED
  BY <1>1, FS_Subset, FS_CardinalityType

(***************************************************************************)
(* What holds of the two counters in any state: together they count no     *)
(* event twice, and what is counted as published is in the topic.          *)
(***************************************************************************)
LEMMA Counters ==
  ASSUME TypeOK, CountedIsAcked
  PROVE  /\ Published \in Nat /\ Errors \in Nat
         /\ Published + Errors <= started
         /\ Published <= Cardinality(topic)
<1>1. PublishedEvents \in SUBSET Events /\ FailedEvents \in SUBSET Events
  BY DEF PublishedEvents, FailedEvents
<1>2. /\ IsFiniteSet(PublishedEvents) /\ Cardinality(PublishedEvents) \in Nat
      /\ IsFiniteSet(FailedEvents) /\ Cardinality(FailedEvents) \in Nat
  BY <1>1, EventsFinite
<1>3. started \in Nat /\ started <= EventLimit
  BY AmplifierAssumption DEF TypeOK
<1>4. IsFiniteSet(1..started) /\ Cardinality(1..started) = started
  BY <1>3, FS_Interval
<1>5. PublishedEvents \cup FailedEvents \in SUBSET (1..started)
  BY <1>3 DEF PublishedEvents, FailedEvents, Events, TypeOK
<1>6. PublishedEvents \cap FailedEvents = {}
  BY DEF PublishedEvents, FailedEvents
<1>7. Cardinality(PublishedEvents \cup FailedEvents)
        = Cardinality(PublishedEvents) + Cardinality(FailedEvents)
  BY <1>2, <1>6, FS_Union, FS_EmptySet
<1>8. Cardinality(PublishedEvents \cup FailedEvents) <= started
  BY <1>4, <1>5, FS_Subset
<1>9. PublishedEvents \in SUBSET topic
  BY DEF PublishedEvents, CountedIsAcked
<1>10. topic \in SUBSET (1..started)
  BY DEF TypeOK
<1>11. IsFiniteSet(topic)
  BY <1>4, <1>10, FS_Subset
<1>12. Cardinality(PublishedEvents) <= Cardinality(topic)
  BY <1>9, <1>11, FS_Subset
<1>13. Published = Cardinality(PublishedEvents)
       /\ Errors = Cardinality(FailedEvents)
  BY DEF Published, Errors, PublishedEvents, FailedEvents
<1>14. QED
  BY <1>2, <1>7, <1>8, <1>12, <1>13

\* An event that is counted stays counted.
Final(f) ==
  \A e \in Events : gs[e] \in {"published", "failed"} => f[e] = gs[e]

LEMMA CountersGrow ==
  ASSUME Final(gs')
  PROVE  /\ Published \in Nat /\ Published' \in Nat /\ Published <= Published'
         /\ Errors \in Nat /\ Errors' \in Nat /\ Errors <= Errors'
<1>1. /\ PublishedEvents \in SUBSET PublishedEvents'
      /\ FailedEvents \in SUBSET FailedEvents'
  BY DEF Final, PublishedEvents, FailedEvents
<1>2. PublishedEvents' \in SUBSET Events /\ FailedEvents' \in SUBSET Events
  BY DEF PublishedEvents, FailedEvents
<1>3. /\ IsFiniteSet(PublishedEvents') /\ Cardinality(PublishedEvents') \in Nat
      /\ IsFiniteSet(FailedEvents') /\ Cardinality(FailedEvents') \in Nat
  BY <1>2, EventsFinite
<1>4. /\ Cardinality(PublishedEvents) <= Cardinality(PublishedEvents')
      /\ Cardinality(FailedEvents) <= Cardinality(FailedEvents')
  BY <1>1, <1>3, FS_Subset
<1>5. Cardinality(PublishedEvents) \in Nat /\ Cardinality(FailedEvents) \in Nat
  BY <1>1, <1>3, FS_Subset, FS_CardinalityType
<1>6. /\ Published = Cardinality(PublishedEvents)
      /\ Errors = Cardinality(FailedEvents)
      /\ Published' = Cardinality(PublishedEvents')
      /\ Errors' = Cardinality(FailedEvents')
  BY DEF Published, Errors, PublishedEvents, FailedEvents
<1>7. QED
  BY <1>3, <1>4, <1>5, <1>6

LEMMA GsTypes == TypeOK => gs \in [Events -> States] /\ pid \in [Events -> Int]
  BY DEF TypeOK, States

LEMMA FinalStep == TypeOK /\ [Next]_vars => Final(gs')
<1> SUFFICES ASSUME TypeOK, [Next]_vars PROVE Final(gs')
  OBVIOUS
<1>1. gs \in [Events -> States]
  BY GsTypes
<1>2. ASSUME gs' = gs PROVE Final(gs')
  BY <1>2 DEF Final
<1>3. ASSUME NEW e \in Events, Goroutine(e) PROVE Final(gs')
  BY <1>1, <1>3 DEF Goroutine, PublishRefused, HandOver, PublishReturns,
     PublishCancelled, CountPublished, Step, Final
<1>4. CASE TakeTick
  <2>1. CASE gs' = gs
    BY <1>2, <2>1
  <2>2. CASE gs' # gs
    <3>1. /\ started < EventLimit /\ started' = started + 1
          /\ gs' = [gs EXCEPT ![started + 1] = "publish"]
      BY <1>4, <2>2 DEF TakeTick, Goto, goroutines
    <3>2. started \in Nat
      BY AmplifierAssumption DEF TypeOK
    <3>3. started + 1 \in Events => gs[started + 1] = "none"
      BY <3>2 DEF TypeOK
    <3>4. QED
      BY <1>1, <3>1, <3>3 DEF Final
  <2>3. QED
    BY <2>1, <2>2
<1>5. CASE Main /\ ~TakeTick
  BY <1>2, <1>5
  DEF Main, Register, OpenProducers, StartTicker, Break, ReadCount,
      ReadErrors, CloseProducer, ProducerClosed, Return, Goto, goroutines
<1>6. CASE Ticker \/ Timeout \/ Signal \/ UNCHANGED vars
  BY <1>2, <1>6 DEF Ticker, Timeout, Signal, vars, goroutines
<1>7. ASSUME NEW e \in Events, Settle(e) PROVE Final(gs')
  BY <1>2, <1>7 DEF Settle, goroutines
<1>8. QED
  BY <1>3, <1>4, <1>5, <1>6, <1>7 DEF Next

LEMMA ReadStep ==
  TypeOK /\ ReadIsPast /\ [Next]_vars
    => ReadIsPast' /\ count' \in Nat \cup {None}
                   /\ errCount' \in Nat \cup {None}
<1> SUFFICES ASSUME TypeOK, ReadIsPast, [Next]_vars
             PROVE  ReadIsPast' /\ count' \in Nat \cup {None}
                    /\ errCount' \in Nat \cup {None}
  OBVIOUS
<1>1. /\ Published \in Nat /\ Published' \in Nat /\ Published <= Published'
      /\ Errors \in Nat /\ Errors' \in Nat /\ Errors <= Errors'
  BY FinalStep, CountersGrow
<1>2. count \in Nat \cup {None} /\ errCount \in Nat \cup {None}
  BY DEF TypeOK
<1>3. count' = count \/ count' = Published
  BY DEF Next, Main, Register, OpenProducers, StartTicker, Ticker, Timeout,
     Signal, TakeTick, Break, Goroutine, PublishRefused, HandOver, Settle,
     PublishReturns, PublishCancelled, CountPublished, ReadCount, ReadErrors,
     CloseProducer, ProducerClosed, Return, Goto, vars, report
<1>4. errCount' = errCount \/ errCount' = Errors
  BY DEF Next, Main, Register, OpenProducers, StartTicker, Ticker, Timeout,
     Signal, TakeTick, Break, Goroutine, PublishRefused, HandOver, Settle,
     PublishReturns, PublishCancelled, CountPublished, ReadCount, ReadErrors,
     CloseProducer, ProducerClosed, Return, Goto, vars, report
<1>5. QED
  BY <1>1, <1>2, <1>3, <1>4 DEF ReadIsPast

-----------------------------------------------------------------------------
\* The channels of the select
LEMMA SelectStep ==
  cancelled \in BOOLEAN /\ timeout \in BOOLEAN /\ tick \in BOOLEAN
  /\ [Next]_vars
    => cancelled' \in BOOLEAN /\ timeout' \in BOOLEAN /\ tick' \in BOOLEAN
<1> SUFFICES ASSUME cancelled \in BOOLEAN, timeout \in BOOLEAN,
                    tick \in BOOLEAN, [Next]_vars
             PROVE  cancelled' \in BOOLEAN /\ timeout' \in BOOLEAN
                    /\ tick' \in BOOLEAN
  OBVIOUS
<1>1. cancelled' = cancelled \/ cancelled' = TRUE
  BY Zenon DEF Next, Main, Register, OpenProducers, StartTicker, Ticker,
     Timeout, Signal, TakeTick, Break, Goroutine, PublishRefused, HandOver,
     Settle, PublishReturns, PublishCancelled, CountPublished, ReadCount,
     ReadErrors, CloseProducer, ProducerClosed, Return, Goto, vars, select
<1>2. timeout' = timeout \/ timeout' = TRUE
  BY Zenon DEF Next, Main, Register, OpenProducers, StartTicker, Ticker,
     Timeout, Signal, TakeTick, Break, Goroutine, PublishRefused, HandOver,
     Settle, PublishReturns, PublishCancelled, CountPublished, ReadCount,
     ReadErrors, CloseProducer, ProducerClosed, Return, Goto, vars, select
<1>3. tick' = tick \/ tick' = TRUE \/ tick' = FALSE
  BY Zenon DEF Next, Main, Register, OpenProducers, StartTicker, Ticker,
     Timeout, Signal, TakeTick, Break, Goroutine, PublishRefused, HandOver,
     Settle, PublishReturns, PublishCancelled, CountPublished, ReadCount,
     ReadErrors, CloseProducer, ProducerClosed, Return, Goto, vars, select
<1>4. cancelled' \in BOOLEAN
  BY <1>1, Zenon
<1>5. timeout' \in BOOLEAN
  BY <1>2, Zenon
<1>6. tick' \in BOOLEAN
  BY <1>3, Zenon
<1>7. QED
  BY <1>4, <1>5, <1>6

\* The part of the state in which the events are.
EventsType ==
  /\ started \in 0..EventLimit
  /\ gs \in [Events -> States]
  /\ pid \in [Events -> Int]
  /\ \A e \in Events : gs[e] # "none" <=> e <= started
  /\ \A e \in Events : gs[e] # "none" => pid[e] \in 0..(concurrency - 1)
  /\ held \subseteq 1..started
  /\ acked \subseteq 1..started
  /\ topic \subseteq 1..started

\* The part of the state that main alone changes.
MainType ==
  /\ rate \in Rates
  /\ concurrency \in Concurrencies
  /\ pc \in Before \cup Loop \cup {"failed"}
  /\ open \in Nat

LEMMA TypeParts ==
  TypeOK <=> /\ MainType /\ EventsType
             /\ cancelled \in BOOLEAN /\ timeout \in BOOLEAN /\ tick \in BOOLEAN
             /\ count \in Nat \cup {None} /\ errCount \in Nat \cup {None}
  BY DEF TypeOK, MainType, EventsType, States, Before, Loop

AmplifierCore == MainType /\ EventsType /\ CountedIsAcked /\ ClosedIsIdle

\* A step of main other than the tick moves no event.
LEMMA MainStep ==
  ASSUME AmplifierCore, Main, ~TakeTick
  PROVE  AmplifierCore'
<1>1. UNCHANGED <<rate, concurrency, started, gs, pid, held, acked, topic>>
  BY DEF Main, Register, OpenProducers, StartTicker, Break, ReadCount,
     ReadErrors, CloseProducer, ProducerClosed, Return, Goto, flags,
     goroutines, writer
<1>2. EventsType' /\ CountedIsAcked'
  BY <1>1 DEF AmplifierCore, EventsType, CountedIsAcked
<1>3. open \in Nat /\ concurrency \in Int
  BY AmplifierAssumption DEF AmplifierCore, MainType
<1>4. MainType' /\ ClosedIsIdle'
  <2> USE <1>1, <1>3
      DEF AmplifierCore, MainType, EventsType, ClosedIsIdle, Closed, Before,
          Loop
  <2>1. CASE Register \/ StartTicker
    BY <2>1 DEF Register, StartTicker, Goto
  <2>2. CASE OpenProducers
    BY <2>2 DEF OpenProducers, Goto
  <2>3. CASE Break \/ ReadCount \/ ReadErrors
    BY <2>3 DEF Break, ReadCount, ReadErrors, Goto
  <2>4. CASE CloseProducer
    BY <2>4 DEF CloseProducer
  <2>5. CASE ProducerClosed
    BY <2>5 DEF ProducerClosed, WriterIdle, Goto
  <2>6. CASE Return
    BY <2>6 DEF Return
  <2>7. QED
    BY <2>1, <2>2, <2>3, <2>4, <2>5, <2>6 DEF Main
<1>5. QED
  BY <1>2, <1>4 DEF AmplifierCore

LEMMA TickStep ==
  ASSUME AmplifierCore, TakeTick, Published \in Nat
  PROVE  AmplifierCore'
<1>1. /\ pc = "loop" /\ open = concurrency /\ concurrency \in Nat
      /\ started \in 0..EventLimit /\ EventLimit \in Nat
      /\ UNCHANGED <<rate, concurrency, open, held, acked, topic>>
  BY AmplifierAssumption
  DEF AmplifierCore, MainType, EventsType, ClosedIsIdle, Loop, TakeTick, Goto,
      flags, writer
<1>2. CASE UNCHANGED <<started, gs, pid>>
  <2>1. pc' \in {"loop", "failed"}
    BY <1>1 DEF TakeTick, Goto
  <2>2. QED
    BY <1>1, <1>2, <2>1
    DEF AmplifierCore, MainType, EventsType, CountedIsAcked, ClosedIsIdle,
        Closed, Before, Loop
<1>3. CASE ~UNCHANGED <<started, gs, pid>>
  <2> DEFINE n == started + 1
             p == Published % concurrency
  <2>1. /\ concurrency # 0 /\ pc' = pc /\ started < EventLimit /\ started' = n
        /\ gs' = [gs EXCEPT ![n] = "publish"]
        /\ pid' = [pid EXCEPT ![n] = p]
    BY <1>3 DEF TakeTick, Goto, goroutines
  <2>2. p \in 0..(concurrency - 1)
    BY <1>1, <2>1
  <2> HIDE DEF p
  <2>3. n \in Events /\ n \in Nat
    BY <1>1, <2>1 DEF Events
  <2>4. /\ gs'[n] = "publish" /\ pid'[n] = p
        /\ \A e \in Events : e # n => gs'[e] = gs[e] /\ pid'[e] = pid[e]
    BY <2>1, <2>3 DEF AmplifierCore, EventsType
  <2>5. gs' \in [Events -> States] /\ pid' \in [Events -> Int]
    <3>1. gs \in [Events -> States] /\ pid \in [Events -> Int]
      BY DEF AmplifierCore, EventsType
    <3>2. p \in Int /\ "publish" \in States
      BY <1>1, <2>2 DEF States
    <3> HIDE DEF n
    <3>3. QED
      BY <2>1, <3>1, <3>2
  <2>6. \A e \in Events : e \in Nat /\ (gs'[e] # "none" <=> e <= n)
    BY <1>1, <2>3, <2>4 DEF AmplifierCore, EventsType, Events
  <2>7. 1..started \subseteq 1..n
    BY <1>1
  <2>8. EventsType'
    BY <1>1, <2>1, <2>2, <2>3, <2>4, <2>5, <2>6, <2>7
    DEF AmplifierCore, EventsType
  <2>9. CountedIsAcked'
    BY <1>1, <2>4 DEF AmplifierCore, CountedIsAcked
  <2>10. ClosedIsIdle' /\ MainType'
    BY <1>1, <2>1, <2>4, <2>8
    DEF AmplifierCore, ClosedIsIdle, MainType, EventsType, Closed, Before, Loop
  <2>11. QED
    BY <2>8, <2>9, <2>10 DEF AmplifierCore
<1>4. QED
  BY <1>2, <1>3

\* A goroutine begins to wait only for a producer that is open, and is told
\* of success only for what is acknowledged.
LEMMA GoroutineStep ==
  ASSUME AmplifierCore, NEW e \in Events, Goroutine(e)
  PROVE  AmplifierCore'
<1>1. /\ gs[e] \in {"publish", "wait", "add"}
      /\ gs \in [Events -> States] /\ e <= started /\ e \in 1..started
  BY DEF AmplifierCore, EventsType, Goroutine, PublishRefused, HandOver,
     PublishReturns, PublishCancelled, CountPublished, Events
<1>2. UNCHANGED <<rate, concurrency, pc, open, started, pid, acked, topic>>
  BY DEF Goroutine, PublishRefused, HandOver, PublishReturns,
     PublishCancelled, CountPublished, flags, writer
<1>3. PICK new \in {"wait", "add", "published", "failed"} :
        /\ gs' = [gs EXCEPT ![e] = new]
        /\ new \in {"add", "published"} => e \in acked
        /\ held' = held \/ (held' = held \cup {e} /\ pid[e] < open)
        /\ new = "wait" => pid[e] < open
  BY DEF AmplifierCore, CountedIsAcked, Goroutine, PublishRefused, HandOver,
     PublishReturns, PublishCancelled, CountPublished, Step, writer
<1>4. gs'[e] = new /\ \A d \in Events : d # e => gs'[d] = gs[d]
  BY <1>1, <1>3
<1>5. EventsType'
  BY <1>1, <1>2, <1>3, <1>4 DEF AmplifierCore, EventsType, States
<1>6. CountedIsAcked'
  BY <1>2, <1>3, <1>4 DEF AmplifierCore, CountedIsAcked
<1>7. pid[e] \in Int /\ open \in Nat
  BY DEF AmplifierCore, EventsType, MainType
<1>8. pid[e] < open => ~Closed(pid[e])
  BY <1>7 DEF Closed
<1>9. ClosedIsIdle' /\ MainType'
  BY <1>1, <1>2, <1>3, <1>4, <1>8
  DEF AmplifierCore, ClosedIsIdle, MainType, Closed
<1>10. QED
  BY <1>5, <1>6, <1>9 DEF AmplifierCore

LEMMA SettleStep ==
  ASSUME AmplifierCore, NEW e \in Events, Settle(e)
  PROVE  AmplifierCore'
<1>1. /\ UNCHANGED <<rate, concurrency, pc, open, started, gs, pid>>
      /\ e \in held /\ held' = held \ {e}
      /\ acked' \in {acked, acked \cup {e}}
      /\ topic' \in {topic, topic \cup {e}}
      /\ e \in acked' => e \in topic' \/ acked' = acked
  BY DEF Settle, flags, goroutines
<1>2. EventsType'
  BY <1>1 DEF AmplifierCore, EventsType
<1>3. CountedIsAcked' /\ ClosedIsIdle' /\ MainType'
  BY <1>1
  DEF AmplifierCore, CountedIsAcked, ClosedIsIdle, MainType, Closed
<1>4. QED
  BY <1>2, <1>3 DEF AmplifierCore

LEMMA CoreStep ==
  ASSUME AmplifierCore, Published \in Nat, [Next]_vars
  PROVE  AmplifierCore'
<1>1. CASE Ticker \/ Timeout \/ Signal \/ UNCHANGED vars
  <2>1. UNCHANGED <<rate, concurrency, pc, open, started, gs, pid, held,
                    acked, topic>>
    BY <1>1 DEF Ticker, Timeout, Signal, vars, flags, goroutines, writer
  <2>2. QED
    BY <2>1 DEF AmplifierCore, MainType, EventsType, CountedIsAcked,
                ClosedIsIdle, Closed
<1>2. QED
  BY <1>1, MainStep, TickStep, GoroutineStep, SettleStep DEF Next

LEMMA AmplifierInit == Init => AmplifierInv
<1> SUFFICES ASSUME Init PROVE AmplifierInv
  OBVIOUS
<1> USE DEF Init
<1>1. /\ MainType /\ CountedIsAcked /\ ClosedIsIdle /\ ReadIsPast
      /\ count \in Nat \cup {None} /\ errCount \in Nat \cup {None}
  BY DEF MainType, CountedIsAcked, ClosedIsIdle, ReadIsPast, Before, Loop
<1>2. EventsType
  BY AmplifierAssumption DEF EventsType, States, Events
<1>3. cancelled \in BOOLEAN /\ timeout \in BOOLEAN /\ tick \in BOOLEAN
  BY Zenon
<1>4. QED
  BY <1>1, <1>2, <1>3, TypeParts DEF AmplifierInv

LEMMA AmplifierInvHolds == Spec => []AmplifierInv
<1>1. AmplifierInv /\ [Next]_vars => AmplifierInv'
  <2> SUFFICES ASSUME AmplifierInv, [Next]_vars PROVE AmplifierInv'
    OBVIOUS
  <2>1. AmplifierCore /\ Published \in Nat
    BY Counters, TypeParts DEF AmplifierInv, AmplifierCore
  <2>2. AmplifierCore'
    BY <2>1, CoreStep
  <2>3. ReadIsPast' /\ count' \in Nat \cup {None} /\ errCount' \in Nat \cup {None}
    BY ReadStep DEF AmplifierInv
  <2>4. cancelled' \in BOOLEAN /\ timeout' \in BOOLEAN /\ tick' \in BOOLEAN
    BY SelectStep, TypeParts DEF AmplifierInv
  <2>5. TypeOK'
    BY <2>2, <2>3, <2>4
    DEF AmplifierCore, TypeOK, MainType, EventsType, States, Before, Loop
  <2>6. QED
    BY <2>2, <2>3, <2>5 DEF AmplifierInv, AmplifierCore
<1>2. QED
  BY <1>1, AmplifierInit, PTL DEF Spec

(***************************************************************************)
(* Type correctness: among others, every event goes to one of the          *)
(* producers there are.                                                    *)
(***************************************************************************)
THEOREM AmplifierTypes == Spec => []TypeOK
  BY AmplifierInvHolds, PTL DEF AmplifierInv

(***************************************************************************)
(* The report counts only what is in the topic and nothing twice, although *)
(* its two numbers are read while goroutines run; and at the end no writer *)
(* holds a message: for every number of events and producers.              *)
(***************************************************************************)
THEOREM ReportStaysTrue == Spec => []ReportIsTrue
<1>1. AmplifierInv => ReportIsTrue
  <2> SUFFICES ASSUME AmplifierInv PROVE ReportIsTrue
    OBVIOUS
  <2>1. /\ Published \in Nat /\ Errors \in Nat
        /\ Published + Errors <= started
        /\ Published <= Cardinality(topic)
    BY Counters DEF AmplifierInv
  <2>2. /\ topic \in SUBSET Events /\ started \in Nat
        /\ 1..started \subseteq Events
    BY AmplifierAssumption DEF AmplifierInv, TypeOK, Events
  <2>3. Cardinality(topic) \in Nat
    BY <2>2, EventsFinite
  <2>4. count <= Cardinality(topic)
    BY <2>1, <2>3 DEF AmplifierInv, TypeOK, ReadIsPast, None
  <2>5. count # None /\ errCount # None => count + errCount <= started
    BY <2>1, <2>2 DEF AmplifierInv, TypeOK, ReadIsPast
  <2>6. ASSUME pc = "exited", NEW e \in held PROVE FALSE
    <3>1. e \in Events /\ gs[e] # "none"
      BY <2>2, <2>6 DEF AmplifierInv, TypeOK, Events
    <3>2. pid[e] \in 0..(concurrency - 1)
      BY <3>1 DEF AmplifierInv, TypeOK
    <3>3. Closed(pid[e])
      BY <2>6, <3>2 DEF AmplifierInv, ClosedIsIdle, Closed
    <3>4. QED
      BY <2>6, <3>1, <3>3 DEF AmplifierInv, ClosedIsIdle, Loop
  <2>7. QED
    BY <2>4, <2>5, <2>6 DEF ReportIsTrue
<1>2. QED
  BY <1>1, AmplifierInvHolds, PTL
=============================================================================
