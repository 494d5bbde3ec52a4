----------------------------- MODULE Amplifier -----------------------------
(***************************************************************************)
(* services/amplifier: the load generator.  Each tick starts a goroutine   *)
(* that publishes one event through one of several producers; nobody waits *)
(* for these goroutines.  The loop ends on a signal or after -duration;    *)
(* then main reads the counts for its report, and only after that closes   *)
(* the producers.                                                          *)
(*                                                                         *)
(* An event is known by its number.  Encode cannot fail here (the schema   *)
(* is a constant of the program), so a goroutine begins with Publish.      *)
(* kafka-go is external: its Writer is closed for new callers first, then  *)
(* Close waits for the callers and messages it still has.                  *)
(***************************************************************************)
EXTENDS Integers, FiniteSets

CONSTANTS
  EventLimit,       \* bound of the model: events that are started
  Rates,            \* the values of -rate
  Concurrencies,    \* the values of -concurrency
  Second            \* time.Second, the unit of the ticker's interval

ASSUME AmplifierAssumption ==
  /\ EventLimit \in Nat
  /\ Rates \subseteq Int
  /\ Concurrencies \subseteq Int
  /\ Second \in Nat \ {0}

Events == 1..EventLimit

VARIABLES
  rate, concurrency,  \* the flags
  pc,               \* where main is
  cancelled,        \* the context is cancelled
  timeout,          \* the channel of time.After is ready
  tick,             \* the ticker's channel is ready
  open,             \* producers 0 .. open - 1 are open
  started,          \* events that have a goroutine, history once it is done
  gs,               \* the state of each goroutine
  pid,              \* ... and its producer
  held,             \* messages that the writers hold
  acked,            \* messages whose caller is told of success
  topic,            \* messages in the topic
  count, errCount   \* what main read for its report

flags == <<rate, concurrency>>
select == <<cancelled, timeout, tick>>
goroutines == <<started, gs, pid>>
writer == <<held, acked, topic>>
report == <<count, errCount>>
vars == <<flags, pc, select, open, goroutines, writer, report>>

None == -1

TypeOK ==
  /\ rate \in Rates
  /\ concurrency \in Concurrencies
  /\ pc \in {"register", "open", "ticker", "loop", "report", "errors",
             "close", "wait", "exited", "failed"}
  /\ cancelled \in BOOLEAN
  /\ timeout \in BOOLEAN
  /\ tick \in BOOLEAN
  /\ open \in Nat
  /\ started \in 0..EventLimit
  /\ gs \in [Events -> {"none", "publish", "wait", "add", "published", "failed"}]
  /\ pid \in [Events -> Int]
  /\ \A e \in Events : gs[e] # "none" <=> e <= started
  /\ \A e \in Events : gs[e] # "none" => pid[e] \in 0..(concurrency - 1)
  /\ held \subseteq 1..started
  /\ acked \subseteq 1..started
  /\ topic \subseteq 1..started
  /\ count \in Nat \cup {None}
  /\ errCount \in Nat \cup {None}

Init ==
  /\ rate \in Rates
  /\ concurrency \in Concurrencies
  /\ pc = "register"
  /\ cancelled = FALSE
  /\ timeout = FALSE
  /\ tick = FALSE
  /\ open = 0
  /\ started = 0
  /\ gs = [e \in Events |-> "none"]
  /\ pid = [e \in Events |-> 0]
  /\ held = {}
  /\ acked = {}
  /\ topic = {}
  /\ count = None
  /\ errCount = None

Alive == pc \notin {"exited", "failed"}

Goto(label) ==
  pc' = label /\ UNCHANGED <<flags, select, open, goroutines, writer, report>>

\* The atomic counters
Published == Cardinality({e \in Events : gs[e] = "published"})
Errors == Cardinality({e \in Events : gs[e] = "failed"})

-----------------------------------------------------------------------------
\* The schema is registered and the seed event is there, or log.Fatalf ends
\* main; so does a signal before signal.Notify.
Register == pc = "register" /\ (Goto("open") \/ Goto("failed"))

\* make([]*kafka.Producer, concurrency) panics on a negative length.
OpenProducers ==
  /\ pc = "open"
  /\ IF concurrency < 0
       THEN Goto("failed")
       ELSE /\ open' = concurrency
            /\ pc' = "ticker"
            /\ UNCHANGED <<flags, select, goroutines, writer, report>>

\* The division panics on a rate of zero, NewTicker on an interval that is
\* not positive: a negative rate, or one above the nanoseconds of a second.
HasTicker == rate # 0 /\ Second \div rate > 0

StartTicker == pc = "ticker" /\ Goto(IF HasTicker THEN "loop" ELSE "failed")

\* The ticker drops ticks that nobody takes.
Ticker ==
  /\ pc = "loop"
  /\ tick' = TRUE
  /\ UNCHANGED <<flags, pc, cancelled, timeout, open, goroutines, writer, report>>

Timeout ==
  /\ pc = "loop"
  /\ timeout' = TRUE
  /\ UNCHANGED <<flags, pc, cancelled, tick, open, goroutines, writer, report>>

\* The signal handler; nothing but the loop and Publish look at the context.
Signal ==
  /\ Alive
  /\ pc # "register"
  /\ cancelled' = TRUE
  /\ UNCHANGED <<flags, pc, timeout, tick, open, goroutines, writer, report>>

\* The definitions named ...Bug are not part of the specification: each is a
\* slip the next definition could contain.
PidBug == (Published % concurrency) + 1

\* The producer of the next event goes by the events that are published, not
\* started: as long as none is acknowledged all go to the same one.
Pid == Published % concurrency

\* case <-ticker.C: the remainder panics when there are no producers.
TakeTick ==
  /\ pc = "loop"
  /\ tick
  /\ IF concurrency = 0
       THEN Goto("failed")
       ELSE /\ tick' = FALSE
            /\ IF started < EventLimit
                 THEN /\ started' = started + 1
                      /\ gs' = [gs EXCEPT ![started'] = "publish"]
                      /\ pid' = [pid EXCEPT ![started'] = Pid]
                 ELSE UNCHANGED goroutines
            /\ UNCHANGED <<flags, pc, cancelled, timeout, open, writer, report>>

LeaveBug == cancelled

\* case <-ctx.Done(), case <-timeout
Leave == cancelled \/ timeout

Break == pc = "loop" /\ Leave /\ Goto("report")

-----------------------------------------------------------------------------
Step(e, state) == gs' = [gs EXCEPT ![e] = state]

\* WriteMessages returns an error before the writer has the message: it is
\* closed, the context is cancelled, or it does not know the partitions.
PublishRefused(e) ==
  /\ Alive
  /\ gs[e] = "publish"
  /\ Step(e, "failed")
  /\ UNCHANGED <<flags, pc, select, open, started, pid, writer, report>>

AfterHandOverBug == "add"

\* The writer is synchronous (Async: false): Publish waits.
AfterHandOver == "wait"

\* WriteMessages hands the message over, to a writer that is not closed.
HandOver(e) ==
  /\ Alive
  /\ gs[e] = "publish"
  /\ pid[e] < open
  /\ held' = held \cup {e}
  /\ Step(e, AfterHandOver)
  /\ UNCHANGED <<flags, pc, select, open, started, pid, acked, topic, report>>

\* The writer is done with a message: acknowledged, or given up, and then it
\* may be in the topic or not.
Settle(e) ==
  /\ Alive
  /\ e \in held
  /\ held' = held \ {e}
  /\ \/ topic' = topic \cup {e} /\ acked' = acked \cup {e}
     \/ topic' \in {topic, topic \cup {e}} /\ UNCHANGED acked
  /\ UNCHANGED <<flags, pc, select, open, goroutines, report>>

\* Publish returns what the writer says ...
PublishReturns(e) ==
  /\ Alive
  /\ gs[e] = "wait"
  /\ e \notin held
  /\ Step(e, IF e \in acked THEN "add" ELSE "failed")
  /\ UNCHANGED <<flags, pc, select, open, started, pid, writer, report>>

\* ... or that the context is cancelled, and the writer keeps the message.
PublishCancelled(e) ==
  /\ Alive
  /\ gs[e] = "wait"
  /\ cancelled
  /\ Step(e, "failed")
  /\ UNCHANGED <<flags, pc, select, open, started, pid, writer, report>>

\* published.Add
CountPublished(e) ==
  /\ Alive
  /\ gs[e] = "add"
  /\ Step(e, "published")
  /\ UNCHANGED <<flags, pc, select, open, started, pid, writer, report>>

Goroutine(e) ==
  \/ PublishRefused(e) \/ HandOver(e) \/ PublishReturns(e)
  \/ PublishCancelled(e) \/ CountPublished(e)

-----------------------------------------------------------------------------
\* The report is made of two reads, while goroutines go on.
ReadCount ==
  /\ pc = "report"
  /\ count' = Published
  /\ pc' = "errors"
  /\ UNCHANGED <<flags, select, open, goroutines, writer, errCount>>

ReadErrors ==
  /\ pc = "errors"
  /\ errCount' = Errors
  /\ pc' = "close"
  /\ UNCHANGED <<flags, select, open, goroutines, writer, count>>

\* The deferred closes run from the last producer to the first.
CloseProducer ==
  /\ pc = "close"
  /\ open > 0
  /\ open' = open - 1
  /\ pc' = "wait"
  /\ UNCHANGED <<flags, select, goroutines, writer, report>>

\* Writer.Close waits for its callers and its messages.
WriterIdle(p) ==
  \A e \in Events : pid[e] = p => gs[e] # "wait" /\ e \notin held

ProducerClosed == pc = "wait" /\ WriterIdle(open) /\ Goto("close")

\* The deferred cancel follows, and main returns.
Return ==
  /\ pc = "close"
  /\ open = 0
  /\ cancelled' = TRUE
  /\ pc' = "exited"
  /\ UNCHANGED <<flags, timeout, tick, open, goroutines, writer, report>>

Main ==
  \/ Register \/ OpenProducers \/ StartTicker \/ TakeTick \/ Break
  \/ ReadCount \/ ReadErrors \/ CloseProducer \/ ProducerClosed \/ Return

Next ==
  \/ Main \/ Ticker \/ Timeout \/ Signal
  \/ \E e \in Events : Goroutine(e) \/ Settle(e)

Spec == Init /\ [][Next]_vars

(***************************************************************************)
(* Fairness: main, the goroutines and the writers run, and -duration ends. *)
(* Ticks may be ready whenever main looks, so main leaves its loop only    *)
(* because select chooses among the ready cases at random: that is the     *)
(* strong fairness of Break.                                               *)
(***************************************************************************)
FairSpec ==
  /\ Spec
  /\ WF_vars(Main)
  /\ SF_vars(Break)
  /\ WF_vars(Ticker)
  /\ WF_vars(Timeout)
  /\ \A e \in Events : WF_vars(Goroutine(e)) /\ WF_vars(Settle(e))

-----------------------------------------------------------------------------
(***************************************************************************)
(* The report never claims too much, although it is made while goroutines  *)
(* run: every event it counts is in the topic, and no event is counted     *)
(* twice, as published and as an error.  What it leaves out is settled     *)
(* before the program ends: no writer holds a message then, not even one   *)
(* whose Publish was cancelled.                                            *)
(***************************************************************************)
ReportIsTrue ==
  /\ count <= Cardinality(topic)
  /\ count # None /\ errCount # None => count + errCount <= started
  /\ pc = "exited" => held = {}

(***************************************************************************)
(* The program ends and reports, also when ticks come faster than events   *)
(* are taken and when the broker answers nothing but errors, except with   *)
(* -concurrency 0: then the first tick may end it with a panic.            *)
(***************************************************************************)
AmplifierEnds ==
  pc = "loop" ~> \/ pc = "exited" /\ errCount # None
                 \/ pc = "failed" /\ concurrency = 0
=============================================================================
