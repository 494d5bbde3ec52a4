# TLA+ models of Project Meridian

Meridian reads a live stream of wiki edits over SSE, publishes each edit as an
Avro message to a Redpanda (Kafka) topic, and stores the topic's messages as
Parquet objects in MinIO. Around this pipeline stand a dead-letter queue, a tool
that replays it, a tool that replays stored objects, a load amplifier and a
Flink job. This directory holds models of the Go code, the configurations that
check them with TLC, and proofs that TLAPS checks.

## 1. Inventory

| Component | Source | State it keeps | Operations | Talks to |
|---|---|---|---|---|
| Batcher | `internal/almanac/sink/batch.go` | row buffer, byte count, time of last flush, three channels (`flushCh`, `pendingCh`, `done`) | `Write`, `Flush`, `flushLoop`, `Close` | called by the consumer, calls `WriteFile` |
| Parquet sink | `sink/parquet.go` | a local directory | `WriteFile`, `Close` | uploads to MinIO |
| Consumer service | `services/consumer/main.go` | the loop's message, counters, context | loop, signal handler, deferred shutdown, lag poller | all of the parts below, the sink |
| Kafka consumer wrapper | `kafka/consumer.go` | a kafka-go `Reader` | `Read`, `Commit`, `Lag` | broker |
| DLQ and retries | `kafka/dlq.go`, `kafka/retry.go` | a kafka-go `Writer`; map message -> count | `WriteFailed`, `Next`, `Reset`, `ShouldDLQ` | broker |
| Avro codec | `codec/avro.go`, `models.go` | schema id and cache | `Register`, `Encode`, `Decode` | registry client |
| Schema registry client | `schema/client.go` | cache id -> schema | `Register`, `GetSchemaByID`, `SetCompatibility` | registry (HTTP) |
| Health checker | `kafka/recovery.go` | none | `CheckAll`, `WaitForReady` | broker, registry, MinIO |
| SSE reader | `sse/reader.go` | data lines so far, `closeCh` | `Start`, `Stop`, `loop`, `connect`, `dispatch` | calls the producer's callbacks |
| Producer service | `services/producer/main.go`, `kafka/producer.go` | counters, a kafka-go `Writer` | `onEvent`, `onError`, shutdown | broker |
| DLQ replay tool | `services/dlq-replay/main.go` | two counters | loop with modes | reads the DLQ, writes the original topic |
| Replay tool | `services/replay/main.go`, `parquet/reader.go` | two counters | `buildPrefixes`, listing, `replayFile` | reads MinIO, writes the topic |
| Amplifier | `services/amplifier/main.go` | counters, a semaphore, a ticker | loop, one goroutine per event | reads a topic, writes others |
| Flink job | `services/transformer/...` | windows | map, filter, window, aggregate | reads and writes topics |
| Metrics | `metrics/*.go` | counters | HTTP endpoint | nothing reads it back |
| Feature store | `feature-store/` | none (declarations) | - | external service |

What is hard in this code, and what makes each part correct:

* **Batcher.** Writers, the flush loop and `Close` share a buffer under a lock and
  three channels outside it. Each row's token is sent after the row is appended
  and received by whoever flushes; a signal is dropped when one is in flight;
  `Close` does not wait for the loop. Right means: tokens and rows match, no
  buffer over its threshold is forgotten, memory is bounded, rows keep their order
  and end in exactly one place, nobody blocks for ever.
* **Consumer.** A crash, a signal, a rebalance or a failing service at any point of
  the loop. Right means: how often a message may reach the sink, what becomes of a
  message that does not, where bad messages go, that a signal ends the process.
* **SSE reader and producer.** Connections break inside an event; a publish gives up
  while the writer still holds its message; `Stop` and `Close` race with the
  reader. Right means: only whole events are published, in order, the counts tell
  the truth, the reader comes back and the process ends.
* **Tools.** The replay tools read what the pipeline writes while it writes: what is
  republished, how often, and what a second run or a dry run changes.
* **Startup.** Attempts, sleeps and a deadline that are all derived from the same two
  numbers, while dependencies come and go, and a last look at the bucket that nothing limits.
  Right means: a service that starts was checked, a wait does not give up early and does not
  go on for ever, and restarts succeed in the end.
* **Codec and schema client.** Services of two schema versions share a topic, a registry and
  ids; lookups overlap and fail; an event is encoded, stored and encoded again. Right means:
  everybody agrees on what an id means, and an event changes at its first encoding only.
* **Amplifier.** One goroutine per tick, none waited for, and a report made while they run.
  Right means: the report does not claim too much, the program ends, nothing is left behind.

`PROJECT.json` lists the hazards with their lines.

## 2. Modules

| Module | Models | Composes |
|---|---|---|
| `BatchSink` | what a sink promises: a row is buffered, in a batch, stored or lost | - |
| `Batcher` | `batch.go`, every goroutine and channel | implements `BatchSink` |
| `Consumer` | the consumer's loop with reader, retry map, DLQ, codec and shutdown | uses `BatchSink` as its sink |
| `Producer` | SSE reader, producer callbacks, writer, shutdown | - |
| `Replay` | the replay tool with the pipeline that runs meanwhile | the consumer reduced to what the objects come from |
| `DLQReplay` | the DLQ replay tool between the queue and the consumer | the consumer reduced to storing or dropping what it reads |
| `Startup`, `StartupConstants` | `CheckAll`, `WaitForReady`, `NewParquetSink`'s look at the bucket, with time | - |
| `Service` | the consumer service from its first line, over restarts | `Startup` and `Consumer` |
| `Codec` | `Encode`, `Decode`, the schema client's cache, the row conversions, the registry | several publishers, two callers, the replay loop |
| `Amplifier` | the load generator: loop, goroutines, writers, report | - |
| `BatcherProofs`, `ConsumerProofs`, `ServiceProofs`, `ProducerProofs`, `ReplayProofs`, `DLQReplayProofs`, `CodecProofs`, `AmplifierProofs` | theorems | extend the above |
| `MCBatcher`, `MCConsumer`, `MCService`, `MCProducer`, `MCReplay`, `MCDLQReplay`, `MCCodec`, `MCAmplifier` | constants for TLC | extend the above |

The consumer is checked against `BatchSink` and not against `Batcher`, which keeps
its state space small. Two theorems allow it: the Batcher implements that sink
(`BatcherProofs!ImplementsSink`), and the consumer asks nothing else of it
(`ConsumerProofs!UsesSink`).

### Batcher

A critical section under `b.mu` cannot block, so it is one step; each channel
operation and the upload are steps of their own.

| Code | Model |
|---|---|
| `Write`: append, count, compare under the lock | `WriteAppend` (decides `shouldFlush` with `ThresholdReached`) |
| `Write`: `b.pendingCh <- struct{}{}` | `WritePush`, blocked while `pending = MaxPending` |
| `Write`: `select` with `default` on `flushCh` | `WriteSignal` |
| `Flush`: lock, empty buffer, return | `FlushEmpty` |
| `Flush`: lock, take the buffer, reset | `FlushTake` |
| `Flush`: one `<-b.pendingCh` | `FlushDrain` |
| `Flush`: `WriteFile` and its error | `FlushWriteFile` |
| `flushLoop` select | `LoopWake`, `LoopTick`, `LoopStop` |
| `Close` | `Close`, then `Flush("close")` |
| the ticker and `lastFlush` | `due`, set by `Elapse`, cleared by a flush |

Rows are numbered in the order of their appends; of a row only the size matters.

### Consumer

`pc` is where `main` is. One partition and one member of the group are modelled.

| Code | Model |
|---|---|
| the objects made before the loop | `Start` (what precedes it: `Startup`, `Service`) |
| `select` on `ctx.Done` | `CheckContext` |
| `consumer.Read` = kafka-go `ReadMessage` | `ReadFetch`, then `ReadReturns` or `ReadError`; `ReadCancelled` |
| `cc.Decode` | `DecodeOK`, `DecodeError` (bad message, or registry lookup failed and the schema is not cached) |
| `retryState.Next`, `ShouldDLQ` | `NextRetry` |
| `dlq.WriteFailed` | `WriteFailedPanics`, or `WriteFailedRefuses` for a message in `Large` |
| `batcher.Write` | `WriteRow` |
| `consumer.Commit` and `retryState.Reset` | `Commit` (both places) |
| `flushLoop`, an upload | `LoopFlush`, `UploadOK`, `UploadFails` |
| the deferred `batcher.Close`, `ps.Close`, end of `main` or of the panic | `CloseBatcher`, `CloseReturns`, `Exit` |
| signal handler | `Signal` |
| a kill | `Crash` |
| `MAX_RETRIES` | `maxRetries`, chosen from `RetryLimits` and never changed |

`batcher.Write` always returns nil, so the branch at `main.go` lines 168-176 cannot
be taken and has no action. kafka-go is external, and modelled from how this code
uses it: in a consumer group `ReadMessage` is a fetch followed by a synchronous
commit; if that commit fails the message is not returned although the reader has
moved on; a failed commit may have been applied; `StartOffset: LastOffset` applies to
a group without a committed offset; a rebalance moves the reader to the committed
offset. `WriteFailed` hands it a nil context. The version that `go.mod` pins (v0.4.51) refuses a
message that is too large first, and for every other one derives a context from the nil one and
waits on it, which panics. So no DLQ write ever succeeds, and the model has no DLQ topic. A panic
runs `main`'s deferred calls like a return does (`cancelled` becomes true, then `CloseBatcher`,
`CloseReturns`, `Exit`), while a kill does not.

### Producer

`rpc` is where the reader's goroutine is, `mpc` where `main` is. An event is one line
the reader skips, `Parts` data lines and an empty line.

| Code | Model |
|---|---|
| `loop`: first select, second select | `Top`, `Backoff` |
| `connect`: request and status | `ConnectOK`, `ConnectFails` |
| `scanner.Scan` true, false | `Scan`, `StreamEnds` (cleanly or with an error) |
| select after each line | `CheckLine` |
| the `switch` | `OtherLine`, `DataLine`, `EmptyLine` |
| `dispatch`, `onEvent`: parse, encode, publish at once refused | `DispatchFails` |
| `prod.Publish` | `Publish`, then `Acked`, `NotAcked` or `PublishTimeout` |
| `main` after the signal | `Signal`, `Stop`, `Close`, `Exit` |

The writer is kafka-go's and external: it holds what it was given, sends one message
at a time, tries `MaxAttempts` times, and the answer to a request that was served
may be lost, and then the message is in the topic twice; its `Close` waits for its callers and its messages. The stream is live: what is
emitted while no connection is open is missed, by design of the service.

### Replay

A message is known by its offset, an object by its day and the offsets of its rows. A
prefix is the set of days whose keys it matches: the keys begin with `dt=<day>/hour=`,
`buildPrefixes` puts `dt=<day>/` behind the base prefix when there are dates, and `main`
puts `/` behind it when there are none.

| Code | Model |
|---|---|
| the topic, the consumer's buffer, its uploads, the bucket | `topic`, `buffered`, `uploading`, `objects`; `Produce`, `Consume`, `TakeBatch`, `Upload` |
| the date in an object's key: the day on which its batch was taken | `today`, `Midnight` |
| `main` up to its loop, `buildPrefixes` | `Start`, `Prefixes` |
| the loop over prefixes with `ListObjects` | `List`, `ListFails`, `Finish` |
| the loop over keys, `replayFile` up to its loop | `Download`, `DownloadFails`, `KeysDone` |
| `ReadFile`, which takes some of the rows for all of them when the read ends with `io.EOF` | `ReadFile`, fault `"eof"` |
| the loop over events, its look at the context | `NextRow`, `FileDone` |
| encode, `Publish`, their errors | `Publish`, `EncodeFails`, `PublishFails` |
| signal handler | `Signal` |

`due`, `failed`, `skipped` and `start` only remember what a run met, for the properties.

### DLQReplay

| Code | Model |
|---|---|
| whatever fills the DLQ topic (external) | `Put` |
| consumer service: a replayed message that decodes, or does not | `ConsumerStores`, `ConsumerDrops` |
| `main` up to its loop, the three modes | `Start` (`publishes`) |
| `ReadMessage` in a group with `StartOffset: LastOffset` | `Resume`, `Fetch`, then `ReadReturns` or `ReadError`; `ReadCancelled` |
| the loop's body | `Handle` |
| the writer: asynchronous, `RequireNone` | `Send`, `SendVanishes`, `SendRepeats` |
| the deferred `Close`, signal, kill | `Close`, `Signal`, `Crash` |
| a rebalance of the tool's group | `Rejoin`, as in `Consumer` |

The writer and the reader are external. As `RequireNone` asks the broker for no answer, a
message may vanish without anybody learning of it; the writer may also send one again after
a broken connection. The consumer service is not what fills the queue: its DLQ writes
do not succeed (see Consumer), and a replayed message that it still cannot decode is lost with the
panic or dropped. `Fix` is the day the cause of the failures is removed: the registry is
back, or a new consumer is deployed.

### Startup and Service

`phase` is where `main` is before its loop; `now` counts from `context.WithTimeout`. Time passes
in the sleep, which ignores the context, in the checks, which the context cuts short, and in
`NewParquetSink`, whose request has neither a context nor a timeout that ends it (`OpenLimit` bounds it
in the model). At the deadline itself the timer may have fired or not.

| Code | Model |
|---|---|
| the supervisor runs the program, `context.WithTimeout` | `Boot` |
| `WaitForReady`: no attempt left | `Exhausted` (only with `STARTUP_MAX_RETRIES` 0) |
| the select on `ctx.Done` | `ContextDone`, or `BeginCheck` |
| `checkRedpanda`, `checkSchemaRegistry`, `checkMinIO` | `CheckPasses`, `CheckFails`, in this order, each made |
| `errors.Join`, the branches on its result | `Verdict` |
| `time.Sleep` | `Tick`, `Wake` |
| `NewParquetSink` and its `log.Fatalf` | `OpenLasts`, `Opened`, `OpenFails` |
| a signal before `signal.Notify` | `Killed` |

`Service` joins the two: `Opened` is one step with `Consumer!Start` (`Run`), the end of the
process with `Stopped` (`Ends`), and while the process is up `Startup` rests (`Running`).

### Codec

A message is the id in its header with what it was written with. There are two schemas: the
programs of the repository are built with v1, and the codec, its tests and the documents provide
for programs built with v2 (`minor`, `page_id`) that share the topic with them. Of an event
two fields are kept, those a conversion changes; `of` remembers the first event, for the properties.

| Code | Model |
|---|---|
| `Codec.Register`, `Client.Register`; the registry gives the same schema the same id | `Register`, `RegisterFails` |
| `Codec.Encode`, `toAvro` | `Publish`, `Narrowed`, `Encoded` |
| `Codec.Decode`: header | `DecodeHeader` |
| `GetByID`: the cache, the request, the answer, the cache again | `Lookup`, `Answer`, `AnswerIsError`, `Store` |
| `avro.Unmarshal`, `fromAvro`, `toRow` | `Unmarshal`, `ToSink` |
| `toEvent`, and the replay tool's `Encode` | `Republish` |
| messages of other programs | `Stray` |

That two callers decode at once is what `schema/client.go` promises ("thread-safe"); the
consumer has one. The caches of the encoding services are left out: nothing reads them.

### Amplifier

| Code | Model |
|---|---|
| flags, registration, seed event | `Init`, `Register` |
| `make([]*kafka.Producer, ...)` | `OpenProducers` (a negative length panics) |
| the division and `NewTicker` | `HasTicker`, `StartTicker` (a panic when not positive) |
| the select | `TakeTick`, `Break` |
| a goroutine: `Publish` and its answers, the counters | `PublishRefused`, `HandOver`, `PublishReturns`, `PublishCancelled`, `CountPublished` |
| the two loads of the report | `ReadCount`, `ReadErrors` |
| the deferred closes | `CloseProducer`, `ProducerClosed`, `Return` |

The encoding cannot fail here, because the schema is a constant of the program.

## 3. Runs

Run | What is asked | Bounds, and why they are enough
---|---|---
`batcher` | types, tokens, wake-ups, memory, order; `RefinesSink` with its liveness, `WriteReturns`, `ShutdownCompletes` | 2 writers and 1 token: each writer can block with its row appended. 7 rows: two batches of the largest size (3) are in memory and one row more. Sizes 1 and 2 with `MaxBytes` 4: either threshold can come first. `MaxPending` 1 below `MaxRows` 3: with small rows only the ticker frees a blocked writer.
`service` | is a start checked, not given up early, does it succeed in the end; how often a message reaches the sink, when the DLQ branch is reached, what becomes of a message that is dropped, do commits go back, does a signal end the process | 2 messages, the second bad, the first too large for the DLQ, `MAX_RETRIES` 0 and 2, 2 lives, 2 rebalances, every fault: a rebalance before and after the commit of the same message, a bad message that is presented often enough for the DLQ branch, a panic or a kill with a message in hand. 0 to 3 attempts, a sleep of 2, a round of checks of up to 1 and a look at the bucket of up to 2 units of time: slow checks can use up the last attempt, an attempt can fall on the deadline, and the checks can be older than a round when the loop starts
`startup_deadline` | is the wait over within its 30 s? No (finding) | the default interval of 5 s and up to 6 attempts, rounds of checks of up to 2 s, nothing produced
`consumer_atleastonce` | at-least-once? No (finding) | 2 messages, the second bad, `MAX_RETRIES` 0, no fault at all
`consumer_exit` | does a graceful exit flush everything? No (finding) | 3 messages, a signal only, uploads that succeed
`producer` | whole events, order, counts, prompt stop, end | 3 events of 2 data lines, the second bad, 2 attempts: a connection can break in each part of an event, and a publish can time out, be retried and be overtaken by the next event
`producer_duplicates` | idempotent writes? No (finding) | the same stream, no bad event
`replay` | types, copies in one run, the feedback through today's objects, counts, dates, end | 2 events from the stream, 2 days, both asked for, `-prefix ""`, every fault, reads that end early among them: a copy made for the first day can be consumed, stored on the second and copied again by the same run; midnight can fall between taking and uploading a batch
`replay_default` | does a range of dates replay its data with the default `-prefix`? No (finding) | 1 event, 1 day, no fault
`dlq_replay` | types, copies of a message, how often an entry is read, recovery | 2 messages, 2 entries of the queue, which may be of one message; 2 runs of the tool in any mode, so that one can crash and the next resume; 2 faults, so that a rebalance can come between a fetch and its commit and a send be repeated in the same run
`codec` | types, what an id means, what an event becomes | 2 publishers started 3 times with either schema, 2 callers, 3 messages: an event can be published, stored, replayed, stored and replayed again. An `int32` has 3 bits and the event's namespace is outside them; a second has 2 units and its time is odd.
`amplifier` | types, the report, the end | 3 events; rates and concurrencies on both sides of every limit, with a second of 2 units

Deadlock is checked for the Batcher, the Producer and the Codec. It is not for the Consumer and
the Service, which may stay down when they have used up their lives, for the two replay tools,
which may be off for good while the topic is empty, and for the Amplifier, which ends.

Every property has a mutant: the definitions named `...Bug` are slips that the
definition after them could contain, and TLC finds the property violated with them.

| Property | Slip |
|---|---|
| `Batcher!TypeOK`, `HeldBounded` | `pendingCh` never blocks |
| `TokenConservation` | one token too few is drained |
| `NoLostWakeup` | the signal is never sent |
| `InOrder` | rows are put in front |
| `RefinesSink` | flushing only full buffers |
| `WriteReturns` | the ticker ignores buffers below `MaxRows` |
| `ShutdownCompletes` | `Close` flushes again and again |
| `DuplicatesBounded` | a message's own offset is committed |
| `DLQNeedsRejoins` | the new count is compared |
| `CommitMonotone` | the reader starts at 0 |
| `DroppedLeavesEntry` | the count is not stored |
| `ServiceTypeOK` | `<=` for `<`: one attempt too many |
| `GivesUpOnTime` | the last attempt is not made |
| `StartIsChecked` | only the last check counts |
| `EventuallyStarts` | the deadline is one interval shorter, so one attempt has no time |
| `DropsEndALife` | `>` for `>=` in `ShouldDLQ` |
| `SignalEndsProcess` (service) | `Read` without the context |
| `Producer!TypeOK`, `InStreamOrder` | a connection starts at the last, or the first, event |
| `WholeEvents` | data lines survive the connection |
| `CountsAreTrue` | asynchronous publishing |
| `StopIsPrompt` | `closeCh` is not looked at between lines |
| `SignalEndsProcess` (producer) | `main` waits for the reader |
| `Replay!TypeOK` | the consumer reads past the end |
| `CopiesBounded` | the prefix is listed again after each file |
| `CountedIsCopied` | a publish error skips the row and not the file |
| `DatesReplayed` | the last day is excluded |
| `ReplayEnds` | a failed file is tried again |
| `DLQReplay!TypeOK` | a group without an offset is not handled |
| `NotMultiplied` | such a group starts at the first entry |
| `ReadsBounded` | a message's own offset is committed |
| `Recovers` | a message replaces what the writer holds |
| `Codec!TypeOK` | ids are given twice |
| `CacheIsTrue` | what a failed lookup returned is cached |
| `SameEvent` | the time is not converted to seconds |
| `Amplifier!TypeOK` | the producers are counted from 1 |
| `ReportIsTrue` | asynchronous publishing |
| `AmplifierEnds` | the loop does not look at the timeout |

### Fairness

Goroutines that can run are run (weak fairness). A channel serves its blocked senders in
turn, hence strong fairness for `WritePush`. The ticker keeps ticking (`Elapse`,
`LoopTick`). Uploads are assumed to end, well or badly: the code sets no timeout, so this is an
assumption about MinIO's client. The stream accepts a connection now and then (strong
fairness of `Connect`). Nothing is assumed about anybody calling `Write`, `Close` or
sending a signal, nor about events arriving. Faults are never fair. In `Replay` only the tool
is fair: it ends however fast or slow the pipeline is. In `DLQReplay` the consumer, the tool
and the writer are; that `MaxFaults` bounds the faults is the assumption that they cease, and
`Recovers` speaks of the time after the last one. In `Service` the supervisor runs the process
again, the checks and the look at the bucket answer, well or badly (for the latter, which has no timeout,
that is an assumption about MinIO's client), and time passes; `EventuallyStarts` says itself that the
dependencies answer from some time on. In `Amplifier` the loop may find a tick ready whenever it
looks: that it still leaves is the strong fairness of `Break`, which stands for `select` choosing
at random among the ready cases.

### Findings

Eight statements of the documents and comments do not hold of the code. Five have a run that violates
them; one of these runs also meets a defect:

* Delivery is not at-least-once (`consumer.go:32`): the offset is committed by the read, before the row is
  stored (run `consumer_atleastonce`).
* A DLQ write panics (`dlq.go:45`): it is given a nil context, and the process ends with the message lost
  (the same run).
* A graceful shutdown can lose the batch being uploaded (`main.go:87`): `Close` does not wait for the loop
  (run `consumer_exit`).
* A start whose dependencies are down can take an interval longer than its deadline of 30 s (`recovery.go:113`):
  the sleep ignores the context (run `startup_deadline`).
* The producer's writes are not idempotent (`producer.go:18`): a write whose answer is lost is tried again and is
  in the topic twice (run `producer_duplicates`).
* With its default `-prefix`, the replay tool lists `dt=dt=<day>/` for a range of dates and
  finds nothing (`replay/main.go:202`, against the README's `make replay`; run `replay_default`).

Three show in what a passing run's property says instead:

* Bad messages do not come to the DLQ branch with `MAX_RETRIES` above 0 (`main.go:152`): a message that
  was read is not read again, so its count stays below the limit unless the group rebalances (`DLQNeedsRejoins`).
* A dry run of the DLQ tool is not only an inspection (`dlq-replay/main.go:66`): it commits what it prints, and
  the run that would replay it does not see it (`ReadsBounded` holds over runs of every mode together).
* A file of which only some rows could be read is replayed and counted as a whole one (`parquet/reader.go:78`):
  `CountedIsCopied` has to leave such rows out.

## 4. Proofs

TLAPS proves, for every value of the constants that satisfies the named assumptions, every
safety property that a passing run checks, and some facts that only the proofs state. Each
property is proved from an inductive invariant that contains or implies it.

### The Batcher (`BatcherProofs`)

* The type invariant is inductive only with `Shape`, which ties a flusher's `fpc` to its
  `batch` and `rem`.
* `TokenConservation`: a push moves a token from `Pushing` to `pending`, a take moves rows
  from `buf` to `rem`, a drain lowers both sides.
* `HeldBounded` follows from the tokens: rows in the buffer are at most pending tokens and
  pushing writers, and `BatchBounded` remembers it for a batch at the moment it was taken.
* `ImplementsSink`: accepted rows are exactly `1..appended` (`Covered`); then `WriteAppend` is
  `Accept`, `FlushTake` is `Take`, `FlushWriteFile` is `Store` or `Drop`, and everything else
  stutters (`StepMaps`).
* The abstract sink keeps each row in one place and never forgets one. Seen through the mapping these
  are `RowsInOnePlace` and `RowsAreDurable`. `ShutdownAccounts`: when both flushers have
  stopped, every row has its outcome.

### The consumer (`ConsumerProofs`)

Every fault is allowed, and any number of lives and rebalances.

* `DuplicatesBounded`, `DLQNeedsRejoins`: the invariant counts deliveries. A message can be
  delivered again only while it is ahead of where the reader is or would resume, or is fetched and
  not committed (`Deliverable`), and its deliveries exceed the rebalances by at most one, strictly
  less while it is still deliverable (`Counting`). A row's number is at most the number of its
  deliveries (`Numbered`). The retry count never exceeds the deliveries.
* `CommitMonotone` needs that before the first rebalance the reader is never behind the
  committed offset (`Eager`).
* `DropsEndALife` (`Settled`): a message leaves main's hands at a commit, and then it is in the sink or was
  too large for the DLQ, or with the life. A step that drops one ends the loop (`DropsOne`), which is when one
  more is allowed; every other step drops none (`DropsNone`).
* `DroppedLeavesEntry` (`Remembered`): an entry of the retry map is cleared only at a commit, and then the
  message is in the sink, or its deliveries were more than `MAX_RETRIES`.
* `WriteIsAccepted` (`Fresh`): the sink accepts a row once, which is a guard in the model and none in the
  code. The row main is about to write is never one the sink has had, so that guard hides no
  behaviour.
* `UsesSink`: every step is one of the abstract sink or none, with restarts, so any
  implementation of the sink can stand behind the consumer.
* `ExitLosesOneBatch` (`Closing`): the finding of run `consumer_exit` is that a graceful exit may lose rows; this is
  what it cannot lose. When `main` is through its deferred calls the buffer is empty, `Close`'s own batch is
  stored or reported, and at most the one batch that the loop was uploading is open.

### The service (`ServiceProofs`)

* The start, for every number of attempts, interval and length of a check. The invariant says phase by
  phase how far the clock is: an attempt begins no earlier than the sleeps before it
  (`Slept`), a check ends by the deadline, a sleep begins by it (`InWait`, `InCheck`, `InSleep`). As the
  deadline is attempts times interval, a last attempt that fails fails at most one interval before it,
  and one that the deadline prevents had its predecessor fail at most an interval and a
  round of checks before. Past the deadline only a sleep can go on, hence the one interval of `GivesUpOnTime`. `Told` says what a round has found so far.
* The composed service implements both of its parts (`IsConsumer`, `IsStartup`), and so inherits their
  theorems: `ServiceIsTimely`, `ServiceStartsChecked`, `ServiceDuplicates`, `ServiceDrops`. `ServiceTypes` needs
  besides that a process is alive exactly while its start is through (`Together`).
* What the loop starts behind is a round of checks that found every dependency well within `CheckTime` of the moment
  `WaitForReady` returned (`StartsChecked`). Time goes on in `NewParquetSink`, for which the invariant keeps nothing.

### The producer (`ProducerProofs`)

`WholeEvents` is inductive through `Gathered`: while a connection is open, `eventData` is exactly the lines
of the current event before `line`. `StopIsPrompt` needs that after the late event the reader is never
again behind the check of `closeCh` (`LastLine`). For `InStreamOrder`, `QueueInOrder` adds that the
writer's queue is sorted and nothing is ahead of the reader, who never goes back (`NextGrows`).
`CountsAreTrue` follows from `OnlyGood`: no bad event is ever given to the writer.

### The replay tool (`ReplayProofs`)

* `CopiesBounded`: a row lies in one object (`StoredOnce`) and an object under one day, so a prefix
  reaches it once. The invariant says of each copy this run made that it comes from an object of a
  prefix already listed (`Sources`), and of each row still to be replayed that it has no copy
  (`NotYet`), or, where it is itself a copy that the pipeline stored meanwhile, that it was made
  under an earlier prefix (`Earlier`): the keys of a prefix are listed once, before its first copy is made.
* `CountedIsCopied`: the rows of the file at hand are copied, skipped or still to come
  (`FileProgress`); skipped are also the rows that a read which ended early left out (`ReadFacts`).
* `DatesReplayed`: a message that was asked for is copied, or waits in a prefix, a key or a file still to come
  (`DueProgress`). The theorem has two hypotheses, dates and `-prefix ""`. They are the values of the run
  `replay`; the run `replay_default` shows that the second is needed.

### The DLQ replay tool (`DLQReplayProofs`)

* `ReadsBounded`: an entry that `Read` has returned once more than the group rebalanced is behind the committed
  offset and behind the reader (`Behind`); only a rebalance moves the reader back over it, and it is counted.
* `NotMultiplied` counts the copies of a message in five places: the topic, the part of the queue that can still be
  read, the hand of the tool, the writer's queue, and the sink. A fetched entry that a rebalance has put before
  the reader again counts twice (`Twice`, `Potential`). Every step moves a copy from one place to another, or
  loses it; only a new entry, a rebalance and a message that the writer sends again add one (`CopiesMove`, over one
  lemma for each kind of step). The lemmas `CountAppend`, `CountTail` and `WaitingLess` say how a count changes.

### The codec and the amplifier (`CodecProofs`, `AmplifierProofs`)

* `CacheIsTrue`: ids are given once (`Injective`), so what a caller has got from the registry stays
  true while it is on its way to the cache (`CallKnows`), however many callers race.
* `SameEvent`: to narrow, widen and narrow again is to narrow once, for every width (`Int32Twice`) and every unit of time
  (`UnixTwice`).
* `ReportIsTrue`: what is counted as published was acknowledged (`CountedIsAcked`), the report reads
  the counters, which only go up, once (`ReadIsPast`), and a closed writer holds nothing and has no goroutine
  waiting (`ClosedIsIdle`).

### What is assumed, and what is left to TLC

The proofs assume of the constants only the `...Assumption` of each module, and the
hypotheses named above. `EventLimit`, `QueueLimit`, `MaxRuns` and the like are arbitrary numbers in them.

Left to TLC: the liveness properties `WriteReturns`, `ShutdownCompletes`, `SignalEndsProcess`,
`AmplifierEnds`, `ReplayEnds`, `EventuallyStarts` and `Recovers`, and the fairness that `RefinesSink` contains:
liveness under fairness is out of the proof system's reach. The statements of the
five violation runs are false and have no theorem.

## 5. Not modelled, and the plan

* **Metrics and the feature-store declarations** have no state another part depends on.
* **The Flink job** declares a pipeline whose windows, watermarks, checkpoints and delivery are
  Flink's; the repository's own functions in it are a JSON parse and an aggregator that adds. A model of it
  would be one of Flink.
* **`SetCompatibility`** is called by tests only and changes nothing in the client.
* **In the consumer** the goroutine that polls the lag only reads. Wording of logs, message
  headers, object keys and the Avro and Parquet encodings are abstracted.
* **Messages too large for the DLQ writer** are dropped with a line in the log; `DropsEndALife` excepts them.
* **How long `NewParquetSink` takes** has no bound in the code, and no property has one: `StartIsChecked` speaks of the
  moment `WaitForReady` returned.
* **In the replay tool** dry runs (which publish nothing) and the rate limit are left out, and a run's writer
  sends nothing twice.
* **In the amplifier** the content of the events and the rate in the log are left out.

`MaxPending` of the Batcher limits the tokens: a writer blocks with its row already appended, and
a batch being flushed has returned its tokens before it is uploaded; `HeldBounded` says what it does limit.

Next:

1. The consumer's own rows: that each is in one place over all lives of the process, through `UsesSink`.
2. A bound on the copies over several runs of the replay tool, in terms of the runs.
