------------------------------- MODULE Replay -------------------------------
(***************************************************************************)
(* services/replay: a tool that reads the stored objects of a range of     *)
(* days and publishes their events to the topic again, while the pipeline  *)
(* runs: what it publishes is consumed, stored under the CURRENT day, and  *)
(* may be listed by the same run when that day is in the range.            *)
(*                                                                         *)
(* A message is known by its offset 1, 2, 3 ... and an object is a day and *)
(* the offsets of its rows.  The consumer is reduced to what the objects   *)
(* come from: it takes the messages in order, once (modules Consumer and   *)
(* BatchSink).  The tool's writer does not send a message twice here;      *)
(* module Producer has its retries.                                        *)
(***************************************************************************)
EXTENDS Integers, Sequences, FiniteSetsExt

CONSTANTS
  EventLimit,       \* bound of the model: messages from the stream
  DayLimit,         \* bound of the model: the days there are
  MaxRuns,          \* bound of the model: how often the tool is run
  HasDates,         \* -from and -to are given
  From, To,         \* ... and these are they
  Base,             \* -prefix: Empty, Default, or a day for "dt=<that day>"
  Faults            \* which of "list", "file", "eof", "encode", "publish",
                    \* "signal" may happen

Days == 1..DayLimit
Empty == 0          \* -prefix ""
Default == -1       \* -prefix "dt=", the default

ASSUME ReplayAssumption ==
  /\ EventLimit \in Nat
  /\ DayLimit \in Nat \ {0}
  /\ MaxRuns \in Nat
  /\ HasDates \in BOOLEAN
  /\ From \in Days /\ To \in Days /\ From <= To
  /\ Base \in {Empty, Default} \cup Days

VARIABLES
  today,            \* the current day
  topic,            \* the topic: of = the offset a message is a copy of (0
                    \* for none), at = the prefix its run was at
  taken,            \* how many messages the consumer has taken
  buffered,         \* the offsets in the batcher's buffer
  uploading,        \* objects on their way to the bucket
  objects,          \* objects in the bucket
  pc,               \* where the tool is
  scanned,          \* how many prefixes were listed in this run
  keys,             \* objects still to replay for the current prefix
  file,             \* the object that is being replayed
  left,             \* its rows still to publish
  cancelled,        \* the tool's context is cancelled
  runs,             \* history: how often the tool was started
  start,            \* history: the length of the topic at this run's start
  due,              \* history: what was in the bucket for the dates, then
  failed,           \* history: something went wrong in this run
  skipped,          \* history: rows that this run passed over without an
                    \* error: not read or not encoded
  counted           \* history: the files that totalFiles counts

pipeline == <<taken, buffered, uploading, objects>>
tool == <<pc, scanned, keys, file, left>>
history == <<runs, start, due, failed, skipped, counted>>
vars == <<today, topic, pipeline, tool, cancelled, history>>

Message == [of: Nat, at: Nat]
Object == [day: Days, rows: SUBSET (1..Len(topic))]
NoFile == [day |-> 1, rows |-> {}]

TypeOK ==
  /\ today \in Days
  /\ topic \in Seq(Message)
  /\ taken \in 0..Len(topic)
  /\ buffered \subseteq 1..taken
  /\ \A o \in uploading \cup objects \cup keys \cup counted \cup {file} :
       o.day \in Days /\ o.rows \subseteq 1..taken
  /\ pc \in {"off", "prefix", "file", "row", "publish"}
  /\ scanned \in Nat
  /\ left \subseteq file.rows
  /\ cancelled \in BOOLEAN
  /\ runs \in 0..MaxRuns
  /\ start \in 0..Len(topic)
  /\ due \subseteq 1..start
  /\ failed \in BOOLEAN
  /\ skipped \subseteq 1..taken

Init ==
  /\ today = 1
  /\ topic = <<>>
  /\ taken = 0
  /\ buffered = {}
  /\ uploading = {}
  /\ objects = {}
  /\ pc = "off"
  /\ scanned = 0
  /\ keys = {}
  /\ file = NoFile
  /\ left = {}
  /\ cancelled = FALSE
  /\ runs = 0
  /\ start = 0
  /\ due = {}
  /\ failed = FALSE
  /\ skipped = {}
  /\ counted = {}

Offsets == 1..Len(topic)
May(fault) == fault \in Faults

-----------------------------------------------------------------------------
\* The pipeline.
Midnight ==
  /\ today < DayLimit
  /\ today' = today + 1
  /\ UNCHANGED <<topic, pipeline, tool, cancelled, history>>

FromStream == {o \in Offsets : topic[o].of = 0}

\* The producer service publishes an event of the stream.
Produce ==
  /\ Cardinality(FromStream) < EventLimit
  /\ topic' = Append(topic, [of |-> 0, at |-> 0])
  /\ UNCHANGED <<today, pipeline, tool, cancelled, history>>

\* The definitions named ...Bug are not part of the specification: each is a
\* slip the next definition could contain, and the README says which property
\* fails with it.
HasMessageBug == taken <= Len(topic)
HasMessage == taken < Len(topic)

\* The consumer service reads a message and writes it to its batcher.
Consume ==
  /\ HasMessage
  /\ taken' = taken + 1
  /\ buffered' = buffered \cup {taken'}
  /\ UNCHANGED <<today, topic, uploading, objects, tool, cancelled, history>>

\* Flush takes the buffer: the object's day is the day of this moment.
TakeBatch ==
  /\ buffered # {}
  /\ uploading = {}
  /\ uploading' = {[day |-> today, rows |-> buffered]}
  /\ buffered' = {}
  /\ UNCHANGED <<today, topic, taken, objects, tool, cancelled, history>>

\* WriteFile ends, maybe on another day.
Upload ==
  /\ uploading # {}
  /\ uploading' = {}
  /\ objects' \in {objects, objects \cup uploading}
  /\ UNCHANGED <<today, topic, taken, buffered, tool, cancelled, history>>

-----------------------------------------------------------------------------
LastDayBug == To - 1

\* buildPrefixes, line 201: up to and with the end date
LastDay == To

\* buildPrefixes puts "dt=<day>/" behind the base prefix, and main puts "/"
\* behind it when there are no dates.  The keys of the objects begin with
\* "dt=<day>/hour=", so a prefix is the set of the days whose keys it matches.
Prefixes ==
  IF HasDates
    THEN [i \in 1..(LastDay - From + 1) |->
            IF Base = Empty THEN {From + i - 1} ELSE {}]
    ELSE <<IF Base \in Days THEN {Base} ELSE {}>>

RowsOf(objs) == UNION {o.rows : o \in objs}

\* What the dates ask for.
Asked == {o \in objects : HasDates => o.day \in From..To}

\* main up to its loop
Start ==
  /\ pc = "off"
  /\ runs < MaxRuns
  /\ runs' = runs + 1
  /\ pc' = "prefix"
  /\ scanned' = 0
  /\ keys' = {}
  /\ file' = NoFile
  /\ left' = {}
  /\ cancelled' = FALSE
  /\ start' = Len(topic)
  /\ due' = RowsOf(Asked)
  /\ failed' = FALSE
  /\ skipped' = {}
  /\ counted' = {}
  /\ UNCHANGED <<today, topic, pipeline>>

Goto(label) == pc' = label /\ UNCHANGED <<scanned, keys, file, left>>

\* The loop over the prefixes is over, or the context is cancelled.
Finish ==
  /\ pc = "prefix"
  /\ scanned = Len(Prefixes) \/ cancelled
  /\ Goto("off")
  /\ UNCHANGED <<today, topic, pipeline, cancelled, history>>

\* ListObjects: what is in the bucket now
Listed(prefix) == {o \in objects : o.day \in prefix}

List ==
  /\ pc = "prefix"
  /\ ~cancelled
  /\ scanned < Len(Prefixes)
  /\ scanned' = scanned + 1
  /\ keys' = Listed(Prefixes[scanned'])
  /\ pc' = "file"
  /\ UNCHANGED <<file, left, today, topic, pipeline, cancelled, history>>

\* It fails, and main goes on with the next prefix.
ListFails ==
  /\ pc = "prefix"
  /\ scanned < Len(Prefixes)
  /\ May("list") \/ cancelled
  /\ scanned' = scanned + 1
  /\ failed' = TRUE
  /\ UNCHANGED <<pc, keys, file, left, today, topic, pipeline, cancelled,
                 runs, start, due, skipped, counted>>

\* The loop over the keys is over, or the context is cancelled.
KeysDone ==
  /\ pc = "file"
  /\ keys = {} \/ cancelled
  /\ Goto("prefix")
  /\ UNCHANGED <<today, topic, pipeline, cancelled, history>>

KeysLeftBug(key) == Listed(Prefixes[scanned])
KeysLeft(key) == keys \ {key}

\* ReadFile gives all rows of the object, or some of them when pr.Read ends
\* with io.EOF: that is no error.
ReadFile(rows) ==
  {rows} \cup (IF May("eof") THEN (SUBSET rows) \ {{}} ELSE {})

\* replayFile, the object is downloaded and read.
Download ==
  /\ pc = "file"
  /\ ~cancelled
  /\ \E key \in keys : \E got \in ReadFile(key.rows) :
       /\ keys' = KeysLeft(key)
       /\ file' = key
       /\ left' = got
       /\ skipped' = skipped \cup (key.rows \ got)
  /\ pc' = "row"
  /\ UNCHANGED <<scanned, today, topic, pipeline, cancelled, runs, start, due,
                 failed, counted>>

\* It is not: main logs the error and goes on with the next key.
DownloadFails ==
  /\ pc = "file"
  /\ May("file") \/ cancelled
  /\ \E key \in keys : keys' = keys \ {key}
  /\ failed' = TRUE
  /\ UNCHANGED <<pc, scanned, file, left, today, topic, pipeline, cancelled,
                 runs, start, due, skipped, counted>>

\* The loop over the events looks at the context before each of them.
NextRow ==
  /\ pc = "row"
  /\ left # {}
  /\ Goto(IF cancelled THEN "file" ELSE "publish")
  /\ UNCHANGED <<today, topic, pipeline, cancelled, history>>

\* replayFile returns nil.
FileDone ==
  /\ pc = "row"
  /\ left = {}
  /\ Goto("file")
  /\ counted' = counted \cup {file}
  /\ UNCHANGED <<today, topic, pipeline, cancelled, runs, start, due, failed,
                 skipped>>

Row == Min(left)
Copy == Append(topic, [of |-> Row, at |-> scanned])

RowDone ==
  /\ left' = left \ {Row}
  /\ pc' = "row"
  /\ UNCHANGED <<scanned, keys, file>>

\* Publish returns nil.
Publish ==
  /\ pc = "publish"
  /\ topic' = Copy
  /\ RowDone
  /\ UNCHANGED <<today, pipeline, cancelled, history>>

\* Encode fails: the event is skipped.
EncodeFails ==
  /\ pc = "publish"
  /\ May("encode")
  /\ RowDone
  /\ skipped' = skipped \cup {Row}
  /\ UNCHANGED <<today, topic, pipeline, cancelled, runs, start, due, failed,
                 counted>>

AfterPublishErrorBug1 == RowDone
AfterPublishErrorBug2 ==
  /\ keys' = keys \cup {file}
  /\ pc' = "file"
  /\ UNCHANGED <<scanned, file, left>>

\* The rest of the file is given up.
AfterPublishError == Goto("file")

\* Publish fails, or the context is cancelled while it waits: the message may
\* be in the topic all the same.
PublishFails ==
  /\ pc = "publish"
  /\ May("publish") \/ cancelled
  /\ topic' \in {topic, Copy}
  /\ AfterPublishError
  /\ failed' = TRUE
  /\ UNCHANGED <<today, pipeline, cancelled, runs, start, due, skipped, counted>>

Signal ==
  /\ May("signal")
  /\ pc # "off"
  /\ ~cancelled
  /\ cancelled' = TRUE
  /\ UNCHANGED <<today, topic, pipeline, tool, history>>

Pipeline == Midnight \/ Produce \/ Consume \/ TakeBatch \/ Upload

Tool ==
  \/ Finish \/ List \/ ListFails \/ KeysDone \/ Download \/ DownloadFails
  \/ NextRow \/ FileDone \/ Publish \/ EncodeFails \/ PublishFails

Next == Pipeline \/ Start \/ Tool \/ Signal

Spec == Init /\ [][Next]_vars

\* Fairness: the tool runs.  The pipeline may be as fast or slow as it likes.
FairSpec == Spec /\ WF_vars(Tool)

-----------------------------------------------------------------------------
\* The copies that this run has made.
Copies == {o \in Offsets : o > start /\ topic[o].of # 0}

(***************************************************************************)
(* A run copies a message once at most, whatever fails and whatever the    *)
(* pipeline stores in between: each object is under one prefix only, each  *)
(* prefix is listed once, and a file that failed is not tried again.       *)
(***************************************************************************)
CopiedOnce ==
  \A o, p \in Copies : topic[o].of = topic[p].of => o = p

(***************************************************************************)
(* The feedback ends.  A copy may be consumed, stored under today's date   *)
(* and copied again by the same run, but only for a later prefix: with     *)
(* CopiedOnce, a message breeds no more copies than the run has days.      *)
(***************************************************************************)
CopiesBounded ==
  /\ CopiedOnce
  /\ \A o \in Copies : topic[o].of \in Copies => topic[topic[o].of].at < topic[o].at

(***************************************************************************)
(* A file that is counted was republished as a whole, but for the rows     *)
(* that are passed over without an error: those that could not be encoded, *)
(* and those behind the end of a read that came early (reader.go, line 78).*)
(* The count does not tell such a file from a whole one.                   *)
(***************************************************************************)
CountedIsCopied ==
  \A f \in counted : \A r \in f.rows \ skipped :
    \E o \in Copies : topic[o].of = r

(***************************************************************************)
(* README, line 51: "make replay FROM=2026-06-20 TO=2026-06-21  # Replay   *)
(* historical data".  A run that ends without an error and without a       *)
(* signal has copied every message that was in the bucket for its dates    *)
(* when it started, but for the rows it passed over.                       *)
(***************************************************************************)
DatesReplayed ==
  (pc = "off" /\ runs > 0 /\ ~failed /\ ~cancelled) =>
    \A r \in due \ skipped : \E o \in Copies : topic[o].of = r

\* A run ends, also while the pipeline stores what it has published.
ReplayEnds == pc = "prefix" ~> pc = "off"
=============================================================================
