------------------------------- MODULE Codec -------------------------------
(***************************************************************************)
(* What an event becomes on its way: Codec.Encode in a service that        *)
(* publishes, Codec.Decode in the consumer, a row of a Parquet file, an    *)
(* event again in the replay tool, and so on round the loop; and the       *)
(* schema client, whose cache Decode relies on.                            *)
(*                                                                         *)
(* A message carries the id of the schema it was written with.  There are  *)
(* two (schemas/*.avsc): the programs are built with the first, and the    *)
(* codec, its tests and the docs provide for programs built with the       *)
(* second that share the topic with them.  Of an event only the two fields *)
(* are kept that a conversion changes: the namespace, an int that becomes  *)
(* an int32, and the time, which becomes a number of seconds.  The other   *)
(* fields are copied.                                                      *)
(***************************************************************************)
EXTENDS Integers, Sequences

CONSTANTS
  Publishers,       \* the services that encode
  Replayers,        \* those of them that publish rows again
  Callers,          \* goroutines that decode with the consumer's codec
  Events,           \* events that a stream or the amplifier gives
  Half,             \* an int32 goes from -Half to Half - 1 (2^31 in Go)
  Units,            \* the units of time in a second
  TopicLimit,       \* bound of the model: messages in the topic
  BootLimit         \* bound of the model: how often services are started

ASSUME CodecAssumption ==
  /\ Replayers \subseteq Publishers
  /\ Half \in Nat \ {0}
  /\ Units \in Nat \ {0}
  /\ TopicLimit \in Nat
  /\ BootLimit \in Nat
  /\ Events \subseteq [namespace : Int, time : Int]

VARIABLES
  registry,         \* the registry: the schema of id 1, of id 2, ...
  topic,            \* messages: what was written, and of = the first event
  stored,           \* rows in the bucket, with of likewise
  schemaOf,         \* the schema a publisher is built with, None = not up
  codecId,          \* its Codec.id
  cache,            \* the consumer's Client.cache
  call,             \* where each caller is in Decode
  boots             \* history: how often services were started

publisher == <<schemaOf, codecId>>
vars == <<registry, topic, stored, publisher, cache, call, boots>>

Schemas == {"v1", "v2"}
None == "none"
Ids == 0..3           \* 0 is a codec's before Register; the registry gives two

\* int32(n): the low bits, as a number with a sign
Int32(n) == ((n + Half) % (2 * Half)) - Half

UnixBug(t) == t

\* Time.Unix
Unix(t) == t \div Units

\* time.Unix(s, 0)
FromUnix(s) == s * Units

Payload == [namespace : Int, seconds : Int]
Event == [namespace : Int, time : Int]

\* toAvro, toRow: Minor is 0 and PageID nil for every event.
Narrowed(e) == [namespace |-> Int32(e.namespace), seconds |-> Unix(e.time)]

\* fromAvro, toEvent
Widened(p) == [namespace |-> p.namespace, time |-> FromUnix(p.seconds)]

\* What the topic may hold: messages of a codec, of something else, and with
\* an id of something else.
Messages ==
  [kind : {"avro"}, id : Ids, wrote : Schemas, data : Payload, of : Event]
  \cup [kind : {"badHeader"}]
  \cup [kind : {"stray"}, id : Ids]

Idle == [pc |-> "idle", msg |-> 0, schema |-> None]

Labels == {"idle", "lookup", "request", "store", "unmarshal", "decoded",
           "garbled", "failed"}

TypeOK ==
  /\ registry \in Seq(Schemas)
  /\ Len(registry) <= 2
  /\ topic \in Seq(Messages)
  /\ stored \subseteq [row : Payload, of : Event]
  /\ schemaOf \in [Publishers -> Schemas \cup {None}]
  /\ codecId \in [Publishers -> 0..Len(registry)]
  /\ cache \in [Ids -> Schemas \cup {None}]
  /\ call \in [Callers -> [pc : Labels, msg : 0..Len(topic),
                           schema : Schemas \cup {None}]]
  /\ boots \in 0..BootLimit

Init ==
  /\ registry = <<>>
  /\ topic = <<>>
  /\ stored = {}
  /\ schemaOf = [p \in Publishers |-> None]
  /\ codecId = [p \in Publishers |-> 0]
  /\ cache = [i \in Ids |-> None]
  /\ call = [c \in Callers |-> Idle]
  /\ boots = 0

-----------------------------------------------------------------------------
Known(schema) == \E i \in DOMAIN registry : registry[i] = schema

\* The registry gives a schema the id that it has, or the next.
Registered(schema) ==
  IF Known(schema) THEN registry ELSE Append(registry, schema)

\* The definitions named ...Bug are not part of the specification: each is a
\* slip the next definition could contain.
NewIdBug(schema) == Len(registry) + 1

NewId(schema) ==
  CHOOSE i \in DOMAIN Registered(schema) : Registered(schema)[i] = schema

\* A publisher starts, built with either schema: Codec.Register, whose answer
\* goes to the codec.  (The client also caches it, for a Decode that no
\* publisher makes.)
Register(p) ==
  /\ schemaOf[p] = None
  /\ boots < BootLimit
  /\ boots' = boots + 1
  /\ \E schema \in Schemas :
       /\ registry' = Registered(schema)
       /\ schemaOf' = [schemaOf EXCEPT ![p] = schema]
       /\ codecId' = [codecId EXCEPT ![p] = NewId(schema)]
  /\ UNCHANGED <<topic, stored, cache, call>>

\* The request fails, before or after the registry has done its part: main
\* ends with log.Fatalf.
RegisterFails(p) ==
  /\ schemaOf[p] = None
  /\ \E schema \in Schemas : registry' = Registered(schema)
  /\ UNCHANGED <<topic, stored, publisher, cache, call, boots>>

\* A publisher ends.
Stop(p) ==
  /\ schemaOf[p] # None
  /\ schemaOf' = [schemaOf EXCEPT ![p] = None]
  /\ codecId' = [codecId EXCEPT ![p] = 0]
  /\ UNCHANGED <<registry, topic, stored, cache, call, boots>>

\* Codec.Encode
Encoded(p, e) ==
  [kind |-> "avro", id |-> codecId[p], wrote |-> schemaOf[p],
   data |-> Narrowed(e)]

Send(m) ==
  /\ Len(topic) < TopicLimit
  /\ topic' = Append(topic, m)
  /\ UNCHANGED <<registry, stored, publisher, cache, call, boots>>

WithOrigin(m, e) ==
  [kind |-> m.kind, id |-> m.id, wrote |-> m.wrote, data |-> m.data, of |-> e]

\* An event is encoded and published.
Publish(p) ==
  /\ schemaOf[p] # None
  /\ \E e \in Events : Send(WithOrigin(Encoded(p, e), e))

\* The replay tool makes an event of a row and encodes it again.
Republish(p) ==
  /\ p \in Replayers
  /\ schemaOf[p] # None
  /\ \E r \in stored : Send(WithOrigin(Encoded(p, Widened(r.row)), r.of))

\* Messages that no codec of the pipeline has written: too short or without
\* the magic byte, or with an id that the registry does not have.
Stray == \E m \in [kind : {"badHeader"}] \cup [kind : {"stray"}, id : {3}] : Send(m)

-----------------------------------------------------------------------------
At(c, pc) == call[c].pc = pc
Message(c) == topic[call[c].msg]
Move(c, pc) == call' = [call EXCEPT ![c].pc = pc]
Others == <<registry, topic, publisher, boots>>

\* Decode is called with a message; its header is checked.
DecodeHeader(c) ==
  /\ At(c, "idle")
  /\ \E i \in DOMAIN topic :
       call' = [call EXCEPT ![c] =
                  [pc |-> IF topic[i].kind = "badHeader"
                            THEN "failed" ELSE "lookup",
                   msg |-> i, schema |-> None]]
  /\ UNCHANGED <<Others, stored, cache>>

\* GetByID, under the read lock: the cache has the schema, or it is asked for.
Lookup(c) ==
  /\ At(c, "lookup")
  /\ LET s == cache[Message(c).id] IN
     call' = [call EXCEPT ![c].pc = IF s = None THEN "request" ELSE "unmarshal",
                          ![c].schema = s]
  /\ UNCHANGED <<Others, stored, cache>>

\* GetByID, without a lock: the registry answers ...
Answer(c) ==
  /\ At(c, "request")
  /\ Message(c).id \in DOMAIN registry
  /\ call' = [call EXCEPT ![c].pc = "store",
                          ![c].schema = registry[Message(c).id]]
  /\ UNCHANGED <<Others, stored, cache>>

CacheAfterErrorBug(c) == [cache EXCEPT ![Message(c).id] = "v1"]

\* An error leaves nothing in the cache.
CacheAfterError(c) == cache

\* ... or it does not know the id, or it cannot be reached.
AnswerIsError(c) ==
  /\ At(c, "request")
  /\ Move(c, "failed")
  /\ cache' = CacheAfterError(c)
  /\ UNCHANGED <<Others, stored>>

\* GetByID, under the lock again, after any other caller has done the same.
Store(c) ==
  /\ At(c, "store")
  /\ cache' = [cache EXCEPT ![Message(c).id] = call[c].schema]
  /\ Move(c, "unmarshal")
  /\ UNCHANGED <<Others, stored>>

\* A payload without the fields of v2 is too short for it; bytes that are left
\* after the last field are ignored.
Parses(m, schema) == m.kind = "avro" /\ (m.wrote = schema \/ schema = "v1")

\* avro.Unmarshal with the schema that was looked up
Unmarshal(c) ==
  /\ At(c, "unmarshal")
  /\ Move(c, IF Parses(Message(c), call[c].schema) THEN "decoded" ELSE "garbled")
  /\ UNCHANGED <<Others, stored, cache>>

\* The decoded event is written to the sink, as a row.
ToSink(c) ==
  /\ At(c, "decoded")
  /\ stored' = stored \cup {[row |-> Narrowed(Widened(Message(c).data)),
                             of |-> Message(c).of]}
  /\ call' = [call EXCEPT ![c] = Idle]
  /\ UNCHANGED <<Others, cache>>

\* A failed Decode is over.
GiveUp(c) ==
  /\ call[c].pc \in {"failed", "garbled"}
  /\ call' = [call EXCEPT ![c] = Idle]
  /\ UNCHANGED <<Others, stored, cache>>

\* The consumer starts again, with an empty cache.
RestartConsumer ==
  /\ cache' = [i \in Ids |-> None]
  /\ call' = [c \in Callers |-> Idle]
  /\ UNCHANGED <<Others, stored>>

Decode(c) ==
  \/ DecodeHeader(c) \/ Lookup(c) \/ Answer(c) \/ AnswerIsError(c) \/ Store(c)
  \/ Unmarshal(c) \/ ToSink(c) \/ GiveUp(c)

Next ==
  \/ \E p \in Publishers :
       Register(p) \/ RegisterFails(p) \/ Stop(p) \/ Publish(p) \/ Republish(p)
  \/ Stray
  \/ \E c \in Callers : Decode(c)
  \/ RestartConsumer

Spec == Init /\ [][Next]_vars

-----------------------------------------------------------------------------
\* The messages of the pipeline's own codecs.
Own == {i \in DOMAIN topic : topic[i].kind = "avro"}

(***************************************************************************)
(* Readers and writers agree on what an id means, whatever lookups overlap *)
(* or fail and whichever services start or end between: the registry's     *)
(* schema under a message's id is the one the message was written with,    *)
(* and what the cache, or a lookup on its way to it, holds for an id is    *)
(* the registry's.  So a message of the pipeline never fails to parse.     *)
(***************************************************************************)
CacheIsTrue ==
  /\ \A i \in Own : topic[i].id \in DOMAIN registry
                    /\ registry[topic[i].id] = topic[i].wrote
  /\ \A id \in Ids : cache[id] # None =>
       id \in DOMAIN registry /\ cache[id] = registry[id]
  /\ \A c \in Callers : At(c, "garbled") => call[c].msg \notin Own

(***************************************************************************)
(* What is lost is lost once: however often an event is encoded, stored    *)
(* and replayed, by services of either schema, every message and every row *)
(* of it holds what its first encoding would hold.                         *)
(***************************************************************************)
SameEvent ==
  /\ \A i \in Own : topic[i].data = Narrowed(topic[i].of)
  /\ \A r \in stored : r.row = Narrowed(r.of)
=============================================================================
