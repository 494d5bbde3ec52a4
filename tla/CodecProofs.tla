---------------------------- MODULE CodecProofs ----------------------------
(***************************************************************************)
(* What an event is after any number of rounds through the pipeline, and   *)
(* what an id means to whoever reads it: for all services and callers, for *)
(* every width of an integer and unit of time.                             *)
(***************************************************************************)
EXTENDS Codec, TLAPS

LEMMA Remainder ==
  ASSUME NEW n \in Int, NEW w \in Nat \ {0}
  PROVE  n % w \in Nat /\ n % w < w
  OBVIOUS

LEMMA SmallRemainder ==
  ASSUME NEW n \in Nat, NEW w \in Nat \ {0}, n < w
  PROVE  n % w = n
  OBVIOUS

LEMMA Quotient ==
  ASSUME NEW s \in Int, NEW u \in Nat \ {0}
  PROVE  s \div u \in Int /\ (s * u) \div u = s /\ s * u \in Int
  OBVIOUS

\* A number that fits is not changed by a second conversion.
LEMMA Int32Twice ==
  ASSUME NEW n \in Int
  PROVE  Int32(n) \in Int /\ Int32(Int32(n)) = Int32(n)
<1> DEFINE w == 2 * Half
           m == (n + Half) % w
<1>1. Half \in Int /\ w \in Nat \ {0} /\ n + Half \in Int
  BY CodecAssumption
<1>2. m \in Nat /\ m < w
  <2> HIDE DEF w
  <2>1. QED
    BY <1>1, Remainder
<1>3. m % w = m
  <2> HIDE DEF w, m
  <2>1. QED
    BY <1>1, <1>2, SmallRemainder
<1>4. Int32(n) = m - Half
  BY DEF Int32
<1>5. Int32(m - Half) = ((m - Half + Half) % w) - Half
  BY DEF Int32
<1>6. m - Half + Half = m
  <2> HIDE DEF m
  <2>1. QED
    BY <1>1, <1>2
<1> HIDE DEF m, w
<1>7. QED
  BY <1>1, <1>2, <1>3, <1>4, <1>5, <1>6

\* A time that is a full second is not changed by a second conversion.
LEMMA UnixTwice ==
  ASSUME NEW t \in Int
  PROVE  /\ Unix(t) \in Int /\ FromUnix(Unix(t)) \in Int
         /\ Unix(FromUnix(Unix(t))) = Unix(t)
<1>1. Units \in Nat \ {0}
  BY CodecAssumption
<1>2. t \div Units \in Int
  BY <1>1, Quotient
<1>3. QED
  BY <1>1, <1>2, Quotient DEF Unix, FromUnix

(***************************************************************************)
(* What an event keeps in a message or a row it keeps for good: encoding   *)
(* what was decoded gives the same again.                                  *)
(***************************************************************************)
LEMMA NarrowedTwice ==
  ASSUME NEW e \in Event
  PROVE  /\ Narrowed(e) \in Payload
         /\ Widened(Narrowed(e)) \in Event
         /\ Narrowed(Widened(Narrowed(e))) = Narrowed(e)
<1>1. e.namespace \in Int /\ e.time \in Int
  BY DEF Event
<1>2. /\ Int32(e.namespace) \in Int
      /\ Int32(Int32(e.namespace)) = Int32(e.namespace)
  BY <1>1, Int32Twice
<1>3. /\ Unix(e.time) \in Int /\ FromUnix(Unix(e.time)) \in Int
      /\ Unix(FromUnix(Unix(e.time))) = Unix(e.time)
  BY <1>1, UnixTwice
<1>4. QED
  BY <1>2, <1>3 DEF Narrowed, Widened, Payload, Event

-----------------------------------------------------------------------------
\* A registry gives an id once.
Injective(r) == \A i, j \in DOMAIN r : r[i] = r[j] => i = j

\* Every id of r means the same in s.
Extends(s, r) == \A i \in DOMAIN r : i \in DOMAIN s /\ s[i] = r[i]

(***************************************************************************)
(* What Register does to the registry, and what its answer means in it.    *)
(***************************************************************************)
LEMMA RegisteredFacts ==
  ASSUME registry \in Seq(Schemas), Injective(registry),
         NEW schema \in Schemas
  PROVE  /\ Registered(schema) \in Seq(Schemas)
         /\ Len(Registered(schema)) >= Len(registry)
         /\ Injective(Registered(schema))
         /\ Extends(Registered(schema), registry)
         /\ NewId(schema) \in DOMAIN Registered(schema)
         /\ Registered(schema)[NewId(schema)] = schema
<1>1. CASE Known(schema)
  <2>1. Registered(schema) = registry
    BY <1>1 DEF Registered
  <2>2. \E i \in DOMAIN registry : registry[i] = schema
    BY <1>1 DEF Known
  <2>3. QED
    BY <2>1, <2>2 DEF NewId, Extends
<1>2. CASE ~Known(schema)
  <2>1. Registered(schema) = Append(registry, schema)
    BY <1>2 DEF Registered
  <2>2. /\ Append(registry, schema) \in Seq(Schemas)
        /\ Len(Append(registry, schema)) = Len(registry) + 1
        /\ DOMAIN Append(registry, schema) = 1..(Len(registry) + 1)
        /\ DOMAIN registry = 1..Len(registry)
        /\ Len(registry) \in Nat
        /\ Append(registry, schema)[Len(registry) + 1] = schema
        /\ \A i \in 1..Len(registry) :
             Append(registry, schema)[i] = registry[i]
    OBVIOUS
  <2>3. \A i \in DOMAIN registry : registry[i] # schema
    BY <1>2 DEF Known
  <2>4. Injective(Append(registry, schema))
    BY <2>2, <2>3 DEF Injective
  <2>5. Extends(Append(registry, schema), registry)
    BY <2>2 DEF Extends
  <2>6. \E i \in DOMAIN Registered(schema) : Registered(schema)[i] = schema
    BY <2>1, <2>2
  <2>7. /\ NewId(schema) \in DOMAIN Registered(schema)
        /\ Registered(schema)[NewId(schema)] = schema
    BY <2>6 DEF NewId
  <2>8. QED
    BY <2>1, <2>2, <2>4, <2>5, <2>7
<1>3. QED
  BY <1>1, <1>2

\* There are two schemas, so there are at most two ids.
LEMMA TwoIds ==
  ASSUME NEW r \in Seq(Schemas), Injective(r)
  PROVE  Len(r) <= 2
<1> SUFFICES ASSUME Len(r) > 2 PROVE FALSE
  OBVIOUS
<1>1. /\ 1 \in DOMAIN r /\ 2 \in DOMAIN r /\ 3 \in DOMAIN r
      /\ r[1] \in Schemas /\ r[2] \in Schemas /\ r[3] \in Schemas
  OBVIOUS
<1>2. QED
  BY <1>1 DEF Injective, Schemas

-----------------------------------------------------------------------------
\* A codec that is registered has the id of its schema.
PublishersKnow ==
  \A p \in Publishers : schemaOf[p] # None =>
    codecId[p] \in DOMAIN registry /\ registry[codecId[p]] = schemaOf[p]

(***************************************************************************)
(* A caller that looks a schema up has a message with an id; the schema it *)
(* has been given is the one that the registry has under that id.          *)
(***************************************************************************)
CallKnows(c) ==
  /\ call[c].pc \in {"lookup", "request", "store", "unmarshal"} =>
       call[c].msg \in DOMAIN topic /\ Message(c).kind # "badHeader"
  /\ call[c].pc \in {"store", "unmarshal"} =>
       Message(c).id \in DOMAIN registry
       /\ registry[Message(c).id] = call[c].schema
  /\ call[c].pc = "decoded" => call[c].msg \in Own

CodecInv ==
  /\ TypeOK
  /\ Injective(registry)
  /\ PublishersKnow
  /\ \A c \in Callers : CallKnows(c)
  /\ CacheIsTrue
  /\ SameEvent

LEMMA CodecInit == Init => CodecInv
<1> SUFFICES ASSUME Init PROVE CodecInv
  OBVIOUS
<1> USE DEF Init
<1>1. TypeOK
  <2>1. BootLimit \in Nat
    BY CodecAssumption
  <2>2. /\ registry \in Seq(Schemas) /\ Len(registry) <= 2
        /\ topic \in Seq(Messages) /\ Len(topic) = 0
        /\ Len(registry) = 0
    OBVIOUS
  <2>3. Idle \in [pc : Labels, msg : 0..Len(topic),
                  schema : Schemas \cup {None}]
    BY <2>2 DEF Idle, Labels
  <2>4. QED
    BY <2>1, <2>2, <2>3 DEF TypeOK
<1>2. Own = {} /\ DOMAIN registry = {}
  BY DEF Own
<1>3. \A c \in Callers : call[c] = Idle
  OBVIOUS
<1>4. Injective(registry) /\ PublishersKnow /\ \A c \in Callers : CallKnows(c)
  BY <1>2, <1>3 DEF Injective, PublishersKnow, CallKnows, Idle
<1>5. CacheIsTrue /\ SameEvent
  BY <1>2, <1>3 DEF CacheIsTrue, SameEvent, At, Idle
<1>6. QED
  BY <1>1, <1>4, <1>5 DEF CodecInv

\* The registry learns a schema or knows it: no id changes its meaning.
LEMMA RegistryStep ==
  ASSUME CodecInv, NEW schema \in Schemas, registry' = Registered(schema),
         UNCHANGED <<topic, stored, cache, call>>
  PROVE  /\ registry' \in Seq(Schemas) /\ Len(registry') <= 2
         /\ Len(registry') >= Len(registry)
         /\ Injective(registry)' /\ Extends(registry', registry)
         /\ NewId(schema) \in DOMAIN registry'
         /\ registry'[NewId(schema)] = schema
         /\ \A c \in Callers : CallKnows(c)'
         /\ CacheIsTrue' /\ SameEvent'
<1>1. /\ registry' \in Seq(Schemas)
      /\ Len(registry') >= Len(registry)
      /\ Injective(registry') /\ Extends(registry', registry)
      /\ NewId(schema) \in DOMAIN registry'
      /\ registry'[NewId(schema)] = schema
  BY RegisteredFacts DEF CodecInv, TypeOK
<1>2. Len(registry') <= 2
  BY <1>1, TwoIds
<1>3. Injective(registry)'
  BY <1>1 DEF Injective
<1>4. Own' = Own /\ \A c : Message(c)' = Message(c)
  BY DEF Own, Message
<1>5. \A c \in Callers : CallKnows(c)'
  BY <1>1, <1>4 DEF CodecInv, CallKnows, Extends
<1>6. CacheIsTrue'
  BY <1>1, <1>4 DEF CodecInv, CacheIsTrue, At, Extends
<1>7. SameEvent'
  BY <1>4 DEF CodecInv, SameEvent
<1>8. QED
  BY <1>1, <1>2, <1>3, <1>5, <1>6, <1>7

LEMMA RegisterStep ==
  ASSUME CodecInv, NEW p \in Publishers, Register(p)
  PROVE  CodecInv'
<1>1. PICK schema \in Schemas :
        /\ registry' = Registered(schema)
        /\ schemaOf' = [schemaOf EXCEPT ![p] = schema]
        /\ codecId' = [codecId EXCEPT ![p] = NewId(schema)]
  BY DEF Register
<1>2. UNCHANGED <<topic, stored, cache, call>>
  BY DEF Register
<1>3. /\ registry' \in Seq(Schemas) /\ Len(registry') <= 2
      /\ Len(registry') >= Len(registry)
      /\ Injective(registry)' /\ Extends(registry', registry)
      /\ NewId(schema) \in DOMAIN registry'
      /\ registry'[NewId(schema)] = schema
      /\ \A c \in Callers : CallKnows(c)'
      /\ CacheIsTrue' /\ SameEvent'
  BY <1>1, <1>2, RegistryStep
<1>4. TypeOK'
  <2>1. boots' \in 0..BootLimit
    BY CodecAssumption DEF Register, CodecInv, TypeOK
  <2>2. NewId(schema) \in 0..Len(registry')
    BY <1>3
  <2>3. 0..Len(registry) \subseteq 0..Len(registry')
    BY <1>3 DEF CodecInv, TypeOK
  <2>4. codecId' \in [Publishers -> 0..Len(registry')]
    BY <1>1, <2>2, <2>3 DEF CodecInv, TypeOK
  <2>5. schemaOf' \in [Publishers -> Schemas \cup {None}]
    BY <1>1 DEF CodecInv, TypeOK
  <2>6. QED
    BY <1>2, <1>3, <2>1, <2>4, <2>5 DEF CodecInv, TypeOK
<1>5. PublishersKnow'
  BY <1>1, <1>3 DEF CodecInv, TypeOK, PublishersKnow, Extends
<1>6. QED
  BY <1>3, <1>4, <1>5 DEF CodecInv

LEMMA RegisterFailsStep ==
  ASSUME CodecInv, NEW p \in Publishers, RegisterFails(p)
  PROVE  CodecInv'
<1>1. PICK schema \in Schemas : registry' = Registered(schema)
  BY DEF RegisterFails
<1>2. UNCHANGED <<topic, stored, schemaOf, codecId, cache, call, boots>>
  BY DEF RegisterFails, publisher
<1>3. /\ registry' \in Seq(Schemas) /\ Len(registry') <= 2
      /\ Len(registry') >= Len(registry)
      /\ Injective(registry)' /\ Extends(registry', registry)
      /\ \A c \in Callers : CallKnows(c)'
      /\ CacheIsTrue' /\ SameEvent'
  BY <1>1, <1>2, RegistryStep
<1>4. TypeOK'
  <2>1. 0..Len(registry) \subseteq 0..Len(registry')
    BY <1>3 DEF CodecInv, TypeOK
  <2>2. QED
    BY <1>2, <1>3, <2>1 DEF CodecInv, TypeOK
<1>5. PublishersKnow'
  BY <1>2, <1>3 DEF CodecInv, PublishersKnow, Extends
<1>6. QED
  BY <1>3, <1>4, <1>5 DEF CodecInv

LEMMA StopStep ==
  ASSUME CodecInv, NEW p \in Publishers, Stop(p)
  PROVE  CodecInv'
<1>1. UNCHANGED <<registry, topic, stored, cache, call, boots>>
  BY DEF Stop
<1>2. TypeOK'
  BY <1>1 DEF Stop, CodecInv, TypeOK
<1>3. PublishersKnow'
  BY <1>1 DEF Stop, CodecInv, TypeOK, PublishersKnow
<1>4. Own' = Own /\ \A c : Message(c)' = Message(c)
  BY <1>1 DEF Own, Message
<1>5. \A c \in Callers : CallKnows(c)'
  BY <1>1, <1>4 DEF CodecInv, CallKnows
<1>6. CacheIsTrue' /\ SameEvent' /\ Injective(registry)'
  BY <1>1, <1>4 DEF CodecInv, CacheIsTrue, SameEvent, At, Injective
<1>7. QED
  BY <1>2, <1>3, <1>5, <1>6 DEF CodecInv

-----------------------------------------------------------------------------
\* A message whose id means what it was written with may join the topic.
LEMMA SendStep ==
  ASSUME CodecInv, NEW m \in Messages, Send(m),
         m.kind = "avro" => /\ m.id \in DOMAIN registry
                            /\ registry[m.id] = m.wrote
                            /\ m.data = Narrowed(m.of)
  PROVE  CodecInv'
<1>1. /\ topic' = Append(topic, m)
      /\ UNCHANGED <<registry, stored, schemaOf, codecId, cache, call, boots>>
  BY DEF Send, publisher
<1>2. /\ topic \in Seq(Messages) /\ topic' \in Seq(Messages)
      /\ Len(topic') = Len(topic) + 1
      /\ Len(topic) \in Nat
      /\ DOMAIN topic = 1..Len(topic)
      /\ DOMAIN topic' = 1..(Len(topic) + 1)
      /\ \A i \in 1..Len(topic) : topic'[i] = topic[i]
      /\ topic'[Len(topic) + 1] = m
  BY <1>1 DEF CodecInv, TypeOK
<1>3. TypeOK'
  <2>1. 0..Len(topic) \subseteq 0..Len(topic')
    BY <1>2
  <2>2. QED
    BY <1>1, <1>2, <2>1 DEF CodecInv, TypeOK
<1>4. \A i \in Own' : i \in Own \/ (i = Len(topic) + 1 /\ m.kind = "avro")
  BY <1>2 DEF Own
<1>5. \A i \in DOMAIN topic : i \in Own' <=> i \in Own
  BY <1>2 DEF Own
<1>6. Own \subseteq DOMAIN topic
  BY DEF Own
<1>7. \A c \in Callers : CallKnows(c)'
  BY <1>1, <1>2, <1>5, <1>6 DEF CodecInv, CallKnows, Message
<1>8. \A c \in Callers : call[c].msg \in DOMAIN topic \/ call[c].msg = 0
  BY <1>2 DEF CodecInv, TypeOK
<1>9. CacheIsTrue'
  <2>1. \A i \in Own' : topic'[i].id \in DOMAIN registry
                        /\ registry[topic'[i].id] = topic'[i].wrote
    BY <1>2, <1>4, <1>6 DEF CodecInv, CacheIsTrue
  <2>2. \A c \in Callers : call[c].pc = "garbled" => call[c].msg \notin Own'
    <3>1. 0 \notin Own'
      BY <1>2 DEF Own
    <3>2. QED
      BY <1>5, <1>8, <3>1 DEF CodecInv, CacheIsTrue, At
  <2>3. QED
    BY <1>1, <2>1, <2>2 DEF CodecInv, CacheIsTrue, At
<1>10. SameEvent'
  BY <1>1, <1>2, <1>4, <1>6 DEF CodecInv, SameEvent
<1>11. PublishersKnow' /\ Injective(registry)'
  BY <1>1 DEF CodecInv, PublishersKnow, Injective
<1>12. QED
  BY <1>3, <1>7, <1>9, <1>10, <1>11 DEF CodecInv

\* A registered codec encodes an event under the id of its own schema.
LEMMA EncodedMeans ==
  ASSUME CodecInv, NEW p \in Publishers, schemaOf[p] # None,
         NEW e \in Event, NEW o \in Event, Narrowed(e) = Narrowed(o),
         NEW m, m = WithOrigin(Encoded(p, e), o)
  PROVE  /\ m \in Messages
         /\ m.id \in DOMAIN registry /\ registry[m.id] = m.wrote
         /\ m.data = Narrowed(m.of)
<1>1. m = [kind |-> "avro", id |-> codecId[p], wrote |-> schemaOf[p],
           data |-> Narrowed(e), of |-> o]
  BY DEF WithOrigin, Encoded
<1>2. codecId[p] \in Ids /\ schemaOf[p] \in Schemas
  <2>1. Len(registry) <= 2 /\ Len(registry) \in Nat
    BY DEF CodecInv, TypeOK
  <2>2. codecId[p] \in 0..Len(registry)
    BY DEF CodecInv, TypeOK
  <2>3. QED
    BY <2>1, <2>2 DEF CodecInv, TypeOK, Ids
<1>3. Narrowed(e) \in Payload
  BY NarrowedTwice
<1>4. m \in Messages
  BY <1>1, <1>2, <1>3 DEF Messages
<1>5. QED
  BY <1>1, <1>4 DEF CodecInv, PublishersKnow

LEMMA PublishStep ==
  ASSUME CodecInv, Stray \/ \E p \in Publishers : Publish(p) \/ Republish(p)
  PROVE  CodecInv'
<1>1. ASSUME NEW p \in Publishers, Publish(p) PROVE CodecInv'
  <2>1. PICK e \in Events : Send(WithOrigin(Encoded(p, e), e))
    BY <1>1 DEF Publish
  <2>2. e \in Event
    BY CodecAssumption DEF Event
  <2>3. QED
    BY <1>1, <2>1, <2>2, EncodedMeans, SendStep DEF Publish
<1>2. ASSUME NEW p \in Publishers, Republish(p) PROVE CodecInv'
  <2>1. PICK r \in stored : Send(WithOrigin(Encoded(p, Widened(r.row)), r.of))
    BY <1>2 DEF Republish
  <2>2. r.of \in Event /\ r.row = Narrowed(r.of)
    BY DEF CodecInv, TypeOK, SameEvent
  <2>3. /\ Widened(r.row) \in Event
        /\ Narrowed(Widened(r.row)) = Narrowed(r.of)
    BY <2>2, NarrowedTwice
  <2>4. QED
    BY <1>2, <2>1, <2>2, <2>3, EncodedMeans, SendStep DEF Republish
<1>3. CASE Stray
  <2>1. PICK m \in [kind : {"badHeader"}] \cup [kind : {"stray"}, id : {3}] :
          Send(m)
    BY <1>3 DEF Stray
  <2>2. m \in Messages /\ m.kind # "avro"
    BY DEF Messages, Ids
  <2>3. QED
    BY <2>1, <2>2, SendStep
<1>4. QED
  BY <1>1, <1>2, <1>3

-----------------------------------------------------------------------------
\* What the steps of Decode have in common: the topic and the registry stay,
\* and so does what is said of every other caller.
LEMMA CallStep ==
  ASSUME CodecInv, NEW c \in Callers, UNCHANGED Others,
         NEW new \in [pc : Labels, msg : 0..Len(topic),
                      schema : Schemas \cup {None}],
         call' = [call EXCEPT ![c] = new],
         cache' \in [Ids -> Schemas \cup {None}],
         \A id \in Ids : cache'[id] # None =>
           id \in DOMAIN registry /\ cache'[id] = registry[id],
         stored' \subseteq [row : Payload, of : Event],
         \A r \in stored' : r.row = Narrowed(r.of),
         CallKnows(c)',
         new.pc = "garbled" => new.msg \notin Own
  PROVE  CodecInv'
<1>1. UNCHANGED <<registry, topic, schemaOf, codecId, boots>>
  BY DEF Others, publisher
<1>2. Own' = Own
  BY <1>1 DEF Own
<1>3. call \in [Callers -> [pc : Labels, msg : 0..Len(topic),
                            schema : Schemas \cup {None}]]
  BY DEF CodecInv, TypeOK
<1>4. TypeOK'
  BY <1>1, <1>3 DEF CodecInv, TypeOK
<1>5. \A d \in Callers : CallKnows(d)'
  <2> SUFFICES ASSUME NEW d \in Callers, d # c PROVE CallKnows(d)'
    OBVIOUS
  <2>1. call'[d] = call[d]
    BY <1>3
  <2>2. Message(d)' = Message(d)
    BY <1>1, <2>1 DEF Message
  <2>3. QED
    BY <1>1, <1>2, <2>1, <2>2 DEF CodecInv, CallKnows
<1>6. CacheIsTrue'
  BY <1>1, <1>2, <1>3 DEF CodecInv, CacheIsTrue, At
<1>7. SameEvent'
  BY <1>1, <1>2 DEF CodecInv, SameEvent
<1>8. PublishersKnow' /\ Injective(registry)'
  BY <1>1 DEF CodecInv, PublishersKnow, Injective
<1>9. QED
  BY <1>4, <1>5, <1>6, <1>7, <1>8 DEF CodecInv

LEMMA DecodeStep ==
  ASSUME CodecInv, NEW c \in Callers, Decode(c)
  PROVE  CodecInv'
<1> DEFINE Calls == [pc : Labels, msg : 0..Len(topic),
                     schema : Schemas \cup {None}]
<1>1. /\ call \in [Callers -> Calls] /\ topic \in Seq(Messages)
      /\ cache \in [Ids -> Schemas \cup {None}]
      /\ stored \subseteq [row : Payload, of : Event]
      /\ registry \in Seq(Schemas)
      /\ CallKnows(c) /\ CacheIsTrue /\ SameEvent
  BY DEF CodecInv, TypeOK
<1>2. /\ UNCHANGED Others
      /\ UNCHANGED registry /\ UNCHANGED topic
  BY DEF Decode, DecodeHeader, Lookup, Answer, AnswerIsError, Store, Unmarshal,
         ToSink, GiveUp, Others
<1>3. \A id \in Ids : cache[id] # None =>
        id \in DOMAIN registry /\ cache[id] = registry[id]
  BY <1>1 DEF CacheIsTrue
<1>4. \A r \in stored : r.row = Narrowed(r.of)
  BY <1>1 DEF SameEvent
<1>5. Own' = Own
  BY <1>2 DEF Own
<1>6. \A i \in DOMAIN topic : topic[i].kind # "badHeader" => topic[i].id \in Ids
  <2> SUFFICES ASSUME NEW i \in DOMAIN topic, topic[i].kind # "badHeader"
               PROVE  topic[i].id \in Ids
    OBVIOUS
  <2>1. topic[i] \in Messages
    BY <1>1
  <2>2. QED
    BY <2>1 DEF Messages
\* A step that leaves the cache and the sink alone
<1>7. ASSUME NEW new \in Calls, call' = [call EXCEPT ![c] = new],
             UNCHANGED <<cache, stored>>, CallKnows(c)',
             new.pc = "garbled" => new.msg \notin Own
      PROVE  CodecInv'
  BY <1>1, <1>2, <1>3, <1>4, <1>7, CallStep
<1>8. CASE DecodeHeader(c)
  <2>1. PICK i \in DOMAIN topic :
          call' = [call EXCEPT ![c] =
                     [pc |-> IF topic[i].kind = "badHeader"
                               THEN "failed" ELSE "lookup",
                      msg |-> i, schema |-> None]]
    BY <1>8 DEF DecodeHeader
  <2> DEFINE new == [pc |-> IF topic[i].kind = "badHeader"
                              THEN "failed" ELSE "lookup",
                     msg |-> i, schema |-> None]
  <2>2. i \in 0..Len(topic)
    BY <1>1
  <2>3. new \in Calls
    BY <2>2 DEF Labels
  <2>4. call'[c] = new
    BY <1>1, <2>1
  <2>5. CallKnows(c)'
    BY <1>2, <2>4 DEF CallKnows, Message
  <2>6. QED
    BY <1>7, <1>8, <2>1, <2>3, <2>5 DEF DecodeHeader
<1>9. CASE Lookup(c)
  <2> DEFINE s == cache[Message(c).id]
             new == [call[c] EXCEPT !.pc = IF s = None THEN "request"
                                                       ELSE "unmarshal",
                                    !.schema = s]
  <2>1. /\ call[c].pc = "lookup" /\ call[c].msg \in DOMAIN topic
        /\ Message(c).kind # "badHeader" /\ Message(c).id \in Ids
    BY <1>1, <1>6, <1>9 DEF Lookup, At, CallKnows, Message
  <2>2. call' = [call EXCEPT ![c] = new]
    BY <1>1, <1>9 DEF Lookup
  <2>3. new \in Calls
    BY <1>1, <2>1 DEF Labels
  <2>4. /\ call'[c].msg = call[c].msg /\ call'[c].schema = s
        /\ call'[c].pc = IF s = None THEN "request" ELSE "unmarshal"
    BY <1>1, <2>2
  <2>5. Message(c)' = Message(c)
    BY <1>2, <2>4 DEF Message
  <2>6. s # None => Message(c).id \in DOMAIN registry
                    /\ s = registry[Message(c).id]
    BY <1>3, <2>1
  <2>7. CallKnows(c)'
    <3> HIDE DEF s
    <3>1. QED
      BY <1>2, <2>1, <2>4, <2>5, <2>6 DEF CallKnows
  <2>8. QED
    BY <1>1, <1>7, <1>9, <2>2, <2>3, <2>7 DEF Lookup
<1>10. CASE Answer(c)
  <2> DEFINE new == [call[c] EXCEPT !.pc = "store",
                                    !.schema = registry[Message(c).id]]
  <2>1. /\ call[c].pc = "request" /\ call[c].msg \in DOMAIN topic
        /\ Message(c).kind # "badHeader"
        /\ Message(c).id \in DOMAIN registry
    BY <1>1, <1>10 DEF Answer, At, CallKnows
  <2>2. call' = [call EXCEPT ![c] = new]
    BY <1>1, <1>10 DEF Answer
  <2>3. new \in Calls
    <3>1. registry[Message(c).id] \in Schemas
      BY <1>1, <2>1
    <3>2. call[c] \in Calls /\ "store" \in Labels
      BY <1>1 DEF Labels
    <3>3. QED
      BY <3>1, <3>2
  <2>4. call'[c] = new /\ call'[c].msg = call[c].msg
    BY <1>1, <2>2
  <2>5. Message(c)' = Message(c)
    BY <1>2, <2>4 DEF Message
  <2>6. CallKnows(c)'
    BY <1>1, <1>2, <2>1, <2>4, <2>5 DEF CallKnows
  <2>7. QED
    BY <1>1, <1>7, <1>10, <2>2, <2>3, <2>6 DEF Answer
<1>11. CASE AnswerIsError(c)
  <2> DEFINE new == [call[c] EXCEPT !.pc = "failed"]
  <2>1. call' = [call EXCEPT ![c] = new]
    BY <1>1, <1>11 DEF AnswerIsError, Move
  <2>2. new \in Calls
    BY <1>1 DEF Labels
  <2>3. call'[c] = new
    BY <1>1, <2>1
  <2>4. CallKnows(c)'
    BY <2>3 DEF CallKnows
  <2>5. QED
    BY <1>1, <1>7, <1>11, <2>1, <2>2, <2>4 DEF AnswerIsError, CacheAfterError
<1>12. CASE Store(c)
  <2> DEFINE new == [call[c] EXCEPT !.pc = "unmarshal"]
  <2>1. /\ call[c].pc = "store" /\ call[c].msg \in DOMAIN topic
        /\ Message(c).kind # "badHeader" /\ Message(c).id \in Ids
        /\ Message(c).id \in DOMAIN registry
        /\ registry[Message(c).id] = call[c].schema
    BY <1>1, <1>6, <1>12 DEF Store, At, CallKnows, Message
  <2>2. /\ call' = [call EXCEPT ![c] = new]
        /\ cache' = [cache EXCEPT ![Message(c).id] = call[c].schema]
        /\ stored' = stored
    BY <1>1, <1>12 DEF Store, Move
  <2>3. new \in Calls
    BY <1>1 DEF Labels
  <2>4. call'[c] = new /\ call'[c].msg = call[c].msg
    BY <1>1, <2>2
  <2>5. Message(c)' = Message(c)
    BY <1>2, <2>4 DEF Message
  <2>6. CallKnows(c)'
    BY <1>1, <1>2, <2>1, <2>4, <2>5 DEF CallKnows
  <2>7. cache' \in [Ids -> Schemas \cup {None}]
    BY <1>1, <2>2
  <2>8. \A id \in Ids : cache'[id] # None =>
          id \in DOMAIN registry /\ cache'[id] = registry[id]
    BY <1>1, <1>3, <2>1, <2>2
  <2>9. QED
    BY <1>1, <1>2, <1>4, <2>2, <2>3, <2>6, <2>7, <2>8, CallStep
<1>13. CASE Unmarshal(c)
  <2> DEFINE ok == Parses(Message(c), call[c].schema)
             new == [call[c] EXCEPT !.pc = IF ok THEN "decoded" ELSE "garbled"]
  <2>1. /\ call[c].pc = "unmarshal" /\ call[c].msg \in DOMAIN topic
        /\ registry[Message(c).id] = call[c].schema
    BY <1>1, <1>13 DEF Unmarshal, At, CallKnows
  <2>2. call' = [call EXCEPT ![c] = new] /\ UNCHANGED <<cache, stored>>
    BY <1>1, <1>13 DEF Unmarshal, Move
  <2>3. new \in Calls
    BY <1>1 DEF Labels
  <2>4. call'[c] = new /\ call'[c].msg = call[c].msg
    BY <1>1, <2>2
  <2>5. ok => call[c].msg \in Own
    BY <2>1 DEF Parses, Own, Message
  <2>6. call[c].msg \in Own => ok
    BY <1>1, <2>1 DEF Parses, Own, Message, CacheIsTrue
  <2>7. CallKnows(c)'
    BY <1>5, <2>4, <2>5 DEF CallKnows
  <2>8. new.pc = "garbled" => new.msg \notin Own
    BY <1>1, <2>6
  <2>9. QED
    BY <1>7, <2>2, <2>3, <2>7, <2>8
<1>14. Idle \in Calls
  BY <1>1 DEF Idle, Labels
<1>15. CASE ToSink(c)
  <2> DEFINE m == Message(c)
             r == [row |-> Narrowed(Widened(m.data)), of |-> m.of]
  <2>1. /\ call' = [call EXCEPT ![c] = Idle] /\ cache' = cache
        /\ stored' = stored \cup {r}
    BY <1>15 DEF ToSink
  <2>2. call[c].msg \in Own
    BY <1>1, <1>15 DEF ToSink, At, CallKnows
  <2>3. m.of \in Event /\ m.data = Narrowed(m.of)
    <3>1. m \in Messages /\ m.kind = "avro"
      BY <1>1, <2>2 DEF Own, Message
    <3>2. m.of \in Event
      BY <3>1 DEF Messages
    <3>3. QED
      BY <1>1, <2>2, <3>2 DEF SameEvent, Message
  <2>4. r.row = Narrowed(r.of) /\ r \in [row : Payload, of : Event]
    <3>1. r.row = Narrowed(m.of) /\ r.of = m.of
      BY <2>3, NarrowedTwice
    <3>2. QED
      BY <2>3, <3>1, NarrowedTwice
  <2>5. call'[c] = Idle
    BY <1>1, <2>1
  <2>6. CallKnows(c)' /\ Idle.pc # "garbled"
    BY <2>5 DEF CallKnows, Idle
  <2>7. /\ stored' \subseteq [row : Payload, of : Event]
        /\ \A x \in stored' : x.row = Narrowed(x.of)
    <3> HIDE DEF r
    <3>1. QED
      BY <1>1, <1>4, <2>1, <2>4
  <2>8. QED
    BY <1>1, <1>2, <1>3, <1>14, <2>1, <2>6, <2>7, CallStep
<1>16. CASE GiveUp(c)
  <2>1. call' = [call EXCEPT ![c] = Idle] /\ UNCHANGED <<cache, stored>>
    BY <1>16 DEF GiveUp
  <2>2. call'[c] = Idle
    BY <1>1, <2>1
  <2>3. CallKnows(c)' /\ Idle.pc # "garbled"
    BY <2>2 DEF CallKnows, Idle
  <2>4. QED
    BY <1>7, <1>14, <2>1, <2>3
<1>17. QED
  BY <1>8, <1>9, <1>10, <1>11, <1>12, <1>13, <1>15, <1>16 DEF Decode

LEMMA RestartStep ==
  ASSUME CodecInv, RestartConsumer
  PROVE  CodecInv'
<1>1. /\ UNCHANGED <<registry, topic, schemaOf, codecId, boots, stored>>
      /\ cache' = [i \in Ids |-> None]
      /\ call' = [c \in Callers |-> Idle]
  BY DEF RestartConsumer, Others, publisher
<1>2. Own' = Own
  BY <1>1 DEF Own
<1>3. \A c \in Callers : call'[c].pc = "idle"
  BY <1>1 DEF Idle
<1>4. Idle \in [pc : Labels, msg : 0..Len(topic), schema : Schemas \cup {None}]
  <2>1. Len(topic) \in Nat
    BY DEF CodecInv, TypeOK
  <2>2. QED
    BY <2>1 DEF Idle, Labels
<1>5. TypeOK'
  BY <1>1, <1>4 DEF CodecInv, TypeOK
<1>6. \A c \in Callers : CallKnows(c)'
  BY <1>3 DEF CallKnows
<1>7. CacheIsTrue'
  BY <1>1, <1>2, <1>3 DEF CodecInv, CacheIsTrue, At
<1>8. SameEvent' /\ PublishersKnow' /\ Injective(registry)'
  BY <1>1, <1>2 DEF CodecInv, SameEvent, PublishersKnow, Injective
<1>9. QED
  BY <1>5, <1>6, <1>7, <1>8 DEF CodecInv

LEMMA CodecInvHolds == Spec => []CodecInv
<1>1. CodecInv /\ UNCHANGED vars => CodecInv'
  BY DEF CodecInv, vars, publisher, TypeOK, Injective, PublishersKnow,
         CallKnows, CacheIsTrue, SameEvent, Own, Message, At
<1>2. CodecInv /\ [Next]_vars => CodecInv'
  BY <1>1, RegisterStep, RegisterFailsStep, StopStep, PublishStep, DecodeStep,
     RestartStep DEF Next
<1>3. QED
  BY <1>2, CodecInit, PTL DEF Spec

(***************************************************************************)
(* Type correctness: the registry never has more ids than schemas, however *)
(* many services register one, and a codec's id is one of them.            *)
(***************************************************************************)
THEOREM CodecTypes == Spec => []TypeOK
  BY CodecInvHolds, PTL DEF CodecInv

(***************************************************************************)
(* An id means to every reader what it meant to the writer, and a message  *)
(* of the pipeline never fails to parse: for any number of services and of *)
(* callers that share the cache, with lookups that overlap and fail.       *)
(***************************************************************************)
THEOREM CacheStaysTrue == Spec => []CacheIsTrue
  BY CodecInvHolds, PTL DEF CodecInv

(***************************************************************************)
(* However often an event is encoded, stored and replayed it holds what    *)
(* its first encoding holds: for every width of an integer and every unit  *)
(* of time.                                                                *)
(***************************************************************************)
THEOREM EventStaysSame == Spec => []SameEvent
  BY CodecInvHolds, PTL DEF CodecInv
=============================================================================
