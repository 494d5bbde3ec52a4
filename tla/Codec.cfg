\* Two services that encode, started three times, with either schema; two
\* decoding callers that share a cache; a message can be replayed and replayed
\* again.  An int32 has three bits here and a second two units.
SPECIFICATION Spec
CONSTANTS
  Publishers <- TwoPublishers
  Replayers <- OneReplayer
  Callers = {c1, c2}
  Events <- OneEvent
  Half = 4
  Units = 2
  TopicLimit = 3
  BootLimit = 3
SYMMETRY CallerSymmetry
INVARIANTS
  TypeOK
  CacheIsTrue
  SameEvent
