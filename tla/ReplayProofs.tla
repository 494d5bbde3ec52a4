---------------------------- MODULE ReplayProofs ----------------------------
(***************************************************************************)
(* Proofs about Replay, for any number of events, days and runs, any range *)
(* of dates and any faults.                                                *)
(***************************************************************************)
EXTENDS Replay, WellFoundedInduction, TLAPS

\* The rows that this run has copied, and where the tool is.
Copied(r) == \E o \in Copies : topic[o].of = r
Replaying == pc \in {"file", "row", "publish"}
InFile == pc \in {"row", "publish"}

(***************************************************************************)
(* The pipeline stores a message in one object, and loses or keeps it.     *)
(***************************************************************************)
StoredOnce ==
  /\ \A o, p \in objects \cup uploading : o # p => o.rows \cap p.rows = {}
  /\ \A o \in objects \cup uploading : o.rows \cap buffered = {}

(***************************************************************************)
(* The tool's place: what is left of the current prefix are objects of the *)
(* bucket under that prefix, and the file at hand is no longer among them. *)
(***************************************************************************)
Place ==
  /\ scanned <= Len(Prefixes)
  /\ pc = "publish" => left # {}
  /\ Replaying => /\ scanned \in 1..Len(Prefixes)
                  /\ keys \subseteq {k \in objects : k.day \in Prefixes[scanned]}
  /\ InFile => file \in objects \ keys /\ file.day \in Prefixes[scanned]

(***************************************************************************)
(* Where a copy comes from: an object in the bucket, under the prefix that *)
(* the run was at.  With StoredOnce, that is the only object that will     *)
(* ever have this row.                                                     *)
(***************************************************************************)
Sources ==
  \A o \in Copies :
    /\ topic[o].at \in 1..scanned
    /\ \E k \in objects :
         topic[o].of \in k.rows /\ k.day \in Prefixes[topic[o].at]

\* What is still to be replayed has no copy yet ...
NotYet ==
  /\ Replaying => \A o \in Copies, k \in keys : topic[o].of \notin k.rows
  /\ InFile => \A o \in Copies : topic[o].of \notin left

\* ... and where it is a copy itself, it was made at an earlier prefix.
Earlier ==
  /\ Replaying =>
       \A k \in keys : \A q \in Copies \cap k.rows : topic[q].at < scanned
  /\ InFile => \A q \in Copies \cap file.rows : topic[q].at < scanned

\* The rows of the file at hand are copied, skipped, or still to come.
FileProgress ==
  InFile => \A r \in file.rows \ (left \cup skipped) : Copied(r)

(***************************************************************************)
(* Where a message is that was asked for and has no copy yet.              *)
(***************************************************************************)
Waits(r) ==
  \E k \in objects :
    /\ r \in k.rows
    /\ \/ k.day \in (From + scanned)..To
       \/ Replaying /\ k \in keys
       \/ InFile /\ k = file /\ r \in left

DueProgress ==
  /\ ~failed /\ ~cancelled => \A r \in due \ skipped : Copied(r) \/ Waits(r)
  /\ pc = "off" /\ runs > 0 => cancelled \/ scanned = Len(Prefixes)

-----------------------------------------------------------------------------
\* The tool publishes rows of the file, each after the other.
LEMMA RowIsLeft ==
  ASSUME left \subseteq Nat, left # {}
  PROVE  Row \in left
<1> DEFINE R == OpToRel(<, Nat)
<1>1. PICK m \in left : \A k \in left : <<k, m>> \notin R
  <2>1. IsWellFoundedOn(R, Nat)
    BY NatLessThanWellFounded
  <2> QED
    BY <2>1, WFMin
<1>2. R = {p \in Nat \X Nat : p[1] < p[2]}
  BY Zenon DEF OpToRel
<1> HIDE DEF R
<1>3. ASSUME NEW k \in left PROVE m <= k
  <2>1. k \in Nat /\ m \in Nat
    OBVIOUS
  <2>2. k < m => <<k, m>> \in R
    <3>1. <<k, m>> \in Nat \X Nat
      BY <2>1
    <3> QED
      BY <1>2, <3>1
  <2> QED
    BY <1>1, <2>1, <2>2
<1> QED
  BY <1>3, Zenon DEF Row, Min

\* A row is an offset, and it was taken.
LEMMA RowFacts ==
  ASSUME TypeOK, left # {}
  PROVE  Row \in left /\ Row \in file.rows /\ Row \in 1..taken /\ Row # 0
<1>1. left \subseteq file.rows /\ file.rows \subseteq 1..taken
  BY DEF TypeOK
<1>2. Row \in left
  <2>1. left \subseteq Nat
    BY <1>1
  <2> QED
    BY <2>1, RowIsLeft
<1>3. Row \in file.rows /\ Row \in 1..taken
  BY <1>1, <1>2
<1> QED
  BY <1>2, <1>3

-----------------------------------------------------------------------------
\* An object of the days, with rows among the messages that were taken.
Typed(o, n) == o.day \in Days /\ o.rows \subseteq 1..n

LEMMA TypeInit == Init => TypeOK
<1> SUFFICES ASSUME Init PROVE TypeOK
    OBVIOUS
<1> USE DEF Init, NoFile, Days
<1>1. cancelled \in BOOLEAN /\ failed \in BOOLEAN
  BY Zenon
<1> QED
  BY <1>1, ReplayAssumption DEF TypeOK

LEMMA FlagTypes == TypeOK /\ [Next]_vars => (cancelled \in BOOLEAN)'
<1> SUFFICES ASSUME TypeOK, [Next]_vars PROVE cancelled' \in BOOLEAN
    OBVIOUS
<1>1. cancelled' = cancelled \/ cancelled' = FALSE \/ cancelled' = TRUE
  BY Zenon DEF Next, Pipeline, Tool, Midnight, Produce, Consume, TakeBatch,
     Upload, Start, Finish, List, ListFails, KeysDone, Download, DownloadFails,
     NextRow, FileDone, Publish, EncodeFails, PublishFails, Signal, vars
<1> QED
  BY <1>1, Zenon DEF TypeOK

LEMMA FailedTypes == TypeOK /\ [Next]_vars => (failed \in BOOLEAN)'
<1> SUFFICES ASSUME TypeOK, [Next]_vars PROVE failed' \in BOOLEAN
    OBVIOUS
<1>1. failed' = failed \/ failed' = FALSE \/ failed' = TRUE
  BY Zenon DEF Next, Pipeline, Tool, Midnight, Produce, Consume, TakeBatch,
     Upload, Start, Finish, List, ListFails, KeysDone, Download, DownloadFails,
     NextRow, FileDone, Publish, EncodeFails, PublishFails, Signal, vars, history
<1> QED
  BY <1>1, Zenon DEF TypeOK

\* TypeOK without the flags.
CoreTypes ==
  /\ today \in Days
  /\ topic \in Seq(Message)
  /\ taken \in 0..Len(topic)
  /\ buffered \subseteq 1..taken
  /\ \A o \in uploading \cup objects \cup keys \cup counted \cup {file} :
       Typed(o, taken)
  /\ pc \in {"off", "prefix", "file", "row", "publish"}
  /\ scanned \in Nat
  /\ left \subseteq file.rows
  /\ runs \in 0..MaxRuns
  /\ start \in 0..Len(topic)
  /\ due \subseteq 1..start
  /\ skipped \subseteq 1..taken

\* What a message appended to the topic leaves as it was.
LEMMA AppendTypes ==
  ASSUME TypeOK, NEW x \in Message, topic' = Append(topic, x)
  PROVE  /\ topic' \in Seq(Message) /\ Len(topic') = Len(topic) + 1
         /\ taken \in 0..Len(topic') /\ start \in 0..Len(topic')
BY DEF TypeOK

LEMMA CopyTypes ==
  ASSUME TypeOK, left # {}
  PROVE  [of |-> Row, at |-> scanned] \in Message
<1>1. Row \in 1..taken
  BY RowFacts
<1> QED
  BY <1>1 DEF Message, TypeOK

\* What is read of an object are rows of it.
LEMMA ReadFacts == \A rows : \A got \in ReadFile(rows) : got \subseteq rows
BY DEF ReadFile

LEMMA CoreTypesStep ==
  TypeOK /\ Place /\ [Next]_vars => CoreTypes'
<1> SUFFICES ASSUME TypeOK, Place, [Next]_vars PROVE CoreTypes'
    OBVIOUS
<1>0. CoreTypes
  BY DEF TypeOK, CoreTypes, Typed
<1> USE DEF pipeline, tool, history
<1>1. CASE Midnight
  BY <1>0, <1>1, ReplayAssumption DEF Midnight, CoreTypes, Days
<1>2. CASE Produce
  <2>1. [of |-> 0, at |-> 0] \in Message
    BY DEF Message
  <2>2. topic' = Append(topic, [of |-> 0, at |-> 0])
    BY <1>2 DEF Produce
  <2> QED
    BY <1>0, <1>2, <2>1, <2>2, AppendTypes DEF Produce, CoreTypes
<1>3. CASE Consume
  <2>1. taken' = taken + 1 /\ taken' \in 0..Len(topic)
    BY <1>3 DEF Consume, HasMessage, TypeOK
  <2>2. \A o : Typed(o, taken) => Typed(o, taken')
    BY <2>1 DEF Typed, TypeOK
  <2>3. buffered' \subseteq 1..taken' /\ skipped \subseteq 1..taken'
    BY <1>3, <2>1 DEF Consume, TypeOK
  <2> QED
    BY <1>0, <1>3, <2>1, <2>2, <2>3 DEF Consume, CoreTypes
<1>4. CASE TakeBatch
  <2>1. Typed([day |-> today, rows |-> buffered], taken)
    BY <1>0 DEF CoreTypes, Typed
  <2>2. /\ uploading' = {[day |-> today, rows |-> buffered]}
        /\ buffered' = {}
        /\ UNCHANGED <<today, topic, taken, objects, tool, history>>
    BY <1>4 DEF TakeBatch
  <2>3. \A o \in (uploading \cup objects \cup keys \cup counted \cup {file})' :
          Typed(o, taken)
    BY <1>0, <2>1, <2>2 DEF CoreTypes
  <2> QED
    BY <1>0, <2>2, <2>3 DEF CoreTypes
<1>5. CASE Upload
  BY <1>0, <1>5 DEF Upload, CoreTypes
<1>6. CASE Start
  <2>1. due' \subseteq 1..Len(topic)
    BY <1>0, <1>6 DEF Start, RowsOf, Asked, CoreTypes, Typed
  <2>2. Typed(NoFile, taken) /\ {} \subseteq NoFile.rows
    BY ReplayAssumption DEF Typed, NoFile, Days
  <2>3. runs' \in 0..MaxRuns /\ Len(topic) \in Nat
    BY <1>0, <1>6, ReplayAssumption DEF Start, CoreTypes
  <2> QED
    BY <1>0, <1>6, <2>1, <2>2, <2>3 DEF Start, CoreTypes
<1>7. CASE Finish \/ KeysDone \/ NextRow
  BY <1>0, <1>7 DEF Finish, KeysDone, NextRow, Goto, CoreTypes
<1>8. CASE List
  <2>1. keys' \subseteq objects
    BY <1>8 DEF List, Listed
  <2> QED
    BY <1>0, <1>8, <2>1 DEF List, CoreTypes
<1>9. CASE ListFails
  BY <1>0, <1>9 DEF ListFails, CoreTypes
<1>10. CASE Download
  <2>1. PICK key \in keys : \E got \in ReadFile(key.rows) :
          /\ keys' = keys \ {key} /\ file' = key /\ left' = got
          /\ skipped' = skipped \cup (key.rows \ got)
    BY <1>10 DEF Download, KeysLeft
  <2>2. left' \subseteq key.rows /\ key.rows \subseteq 1..taken
    BY <1>0, <2>1, ReadFacts DEF CoreTypes, Typed
  <2> QED
    BY <1>0, <1>10, <2>1, <2>2 DEF Download, CoreTypes
<1>11. CASE DownloadFails
  BY <1>0, <1>11 DEF DownloadFails, CoreTypes
<1>12. CASE FileDone
  BY <1>0, <1>12 DEF FileDone, Goto, CoreTypes
<1>13. CASE Publish
  <2>1. topic' = Append(topic, [of |-> Row, at |-> scanned]) /\ left # {}
    BY <1>13 DEF Publish, Copy, Place
  <2>2. [of |-> Row, at |-> scanned] \in Message
    BY <2>1, CopyTypes
  <2>3. /\ topic' \in Seq(Message) /\ Len(topic') = Len(topic) + 1
        /\ taken \in 0..Len(topic') /\ start \in 0..Len(topic')
    BY <2>1, <2>2, AppendTypes
  <2> QED
    BY <1>0, <1>13, <2>3 DEF Publish, RowDone, CoreTypes
<1>14. CASE EncodeFails
  <2>1. Row \in 1..taken
    BY <1>14, RowFacts DEF EncodeFails, Place
  <2> QED
    BY <1>0, <1>14, <2>1 DEF EncodeFails, RowDone, CoreTypes
<1>15. CASE PublishFails
  <2>1. left # {}
    BY <1>15 DEF PublishFails, Place
  <2>2. /\ topic' \in Seq(Message)
        /\ taken \in 0..Len(topic') /\ start \in 0..Len(topic')
    <3>1. CASE topic' = topic
      BY <1>0, <3>1 DEF CoreTypes
    <3>2. CASE topic' = Append(topic, [of |-> Row, at |-> scanned])
      BY <2>1, <3>2, CopyTypes, AppendTypes
    <3> QED
      BY <1>15, <3>1, <3>2 DEF PublishFails, Copy
  <2> QED
    BY <1>0, <1>15, <2>2 DEF PublishFails, AfterPublishError, Goto, CoreTypes
<1>16. CASE Signal
  BY <1>0, <1>16 DEF Signal, CoreTypes
<1>17. CASE UNCHANGED vars
  BY <1>0, <1>17 DEF vars, CoreTypes
<1> QED
  BY <1>1, <1>2, <1>3, <1>4, <1>5, <1>6, <1>7, <1>8, <1>9, <1>10, <1>11,
     <1>12, <1>13, <1>14, <1>15, <1>16, <1>17 DEF Next, Pipeline, Tool

-----------------------------------------------------------------------------
\* The prefixes of a run have no day in common.
LEMMA PrefixFacts ==
  /\ Len(Prefixes) \in Nat
  /\ HasDates => Len(Prefixes) = To - From + 1
  /\ \A i, j \in 1..Len(Prefixes) : i # j => Prefixes[i] \cap Prefixes[j] = {}
<1>1. From \in Nat /\ To \in Nat /\ From <= To
  BY ReplayAssumption DEF Days
<1>2. CASE HasDates
  <2> DEFINE n == To - From + 1
             prefix(i) == IF Base = Empty THEN {From + i - 1} ELSE {}
  <2>1. n \in Nat
    BY <1>1
  <2>2. Prefixes = [i \in 1..n |-> prefix(i)]
    BY <1>2 DEF Prefixes, LastDay
  <2> HIDE DEF n
  <2>3. Len(Prefixes) = n /\ \A i \in 1..n : Prefixes[i] = prefix(i)
    <3> HIDE DEF prefix
    <3> QED
      BY <2>1, <2>2
  <2>4. \A i, j \in 1..n : i # j => prefix(i) \cap prefix(j) = {}
    BY <1>1, <2>1
  <2> QED
    BY <1>2, <2>1, <2>3, <2>4 DEF n
<1>3. CASE ~HasDates
  <2>1. Prefixes = <<IF Base \in Days THEN {Base} ELSE {}>>
    BY <1>3 DEF Prefixes
  <2> DEFINE only == IF Base \in Days THEN {Base} ELSE {}
  <2> HIDE DEF only
  <2>2. Prefixes = <<only>>
    BY <2>1 DEF only
  <2> QED
    BY <1>3, <2>2
<1> QED
  BY <1>2, <1>3

LEMMA StoredOnceStep ==
  TypeOK /\ StoredOnce /\ [Next]_vars => StoredOnce'
<1> SUFFICES ASSUME TypeOK, StoredOnce, [Next]_vars PROVE StoredOnce'
    OBVIOUS
<1>1. CASE Consume
  <2>1. \A o \in objects \cup uploading : o.rows \subseteq 1..taken
    BY DEF TypeOK
  <2>2. taken \in Nat
    BY DEF TypeOK
  <2>3. /\ UNCHANGED <<objects, uploading>>
        /\ buffered' = buffered \cup {taken + 1}
    BY <1>1 DEF Consume
  <2> QED
    BY <2>1, <2>2, <2>3 DEF StoredOnce
<1>2. CASE TakeBatch
  <2> DEFINE new == [day |-> today, rows |-> buffered]
  <2>1. /\ uploading = {} /\ uploading' = {new} /\ buffered' = {}
        /\ objects' = objects /\ new.rows = buffered
    BY <1>2 DEF TakeBatch
  <2> HIDE DEF new
  <2> QED
    BY <2>1 DEF StoredOnce
<1>3. CASE Upload
  BY <1>3 DEF Upload, StoredOnce
<1>4. CASE UNCHANGED <<objects, uploading, buffered>>
  BY <1>4 DEF StoredOnce
<1> QED
  BY <1>1, <1>2, <1>3, <1>4
  DEF Next, Pipeline, Tool, Midnight, Produce, Start, Finish, List, ListFails,
      KeysDone, Download, DownloadFails, NextRow, FileDone, Publish,
      EncodeFails, PublishFails, Signal, vars, pipeline

LEMMA PlaceStep ==
  TypeOK /\ Place /\ [Next]_vars => Place'
<1> SUFFICES ASSUME TypeOK, Place, [Next]_vars PROVE Place'
    OBVIOUS
<1>1. Len(Prefixes) \in Nat /\ scanned \in Nat
  BY PrefixFacts DEF TypeOK
<1> USE <1>1 DEF Place, Replaying, InFile
<1>2. CASE Pipeline \/ Signal \/ UNCHANGED vars
  <2>1. objects \subseteq objects' /\ UNCHANGED tool
    BY <1>2 DEF Pipeline, Midnight, Produce, Consume, TakeBatch, Upload, Signal,
       vars, pipeline
  <2> QED
    BY <2>1 DEF tool
<1>3. CASE Start
  BY <1>3 DEF Start
<1>4. CASE Finish \/ KeysDone
  BY <1>4 DEF Finish, KeysDone, Goto
<1>5. CASE List
  BY <1>5 DEF List, Listed, pipeline
<1>6. CASE ListFails
  BY <1>6 DEF ListFails
<1>7. CASE Download
  BY <1>7 DEF Download, KeysLeft, pipeline
<1>8. CASE DownloadFails
  BY <1>8 DEF DownloadFails, pipeline
<1>9. CASE NextRow
  BY <1>9 DEF NextRow, Goto, pipeline
<1>10. CASE FileDone
  BY <1>10 DEF FileDone, Goto, pipeline
<1>11. CASE Publish \/ EncodeFails
  BY <1>11 DEF Publish, EncodeFails, RowDone, pipeline
<1>12. CASE PublishFails
  BY <1>12 DEF PublishFails, AfterPublishError, Goto, pipeline
<1> QED
  BY <1>2, <1>3, <1>4, <1>5, <1>6, <1>7, <1>8, <1>9, <1>10, <1>11, <1>12
  DEF Next, Tool

LEMMA ReplayPlace == Spec => [](TypeOK /\ Place)
<1>1. Init => Place
  BY PrefixFacts DEF Init, Place, Replaying, InFile
<1>2. TypeOK /\ Place /\ [Next]_vars => TypeOK' /\ Place'
  <2> SUFFICES ASSUME TypeOK, Place, [Next]_vars PROVE TypeOK' /\ Place'
      OBVIOUS
  <2>1. CoreTypes' /\ (cancelled \in BOOLEAN)' /\ (failed \in BOOLEAN)'
    BY CoreTypesStep, FlagTypes, FailedTypes
  <2> QED
    BY <2>1, PlaceStep, Zenon DEF CoreTypes, Typed, TypeOK
<1> QED
  BY <1>1, <1>2, TypeInit, PTL DEF Spec

(***************************************************************************)
(* Type correctness: the tool reads and copies only messages that the      *)
(* consumer has taken, in every run and after any fault.                   *)
(***************************************************************************)
THEOREM ReplayTypes == Spec => []TypeOK
BY ReplayPlace, PTL

-----------------------------------------------------------------------------
(***************************************************************************)
(* How the copies of a run change.  A step appends a copy of the next row  *)
(* of the file, starts a run, or leaves the copies as they are.            *)
(***************************************************************************)
SameCopies ==
  /\ Copies' = Copies
  /\ \A o \in Copies : topic'[o] = topic[o]

NewCopy ==
  LET last == Len(topic) + 1 IN
  /\ Copies' = Copies \cup {last}
  /\ last \notin Copies /\ last > taken
  /\ \A o \in Copies : topic'[o] = topic[o]
  /\ topic'[last].of = Row /\ topic'[last].at = scanned

LEMMA TopicKept ==
  ASSUME UNCHANGED <<topic, start>>
  PROVE  SameCopies
BY DEF SameCopies, Copies, Offsets

LEMMA Appended ==
  ASSUME TypeOK, NEW x \in Message, topic' = Append(topic, x)
  PROVE  /\ Len(topic') = Len(topic) + 1
         /\ Offsets' = Offsets \cup {Len(topic) + 1}
         /\ Len(topic) + 1 \notin Offsets
         /\ \A o \in Offsets : topic'[o] = topic[o]
         /\ topic'[Len(topic) + 1] = x
<1>1. topic \in Seq(Message) /\ Len(topic) \in Nat
  BY DEF TypeOK
<1>2. /\ Len(topic') = Len(topic) + 1
      /\ \A o \in 1..Len(topic) : topic'[o] = topic[o]
      /\ topic'[Len(topic) + 1] = x
  BY <1>1
<1>3. 1..(Len(topic) + 1) = (1..Len(topic)) \cup {Len(topic) + 1}
  BY <1>1
<1>4. Len(topic) + 1 \notin 1..Len(topic)
  BY <1>1
<1> QED
  BY <1>2, <1>3, <1>4 DEF Offsets

LEMMA ProduceCopies ==
  ASSUME TypeOK, Produce
  PROVE  SameCopies
<1> DEFINE x == [of |-> 0, at |-> 0]
           last == Len(topic) + 1
<1>1. x \in Message /\ x.of = 0 /\ start' = start /\ topic' = Append(topic, x)
  BY DEF Produce, Message, history
<1> HIDE DEF x
<1>2. /\ Offsets' = Offsets \cup {last}
      /\ \A o \in Offsets : topic'[o] = topic[o]
      /\ topic'[last] = x
  BY <1>1, Appended
<1> HIDE DEF last
<1>3. topic'[last].of = 0
  BY <1>1, <1>2
<1> QED
  BY <1>1, <1>2, <1>3 DEF SameCopies, Copies

LEMMA CopyCopies ==
  ASSUME TypeOK, left # {}, topic' = Copy, start' = start
  PROVE  NewCopy
<1> DEFINE x == [of |-> Row, at |-> scanned]
           last == Len(topic) + 1
<1>1. x \in Message /\ x.of = Row /\ x.at = scanned /\ Row # 0
  BY CopyTypes, RowFacts
<1>2. topic' = Append(topic, x)
  BY DEF Copy
<1>3. last > start /\ last > taken
  BY DEF TypeOK
<1> HIDE DEF x
<1>4. /\ Offsets' = Offsets \cup {last} /\ last \notin Offsets
      /\ \A o \in Offsets : topic'[o] = topic[o]
      /\ topic'[last] = x
  BY <1>1, <1>2, Appended
<1> HIDE DEF last
<1>5. Copies' = Copies \cup {last} /\ last \notin Copies
  BY <1>1, <1>3, <1>4 DEF Copies
<1>6. \A o \in Copies : topic'[o] = topic[o]
  BY <1>4 DEF Copies
<1>7. topic'[last].of = Row /\ topic'[last].at = scanned
  BY <1>1, <1>4
<1> QED
  BY <1>3, <1>5, <1>6, <1>7, Zenon DEF NewCopy, last

LEMMA StartCopies ==
  ASSUME TypeOK, Start
  PROVE  Copies' = {}
BY DEF Start, Copies, Offsets, TypeOK

-----------------------------------------------------------------------------
CopyInv == Sources /\ NotYet /\ Earlier /\ CopiesBounded

\* A step that copies nothing.
LEMMA QuietStep ==
  ASSUME TypeOK, CopyInv, SameCopies, objects \subseteq objects',
         scanned \in Nat, scanned' \in Nat, scanned <= scanned'
  PROVE  Sources' /\ CopiesBounded'
<1>1. Sources'
  BY DEF CopyInv, Sources, SameCopies
<1>2. CopiesBounded'
  BY DEF CopyInv, CopiesBounded, CopiedOnce, SameCopies
<1> QED
  BY <1>1, <1>2

\* A step that copies the next row of the file.
LEMMA CopyStep ==
  ASSUME TypeOK, Place, StoredOnce, CopyInv, pc = "publish", NewCopy,
         UNCHANGED <<objects, scanned>>
  PROVE  /\ Sources' /\ CopiesBounded'
         /\ \A o \in Copies', k \in keys : topic'[o].of \notin k.rows
         /\ \A o \in Copies' : topic'[o].of \notin left \ {Row}
         /\ \A k \in keys \cup {file} : \A q \in Copies' \cap k.rows :
              topic'[q].at < scanned
<1> DEFINE last == Len(topic) + 1
<1>1. /\ Copies' = Copies \cup {last} /\ last \notin Copies /\ last > taken
      /\ \A o \in Copies : topic'[o] = topic[o]
      /\ topic'[last].of = Row /\ topic'[last].at = scanned
  BY DEF NewCopy
<1>2. /\ left # {} /\ scanned \in 1..Len(Prefixes)
      /\ \A k \in keys : k \in objects /\ k.day \in Prefixes[scanned]
      /\ file \in objects \ keys /\ file.day \in Prefixes[scanned]
  BY DEF Place, Replaying, InFile
<1>3. Row \in left /\ Row \in file.rows /\ Row \in 1..taken
  BY <1>2, RowFacts
<1>4. /\ \A o \in Copies, k \in keys : topic[o].of \notin k.rows
      /\ \A o \in Copies : topic[o].of \notin left
      /\ \A k \in keys \cup {file} : \A q \in Copies \cap k.rows :
           topic[q].at < scanned
  BY DEF CopyInv, NotYet, Earlier, Replaying, InFile
<1>5. \A k \in objects \cup keys \cup {file} : k.rows \subseteq 1..taken
  BY DEF TypeOK
<1>6. last \notin 1..taken /\ last \in Nat /\ taken \in Nat
  BY <1>1 DEF TypeOK
<1> HIDE DEF last
<1>7. Sources'
  <2> SUFFICES ASSUME NEW o \in Copies'
               PROVE  /\ topic'[o].at \in 1..scanned
                      /\ \E k \in objects : /\ topic'[o].of \in k.rows
                                            /\ k.day \in Prefixes[topic'[o].at]
      BY DEF Sources
  <2>1. CASE o = last
    <3>1. scanned \in 1..scanned
      BY <1>2, PrefixFacts
    <3> QED
      BY <1>1, <1>2, <1>3, <2>1, <3>1
  <2>2. CASE o \in Copies
    BY <1>1, <2>2 DEF CopyInv, Sources
  <2> QED
    BY <1>1, <2>1, <2>2
<1>8. \A o \in Copies : topic[o].of \in 1..taken
  BY <1>5 DEF CopyInv, Sources
<1>9. CopiesBounded'
  <2>1. CopiedOnce'
    <3>1. \A o \in Copies : topic[o].of # Row
      BY <1>3, <1>4
    <3>2. \A o, p \in Copies : topic[o].of = topic[p].of => o = p
      BY DEF CopyInv, CopiesBounded, CopiedOnce
    <3> QED
      BY <1>1, <3>1, <3>2 DEF CopiedOnce
  <2>2. \A o \in Copies' : topic'[o].of \in Copies' =>
          topic'[topic'[o].of].at < topic'[o].at
    <3> SUFFICES ASSUME NEW o \in Copies', topic'[o].of \in Copies'
                 PROVE  topic'[topic'[o].of].at < topic'[o].at
        OBVIOUS
    <3>1. topic'[o].of \in 1..taken /\ topic'[o].of \in Copies
      BY <1>1, <1>3, <1>6, <1>8
    <3>2. CASE o = last
      BY <1>1, <1>3, <1>4, <3>1, <3>2
    <3>3. CASE o \in Copies
      BY <1>1, <3>1, <3>3 DEF CopyInv, CopiesBounded
    <3> QED
      BY <1>1, <3>2, <3>3
  <2> QED
    BY <2>1, <2>2 DEF CopiesBounded
<1>10. \A o \in Copies', k \in keys : topic'[o].of \notin k.rows
  <2>1. \A k \in keys : Row \notin k.rows
    <3> SUFFICES ASSUME NEW k \in keys PROVE k.rows \cap file.rows = {}
        BY <1>3
    <3>1. k \in objects /\ file \in objects /\ k # file
      BY <1>2
    <3> QED
      BY <3>1 DEF StoredOnce
  <2> QED
    BY <1>1, <1>4, <2>1
<1>11. \A o \in Copies' : topic'[o].of \notin left \ {Row}
  BY <1>1, <1>4
<1>12. \A k \in keys \cup {file} : \A q \in Copies' \cap k.rows :
         topic'[q].at < scanned
  <2>1. \A k \in keys \cup {file} : last \notin k.rows
    BY <1>5, <1>6
  <2> QED
    BY <1>1, <1>4, <2>1
<1> QED
  BY <1>7, <1>9, <1>10, <1>11, <1>12

\* ListObjects finds no object whose rows were copied before.
LEMMA ListedIsNew ==
  ASSUME TypeOK, Place, StoredOnce, CopyInv, List
  PROVE  \A k \in keys', o \in Copies :
           topic[o].of \notin k.rows /\ topic[o].at < scanned'
<1> SUFFICES ASSUME NEW k \in keys', NEW o \in Copies
             PROVE  topic[o].of \notin k.rows /\ topic[o].at < scanned'
    OBVIOUS
<1>1. /\ scanned \in Nat /\ scanned' = scanned + 1
      /\ scanned' \in 1..Len(Prefixes)
      /\ k \in objects /\ k.day \in Prefixes[scanned']
  BY PrefixFacts DEF List, Listed, TypeOK
<1>2. PICK p \in objects : topic[o].of \in p.rows
                           /\ p.day \in Prefixes[topic[o].at]
  BY DEF CopyInv, Sources
<1>3. topic[o].at \in 1..scanned
  BY DEF CopyInv, Sources
<1>4. topic[o].at \in 1..Len(Prefixes) /\ topic[o].at < scanned'
  BY <1>1, <1>3, PrefixFacts
<1>5. p.day # k.day
  BY <1>1, <1>2, <1>4, PrefixFacts
<1>6. p.rows \cap k.rows = {}
  BY <1>1, <1>2, <1>5 DEF StoredOnce
<1> QED
  BY <1>2, <1>4, <1>6

LEMMA CopyInvStep ==
  TypeOK /\ Place /\ StoredOnce /\ CopyInv /\ [Next]_vars => CopyInv'
<1> SUFFICES ASSUME TypeOK, Place, StoredOnce, CopyInv, [Next]_vars
             PROVE  CopyInv'
    OBVIOUS
<1>1. scanned \in Nat
  BY DEF TypeOK
<1>2. Sources /\ NotYet /\ Earlier /\ CopiesBounded
  BY DEF CopyInv
<1>3. CASE Pipeline \/ Signal \/ UNCHANGED vars
  <2>1. objects \subseteq objects' /\ UNCHANGED tool
    BY <1>3 DEF Pipeline, Midnight, Produce, Consume, TakeBatch, Upload, Signal,
       vars, pipeline
  <2>2. SameCopies
    <3>1. Produce \/ UNCHANGED <<topic, start>>
      BY <1>3 DEF Pipeline, Midnight, Consume, TakeBatch, Upload, Signal,
         vars, history
    <3> QED
      BY <3>1, ProduceCopies, TopicKept
  <2>3. Sources' /\ CopiesBounded'
    BY <1>1, <2>1, <2>2, QuietStep DEF tool
  <2>4. NotYet' /\ Earlier'
    BY <1>2, <2>1, <2>2
    DEF NotYet, Earlier, Replaying, InFile, SameCopies, tool
  <2> QED
    BY <2>3, <2>4 DEF CopyInv
<1>4. CASE Start
  <2>1. Copies' = {}
    BY <1>4, StartCopies
  <2> QED
    BY <2>1 DEF CopyInv, Sources, NotYet, Earlier, CopiesBounded, CopiedOnce
<1>5. CASE /\ Tool /\ UNCHANGED <<topic, start>>
  <2>1. SameCopies
    BY <1>5, TopicKept
  <2>2. objects' = objects /\ scanned' \in Nat /\ scanned <= scanned'
    BY <1>1, <1>5 DEF Tool, Finish, List, ListFails, KeysDone, Download,
       DownloadFails, NextRow, FileDone, Publish, EncodeFails, PublishFails,
       RowDone, AfterPublishError, Goto, pipeline
  <2>3. Sources' /\ CopiesBounded'
    BY <1>1, <2>1, <2>2, QuietStep
  <2>4. CASE List
    <3>1. \A k \in keys', o \in Copies :
            topic[o].of \notin k.rows /\ topic[o].at < scanned'
      BY <2>4, ListedIsNew
    <3>2. pc' = "file"
      BY <2>4 DEF List
    <3>3. NotYet' /\ Earlier'
      BY <2>1, <3>1, <3>2 DEF NotYet, Earlier, Replaying, InFile, SameCopies
    <3> QED
      BY <2>3, <3>3 DEF CopyInv
  <2>5. CASE Finish \/ ListFails \/ KeysDone
    <3>1. ~Replaying'
      BY <2>5 DEF Finish, ListFails, KeysDone, Goto, Replaying
    <3>2. NotYet' /\ Earlier'
      BY <3>1 DEF NotYet, Earlier, Replaying, InFile
    <3> QED
      BY <2>3, <3>2 DEF CopyInv
  <2>6. CASE Download
    <3>1. PICK key \in keys :
            keys' = keys \ {key} /\ file' = key /\ left' \subseteq key.rows
      BY <2>6, ReadFacts DEF Download, KeysLeft
    <3>2. pc = "file" /\ scanned' = scanned
      BY <2>6 DEF Download
    <3>3. /\ \A o \in Copies, k \in keys : topic[o].of \notin k.rows
          /\ \A k \in keys : \A q \in Copies \cap k.rows : topic[q].at < scanned
      BY <1>2, <3>2 DEF NotYet, Earlier, Replaying
    <3>4. NotYet'
      BY <2>1, <3>1, <3>3 DEF NotYet, SameCopies
    <3>5. Earlier'
      BY <2>1, <3>1, <3>2, <3>3 DEF Earlier, SameCopies
    <3> QED
      BY <2>3, <3>4, <3>5 DEF CopyInv
  <2>7. CASE DownloadFails \/ NextRow \/ FileDone \/ EncodeFails
             \/ Publish \/ PublishFails
    <3>1. /\ keys' \subseteq keys /\ file' = file /\ left' \subseteq left
          /\ scanned' = scanned /\ Replaying
          /\ InFile' => InFile
      BY <2>7 DEF DownloadFails, NextRow, FileDone, EncodeFails, Publish,
         PublishFails, RowDone, AfterPublishError, Goto, Replaying, InFile
    <3>2. /\ \A o \in Copies, k \in keys : topic[o].of \notin k.rows
          /\ \A k \in keys : \A q \in Copies \cap k.rows : topic[q].at < scanned
          /\ InFile => /\ \A o \in Copies : topic[o].of \notin left
                       /\ \A q \in Copies \cap file.rows :
                            topic[q].at < scanned
      BY <1>2, <3>1 DEF NotYet, Earlier
    <3>3. NotYet'
      BY <2>1, <3>1, <3>2 DEF NotYet, SameCopies
    <3>4. Earlier'
      BY <2>1, <3>1, <3>2 DEF Earlier, SameCopies
    <3> QED
      BY <2>3, <3>3, <3>4 DEF CopyInv
  <2> QED
    BY <1>5, <2>4, <2>5, <2>6, <2>7 DEF Tool
<1>6. CASE (Publish \/ PublishFails) /\ topic' = Copy
  <2>1. /\ pc = "publish" /\ UNCHANGED <<objects, scanned, keys, file, start>>
        /\ \/ pc' = "file"
           \/ pc' = "row" /\ left' = left \ {Row}
    BY <1>6 DEF Publish, PublishFails, RowDone, AfterPublishError, Goto,
       pipeline, history
  <2>2. NewCopy
    BY <1>6, <2>1, CopyCopies DEF Place
  <2>3. /\ Sources' /\ CopiesBounded'
        /\ \A o \in Copies', k \in keys : topic'[o].of \notin k.rows
        /\ \A o \in Copies' : topic'[o].of \notin left \ {Row}
        /\ \A k \in keys \cup {file} : \A q \in Copies' \cap k.rows :
             topic'[q].at < scanned
    BY <2>1, <2>2, CopyStep
  <2>4. NotYet'
    BY <2>1, <2>3 DEF NotYet, Replaying, InFile
  <2>5. Earlier'
    BY <2>1, <2>3 DEF Earlier, Replaying, InFile
  <2> QED
    BY <2>3, <2>4, <2>5 DEF CopyInv
<1>7. Tool => \/ UNCHANGED <<topic, start>>
              \/ (Publish \/ PublishFails) /\ topic' = Copy
  BY DEF Tool, Finish, List, ListFails, KeysDone, Download, DownloadFails,
     NextRow, FileDone, Publish, EncodeFails, PublishFails, history
<1> QED
  BY <1>3, <1>4, <1>5, <1>6, <1>7 DEF Next

(***************************************************************************)
(* The feedback ends: a run of the tool copies a message once at most, and *)
(* a copy of its own only at a later prefix than the copy was made at,     *)
(* whatever the pipeline stores in between and whatever fails.             *)
(***************************************************************************)
THEOREM ReplayCopiesBounded == Spec => []CopiesBounded
<1>1. Init => StoredOnce /\ CopyInv
  <2>1. Init => Copies = {}
    BY DEF Init, Copies, Offsets
  <2> QED
    BY <2>1 DEF Init, StoredOnce, CopyInv, Sources, NotYet, Earlier,
                CopiesBounded, CopiedOnce
<1>2. CopyInv => CopiesBounded
  BY DEF CopyInv
<1> QED
  BY <1>1, <1>2, ReplayPlace, StoredOnceStep, CopyInvStep, PTL DEF Spec

-----------------------------------------------------------------------------
\* What is copied stays copied, until the next run starts.
LEMMA CopiedStays ==
  ASSUME TypeOK, Place, [Next]_vars, ~Start, NEW r, Copied(r)
  PROVE  Copied(r)'
<1>1. SameCopies \/ NewCopy
  <2>1. CASE UNCHANGED <<topic, start>>
    BY <2>1, TopicKept
  <2>2. CASE Produce
    BY <2>2, ProduceCopies
  <2>3. CASE (Publish \/ PublishFails) /\ topic' = Copy
    <3>1. left # {} /\ start' = start
      BY <2>3 DEF Publish, PublishFails, Place, history
    <3> QED
      BY <2>3, <3>1, CopyCopies
  <2> QED
    BY <2>1, <2>2, <2>3
    DEF Next, Pipeline, Tool, Midnight, Consume, TakeBatch, Upload, Finish, List,
        ListFails, KeysDone, Download, DownloadFails, NextRow, FileDone, Publish,
        EncodeFails, PublishFails, Signal, vars, history
<1> QED
  BY <1>1 DEF Copied, SameCopies, NewCopy

\* The row that Publish was given is copied.
LEMMA RowIsCopied ==
  ASSUME TypeOK, Place, Publish, NEW r, r = Row
  PROVE  Copied(r)'
<1>1. NewCopy
  BY CopyCopies DEF Publish, Place, history
<1> DEFINE last == Len(topic) + 1
<1>2. last \in Copies' /\ topic'[last].of = r
  BY <1>1 DEF NewCopy
<1> HIDE DEF last
<1> QED
  BY <1>2 DEF Copied

(***************************************************************************)
(* Why a file that is counted was copied: while it is at hand its rows are *)
(* copied, skipped, or among those that are left.                          *)
(***************************************************************************)
LEMMA CountedStep ==
  TypeOK /\ Place /\ FileProgress /\ CountedIsCopied /\ [Next]_vars
    => FileProgress' /\ CountedIsCopied'
<1> SUFFICES ASSUME TypeOK, Place, FileProgress, CountedIsCopied, [Next]_vars
             PROVE  FileProgress' /\ CountedIsCopied'
    OBVIOUS
<1>1. CASE Start
  BY <1>1 DEF Start, FileProgress, InFile, CountedIsCopied
<1>2. CASE ~Start
  <2>1. \A r : Copied(r) => Copied(r)'
    BY <1>2, CopiedStays
  <2>2. \A f \in counted : \A r \in f.rows \ skipped : Copied(r)
    BY DEF CountedIsCopied, Copied
  <2>3. CASE /\ UNCHANGED <<file, left, skipped, counted>>
             /\ InFile' => InFile
    <3>1. FileProgress'
      BY <2>1, <2>3 DEF FileProgress
    <3>2. \A f \in counted' : \A r \in f.rows \ skipped' : Copied(r)'
      BY <2>1, <2>2, <2>3
    <3> QED
      BY <3>1, <3>2 DEF CountedIsCopied, Copied
  <2>4. CASE Download
    <3>1. /\ file'.rows \subseteq left' \cup skipped'
          /\ skipped \subseteq skipped' /\ counted' = counted
      BY <2>4 DEF Download
    <3>2. \A f \in counted' : \A r \in f.rows \ skipped' : Copied(r)'
      BY <2>1, <2>2, <3>1
    <3> QED
      BY <3>1, <3>2 DEF FileProgress, CountedIsCopied, Copied
  <2>5. CASE FileDone
    <3>1. /\ pc = "row" /\ pc' = "file" /\ left = {} /\ skipped' = skipped
          /\ counted' = counted \cup {file}
      BY <2>5 DEF FileDone, Goto
    <3>2. \A r \in file.rows \ skipped : Copied(r)
      BY <3>1 DEF FileProgress, InFile
    <3>3. \A f \in counted' : \A r \in f.rows \ skipped' : Copied(r)'
      BY <2>1, <2>2, <3>1, <3>2
    <3> QED
      BY <3>1, <3>3 DEF FileProgress, InFile, CountedIsCopied, Copied
  <2>6. CASE Publish
    <3>1. /\ pc = "publish" /\ UNCHANGED <<file, skipped, counted>>
          /\ left' = left \ {Row}
      BY <2>6 DEF Publish, RowDone, history
    <3>2. \A r : r = Row => Copied(r)'
      BY <2>6, RowIsCopied
    <3>3. \A r \in file.rows \ (left \cup skipped) : Copied(r)
      BY <3>1 DEF FileProgress, InFile
    <3>4. \A r \in file'.rows \ (left' \cup skipped') : Copied(r)'
      BY <2>1, <3>1, <3>2, <3>3
    <3>5. \A f \in counted' : \A r \in f.rows \ skipped' : Copied(r)'
      BY <2>1, <2>2, <3>1
    <3> QED
      BY <3>4, <3>5 DEF FileProgress, CountedIsCopied, Copied
  <2>7. CASE EncodeFails
    <3>1. /\ pc = "publish" /\ UNCHANGED <<file, counted>>
          /\ left' = left \ {Row} /\ skipped' = skipped \cup {Row}
      BY <2>7 DEF EncodeFails, RowDone
    <3>2. \A r \in file.rows \ (left \cup skipped) : Copied(r)
      BY <3>1 DEF FileProgress, InFile
    <3>3. \A r \in file'.rows \ (left' \cup skipped') : Copied(r)'
      BY <2>1, <3>1, <3>2
    <3>4. \A f \in counted' : \A r \in f.rows \ skipped' : Copied(r)'
      BY <2>1, <2>2, <3>1
    <3> QED
      BY <3>3, <3>4 DEF FileProgress, CountedIsCopied, Copied
  <2>8. \/ /\ UNCHANGED <<file, left, skipped, counted>>
           /\ InFile' => InFile
        \/ Download \/ FileDone \/ Publish \/ EncodeFails
    <3>1. CASE Pipeline \/ Signal \/ UNCHANGED vars
      BY <3>1 DEF Pipeline, Midnight, Produce, Consume, TakeBatch, Upload, Signal,
         vars, tool, history, InFile
    <3>2. CASE Finish \/ List \/ ListFails \/ KeysDone \/ DownloadFails
               \/ NextRow \/ PublishFails
      BY <3>2 DEF Finish, List, ListFails, KeysDone, DownloadFails, NextRow,
         PublishFails, AfterPublishError, Goto, history, InFile
    <3> QED
      BY <1>2, <3>1, <3>2 DEF Next, Tool
  <2> QED
    BY <2>3, <2>4, <2>5, <2>6, <2>7, <2>8
<1> QED
  BY <1>1, <1>2

(***************************************************************************)
(* A file that totalFiles counts was republished as a whole, but for the   *)
(* rows that the run passed over without an error: those that could not be *)
(* encoded and those that a read which ended early did not give.           *)
(***************************************************************************)
THEOREM ReplayCounts == Spec => []CountedIsCopied
<1>1. Init => FileProgress /\ CountedIsCopied
  BY DEF Init, FileProgress, InFile, CountedIsCopied
<1> QED
  BY <1>1, ReplayPlace, CountedStep, PTL DEF Spec

-----------------------------------------------------------------------------
\* With dates and -prefix "" there is a prefix for each day asked for.
LEMMA DayPrefixes ==
  ASSUME HasDates, Base = Empty
  PROVE  \A i \in 1..Len(Prefixes) : Prefixes[i] = {From + i - 1}
<1> DEFINE n == To - From + 1
           day(i) == {From + i - 1}
<1>1. n \in Nat
  BY ReplayAssumption DEF Days
<1>2. Prefixes = [i \in 1..n |-> day(i)]
  BY DEF Prefixes, LastDay
<1>3. Len(Prefixes) = n
  BY PrefixFacts
<1> HIDE DEF n
<1> QED
  BY <1>2, <1>3

(***************************************************************************)
(* Why every message asked for is copied: until it is, it waits in an      *)
(* object of a day to come, of the current prefix, or in the file at hand. *)
(***************************************************************************)
LEMMA DueStep ==
  ASSUME HasDates, Base = Empty
  PROVE  TypeOK /\ Place /\ DueProgress /\ [Next]_vars => DueProgress'
<1> SUFFICES ASSUME TypeOK, Place, DueProgress, [Next]_vars
             PROVE  DueProgress'
    OBVIOUS
<1>1. scanned \in Nat /\ From \in Nat /\ To \in Nat /\ Len(Prefixes) \in Nat
  BY PrefixFacts, ReplayAssumption DEF TypeOK, Days
<1> DEFINE Progress == \A r \in due \ skipped : Copied(r) \/ Waits(r)
           Ended == pc = "off" /\ runs > 0 => cancelled \/ scanned = Len(Prefixes)
<1>2. Ended'
  <2>1. Ended
    BY DEF DueProgress
  <2>2. CASE Finish
    BY <1>1, <2>2 DEF Finish, Place, Goto
  <2>3. CASE pc' # "off"
    BY <2>3
  <2>4. CASE UNCHANGED <<pc, scanned, runs, cancelled>>
    BY <2>1, <2>4
  <2> QED
    BY <2>2, <2>3, <2>4
    DEF Next, Pipeline, Tool, Midnight, Produce, Consume, TakeBatch, Upload,
        Start, List, ListFails, KeysDone, Download, DownloadFails, NextRow,
        FileDone, Publish, EncodeFails, PublishFails, RowDone,
        AfterPublishError, Goto, Signal, vars, tool, history
<1>3. ASSUME ~failed', ~cancelled' PROVE Progress'
  <2>1. CASE Start
    <3>1. scanned' = 0 /\ objects' = objects /\ due' = RowsOf(Asked)
      BY <2>1 DEF Start, pipeline
    <3>2. \A r \in due' : \E k \in objects : r \in k.rows /\ k.day \in From..To
      BY <3>1 DEF RowsOf, Asked
    <3>3. From + 0 = From
      BY <1>1
    <3>4. \A r \in due' : Waits(r)'
      BY <3>1, <3>2, <3>3 DEF Waits
    <3> QED
      BY <3>4
  <2>2. CASE ~Start
    <3>1. \A r : Copied(r) => Copied(r)'
      BY <2>2, CopiedStays
    <3>2. due' = due /\ skipped \subseteq skipped' /\ objects \subseteq objects'
      BY <2>2 DEF Next, Pipeline, Tool, Midnight, Produce, Consume, TakeBatch,
         Upload, Finish, List, ListFails, KeysDone, Download, DownloadFails,
         NextRow, FileDone, Publish, EncodeFails, PublishFails, Signal, vars,
         pipeline, history
    <3>3. ~failed /\ ~cancelled
      BY <1>3, <2>2 DEF Next, Pipeline, Tool, Midnight, Produce, Consume,
         TakeBatch, Upload, Finish, List, ListFails, KeysDone, Download,
         DownloadFails, NextRow, FileDone, Publish, EncodeFails, PublishFails,
         Signal, vars, history
    <3>4. Progress
      BY <3>3 DEF DueProgress
    <3> SUFFICES ASSUME NEW r \in due \ skipped', Waits(r)
                 PROVE  Copied(r)' \/ Waits(r)'
        BY <3>1, <3>2, <3>4
    <3>5. PICK k \in objects :
            /\ r \in k.rows
            /\ \/ k.day \in (From + scanned)..To
               \/ Replaying /\ k \in keys
               \/ InFile /\ k = file /\ r \in left
      BY DEF Waits
    <3>6. k \in objects'
      BY <3>2
    <3>7. ASSUME k.day \in (From + scanned')..To PROVE Waits(r)'
      BY <3>5, <3>6, <3>7 DEF Waits
    <3>8. ASSUME Replaying', k \in keys' PROVE Waits(r)'
      BY <3>5, <3>6, <3>8 DEF Waits
    <3>9. ASSUME InFile', k = file', r \in left' PROVE Waits(r)'
      BY <3>5, <3>6, <3>9 DEF Waits
    <3>10. CASE Pipeline \/ Signal \/ UNCHANGED vars
      <4>1. UNCHANGED tool
        BY <3>10 DEF Pipeline, Midnight, Produce, Consume, TakeBatch, Upload,
           Signal, vars
      <4> QED
        BY <3>5, <3>7, <3>8, <3>9, <4>1 DEF tool, Replaying, InFile
    <3>11. CASE Finish
      BY <3>5, <3>7, <3>11 DEF Finish, Goto, Replaying, InFile
    <3>12. CASE List
      <4>1. /\ pc = "prefix" /\ scanned' = scanned + 1 /\ pc' = "file"
            /\ scanned + 1 \in 1..Len(Prefixes)
            /\ keys' = {o \in objects : o.day \in Prefixes[scanned + 1]}
        BY <1>1, <3>12 DEF List, Listed
      <4>2. k.day \in (From + scanned)..To
        BY <3>5, <4>1 DEF Replaying, InFile
      <4>3. CASE k.day = From + scanned
        <5>1. Prefixes[scanned + 1] = {From + (scanned + 1) - 1}
          BY <4>1, DayPrefixes
        <5>2. k \in keys'
          BY <1>1, <4>1, <4>3, <5>1
        <5> QED
          BY <3>8, <4>1, <5>2 DEF Replaying
      <4>4. CASE k.day # From + scanned
        BY <1>1, <3>7, <4>1, <4>2, <4>4
      <4> QED
        BY <4>3, <4>4
    <3>13. CASE KeysDone
      BY <3>3, <3>5, <3>7, <3>13 DEF KeysDone, Goto, InFile
    <3>14. CASE Download
      <4>1. PICK key \in keys :
              /\ keys' = keys \ {key} /\ file' = key
              /\ key.rows \subseteq left' \cup skipped'
        BY <3>14 DEF Download, KeysLeft
      <4>2. pc = "file" /\ pc' = "row" /\ scanned' = scanned
        BY <3>14 DEF Download
      <4> QED
        BY <3>5, <3>7, <3>8, <3>9, <4>1, <4>2 DEF Replaying, InFile
    <3>15. CASE NextRow
      BY <3>3, <3>5, <3>7, <3>8, <3>9, <3>15 DEF NextRow, Goto, Replaying, InFile
    <3>16. CASE FileDone
      BY <3>5, <3>7, <3>8, <3>16 DEF FileDone, Goto, Replaying, InFile
    <3>17. CASE Publish
      <4>1. /\ left' = left \ {Row} /\ pc' = "row"
            /\ UNCHANGED <<scanned, keys, file>>
        BY <3>17 DEF Publish, RowDone
      <4>2. r = Row => Copied(r)'
        BY <3>17, RowIsCopied
      <4> QED
        BY <3>5, <3>7, <3>8, <3>9, <4>1, <4>2 DEF Replaying, InFile
    <3>18. CASE EncodeFails
      <4>1. /\ left' = left \ {Row} /\ pc' = "row" /\ r # Row
            /\ UNCHANGED <<scanned, keys, file>>
        BY <3>18 DEF EncodeFails, RowDone
      <4> QED
        BY <3>5, <3>7, <3>8, <3>9, <4>1 DEF Replaying, InFile
    <3>19. ~ListFails /\ ~DownloadFails /\ ~PublishFails
      BY <1>3 DEF ListFails, DownloadFails, PublishFails
    <3> QED
      BY <2>2, <3>10, <3>11, <3>12, <3>13, <3>14, <3>15, <3>16, <3>17, <3>18,
         <3>19 DEF Next, Tool
  <2> QED
    BY <2>1, <2>2
<1> QED
  BY <1>2, <1>3 DEF DueProgress

(***************************************************************************)
(* A run that nothing disturbs copies every message that was in the bucket *)
(* for its dates when it started, if -prefix is "".  With the default      *)
(* -prefix it copies none: a run shows that.                               *)
(***************************************************************************)
THEOREM ReplayIsComplete ==
  ASSUME HasDates, Base = Empty
  PROVE  Spec => []DatesReplayed
<1>1. Init => DueProgress
  BY DEF Init, DueProgress
<1>2. TypeOK /\ Place /\ DueProgress /\ [Next]_vars => DueProgress'
  BY DueStep
<1>3. TypeOK /\ DueProgress => DatesReplayed
  <2> SUFFICES ASSUME TypeOK, DueProgress, pc = "off", runs > 0, ~failed,
                      ~cancelled, NEW r \in due \ skipped
               PROVE  Copied(r)
      BY DEF DatesReplayed, Copied
  <2>1. /\ scanned = To - From + 1 /\ From \in Nat /\ To \in Nat
    BY PrefixFacts, ReplayAssumption DEF DueProgress, Days
  <2>2. (From + scanned)..To = {}
    BY <2>1
  <2>3. ~Waits(r)
    BY <2>2 DEF Waits, Replaying, InFile
  <2> QED
    BY <2>3 DEF DueProgress
<1> QED
  BY <1>1, <1>2, <1>3, ReplayPlace, PTL DEF Spec
=============================================================================
