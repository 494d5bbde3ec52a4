--------------------------- MODULE ServiceProofs ---------------------------
(***************************************************************************)
(* Proofs about the start for every number of attempts, interval and       *)
(* length of a check; and about the composed service, which is a consumer  *)
(* and a start-up: what is proved of either holds of it.                   *)
(***************************************************************************)
EXTENDS Service, ConsumerProofs

\* The time that attempt a has slept before it begins.
Slept(a) == (a - 1) * Interval

(***************************************************************************)
(* The inductive invariant says, phase by phase, how far the clock is and  *)
(* how long ago the last check failed.                                     *)
(***************************************************************************)
InWait ==
  phase = "wait" =>
    /\ Slept(attempt) <= now
    /\ now <= S!Deadline + Interval
    /\ attempt <= attempts \/ (attempts = 0 /\ attempt = 1)
    /\ attempt = 1 => now = 0
    /\ attempt > 1 => lastBad + CheckTime + Interval >= now
    /\ errs = {}

InCheck ==
  phase \in S!Deps \cup {"verdict"} =>
    /\ Slept(attempt) <= since
    /\ since <= now
    /\ now <= S!Deadline
    /\ now <= since + CheckTime
    /\ attempt <= attempts
    /\ errs # {} => lastBad >= since

InSleep ==
  phase = "sleep" =>
    /\ Slept(attempt) <= since
    /\ since <= S!Deadline
    /\ since <= now
    /\ now <= since + Interval
    /\ attempt < attempts
    /\ lastBad + CheckTime >= since
    /\ errs = {}

\* What a check of this attempt has said of each dependency so far
Told ==
  /\ phase = "registry" => "redpanda" \in errs \/ seen["redpanda"] >= since
  /\ phase = "minio" => \A d \in {"redpanda", "registry"} :
                          d \in errs \/ seen[d] >= since
  /\ phase = "verdict" => \A d \in S!Deps : d \in errs \/ seen[d] >= since
  /\ phase = "open" => attempts = 0 \/ S!Checked

StartInv == S!TypeOK /\ InWait /\ InCheck /\ InSleep /\ Told /\ S!GivesUpOnTime

-----------------------------------------------------------------------------
LEMMA SleptFacts ==
  ASSUME NEW a \in Nat
  PROVE  /\ Slept(1) = 0
         /\ Slept(a) \in Int
         /\ Slept(a + 1) = Slept(a) + Interval
BY StartupAssumption DEF Slept

LEMMA DeadlineFacts ==
  ASSUME S!TypeOK
  PROVE  /\ S!Deadline \in Nat
         /\ Slept(attempts) = S!Deadline - Interval
         /\ attempts # 0 => S!Deadline >= Interval
<1>1. attempts \in Nat /\ Interval \in Nat \ {0}
  BY StartupAssumption DEF S!TypeOK
<1>2. S!Deadline \in Nat
  BY <1>1 DEF S!Deadline
<1>3. Slept(attempts) = S!Deadline - Interval
  BY <1>1 DEF S!Deadline, Slept
<1>4. ASSUME attempts # 0 PROVE S!Deadline >= Interval
  <2>1. (attempts - 1) * Interval >= 0
    BY <1>1, <1>4
  <2> QED BY <1>1, <1>3, <2>1, <1>2 DEF Slept
<1> QED BY <1>2, <1>3, <1>4

\* Fresh variables satisfy the invariant, in every phase that begins with them.
LEMMA FreshIsSafe ==
  ASSUME S!TypeOK, NEW p \in {"off", "up", "wait"}, S!Fresh(p),
         UNCHANGED attempts
  PROVE  StartInv'
<1>1. S!Deadline' = S!Deadline /\ S!Deadline \in Nat
  BY DeadlineFacts DEF S!Deadline
<1>2. Slept(attempt)' = 0
  BY SleptFacts DEF S!Fresh, Slept
<1>3. attempts \in Nat /\ Interval \in Nat \ {0}
  BY StartupAssumption DEF S!TypeOK
<1>4. S!TypeOK'
  BY StartupAssumption DEF S!TypeOK, S!Fresh, S!Phases, S!Never
<1>5. InWait'
  BY <1>1, <1>2, <1>3 DEF InWait, S!Fresh
<1>6. InCheck' /\ InSleep' /\ Told'
  BY DEF InCheck, InSleep, Told, S!Fresh, S!Deps
<1>7. S!GivesUpOnTime'
  BY <1>1, <1>3 DEF S!GivesUpOnTime, S!Fresh
<1> QED BY <1>4, <1>5, <1>6, <1>7 DEF StartInv

LEMMA InitIsSafe ==
  ASSUME S!Init
  PROVE  StartInv
<1>1. attempts \in Nat /\ Interval \in Nat \ {0}
  BY StartupAssumption DEF S!Init
<1>2. S!TypeOK
  BY StartupAssumption DEF S!Init, S!TypeOK, S!Phases, S!Never
<1>3. S!Deadline \in Nat
  BY <1>2, DeadlineFacts
<1>4. InWait /\ InCheck /\ InSleep /\ Told
  BY DEF S!Init, InWait, InCheck, InSleep, Told, S!Deps
<1>5. S!GivesUpOnTime
  BY <1>1, <1>3 DEF S!Init, S!GivesUpOnTime
<1> QED BY <1>2, <1>4, <1>5 DEF StartInv

-----------------------------------------------------------------------------
\* WaitForReady at the top of its loop
LEMMA LoopIsSafe ==
  ASSUME StartInv, S!Exhausted \/ S!ContextDone \/ S!BeginCheck
  PROVE  StartInv'
<1>0. S!TypeOK /\ InWait /\ S!GivesUpOnTime
  BY DEF StartInv
<1>1. /\ S!Deadline' = S!Deadline /\ S!Deadline \in Nat
      /\ Slept(attempt)' = Slept(attempt)
      /\ attempts # 0 => S!Deadline >= Interval
  BY <1>0, DeadlineFacts
    DEF S!Deadline, Slept, S!Exhausted, S!ContextDone, S!BeginCheck
<1>2. /\ attempts \in Nat /\ attempt \in Nat \ {0}
      /\ now \in Nat /\ since \in Nat /\ lastBad \in Nat \cup {-1}
      /\ Interval \in Nat \ {0} /\ CheckTime \in Nat
  BY <1>0, StartupAssumption DEF S!TypeOK, S!Never
<1>3. S!TypeOK'
  BY <1>0
    DEF S!TypeOK, S!Phases, S!Deps, S!Exhausted, S!ContextDone, S!BeginCheck
<1>4. CASE S!Exhausted
  <2>1. attempts = 0
    BY <1>0, <1>2, <1>4 DEF InWait, S!Exhausted
  <2>2. S!GivesUpOnTime' /\ Told'
    BY <1>0, <1>1, <1>4, <2>1 DEF S!GivesUpOnTime, Told, S!Exhausted
  <2> QED BY <1>3, <1>4, <2>2
    DEF StartInv, InWait, InCheck, InSleep, S!Deps, S!Exhausted
<1>5. CASE S!ContextDone
  <2>1. attempt > 1
    BY <1>0, <1>1, <1>2, <1>5 DEF InWait, S!ContextDone, S!MayBeDone
  <2>2. S!GivesUpOnTime'
    BY <1>0, <1>1, <1>2, <1>5, <2>1
      DEF InWait, S!GivesUpOnTime, S!ContextDone, S!MayBeDone
  <2> QED BY <1>3, <1>5, <2>2
    DEF StartInv, InWait, InCheck, InSleep, Told, S!Deps, S!ContextDone
<1>6. CASE S!BeginCheck
  <2>1. InCheck'
    BY <1>0, <1>1, <1>2, <1>6 DEF InWait, InCheck, S!BeginCheck, S!MustBeDone
  <2>2. S!GivesUpOnTime' /\ Told'
    BY <1>0, <1>1, <1>6 DEF S!GivesUpOnTime, Told, S!BeginCheck
  <2> QED BY <1>3, <1>6, <2>1, <2>2 DEF StartInv, InWait, InSleep, S!BeginCheck
<1> QED BY <1>4, <1>5, <1>6

\* One of the three checks
LEMMA CheckIsSafe ==
  ASSUME StartInv, NEW d \in S!Deps, S!CheckPasses(d) \/ S!CheckFails(d)
  PROVE  StartInv'
<1>0. S!TypeOK /\ InCheck /\ Told /\ S!GivesUpOnTime
  BY DEF StartInv
<1>1. /\ S!Deadline' = S!Deadline /\ S!Deadline \in Nat
      /\ Slept(attempt)' = Slept(attempt)
  BY <1>0, DeadlineFacts DEF S!Deadline, Slept, S!CheckPasses, S!CheckFails
<1>2. /\ attempts \in Nat /\ attempt \in Nat
      /\ now \in Nat /\ since \in Nat /\ since <= now
      /\ seen \in [S!Deps -> Nat \cup {-1}]
      /\ phase = d
  BY <1>0 DEF S!TypeOK, InCheck, S!CheckPasses, S!CheckFails, S!Never
<1>3. /\ phase' \in {"registry", "minio", "verdict"}
      /\ phase' = "registry" <=> d = "redpanda"
      /\ phase' = "minio" <=> d = "registry"
      /\ phase' = "verdict" <=> d = "minio"
  BY DEF S!CheckPasses, S!CheckFails, S!After, S!Deps
<1>4. S!TypeOK'
  <2>1. seen' \in [S!Deps -> Nat \cup {S!Never}] /\ errs' \subseteq S!Deps
    BY <1>0, <1>2 DEF S!TypeOK, S!CheckPasses, S!CheckFails, S!Never
  <2>2. lastBad' \in Nat \cup {S!Never} /\ phase' \in S!Phases
    BY <1>0, <1>3 DEF S!TypeOK, S!CheckPasses, S!CheckFails, S!Phases, S!Deps
  <2> QED BY <1>0, <2>1, <2>2 DEF S!TypeOK, S!CheckPasses, S!CheckFails
<1>5. InCheck'
  <2>1. UNCHANGED <<attempts, attempt, now, since>>
    BY DEF S!CheckPasses, S!CheckFails
  <2>2. errs' # {} => lastBad' >= since
    BY <1>0, <1>2 DEF InCheck, S!CheckPasses, S!CheckFails
  <2> QED BY <1>0, <1>1, <1>2, <2>1, <2>2 DEF InCheck
<1>6. Told'
  <2>1. since' = since /\ (d \in errs' \/ seen'[d] >= since)
    BY <1>2 DEF S!CheckPasses, S!CheckFails
  <2>2. ASSUME NEW e \in S!Deps, e # d, e \in errs \/ seen[e] >= since
        PROVE  e \in errs' \/ seen'[e] >= since
    BY <1>2, <2>2 DEF S!CheckPasses, S!CheckFails
  <2> QED BY <1>0, <1>2, <1>3, <2>1, <2>2 DEF Told, S!Deps
<1>7. S!GivesUpOnTime'
  BY <1>0, <1>1, <1>3 DEF S!GivesUpOnTime, S!CheckPasses, S!CheckFails
<1> QED BY <1>3, <1>4, <1>5, <1>6, <1>7 DEF StartInv, InWait, InSleep

\* CheckAll has returned.
LEMMA VerdictIsSafe ==
  ASSUME StartInv, S!Verdict
  PROVE  StartInv'
<1>0. S!TypeOK /\ InCheck /\ Told /\ S!GivesUpOnTime
  BY DEF StartInv
<1>1. /\ S!Deadline' = S!Deadline /\ S!Deadline \in Nat
      /\ Slept(attempt)' = Slept(attempt)
      /\ Slept(attempts) = S!Deadline - Interval
  BY <1>0, DeadlineFacts DEF S!Deadline, Slept, S!Verdict
<1>2. /\ attempts \in Nat /\ attempt \in Nat
      /\ now \in Nat /\ since \in Nat /\ lastBad \in Nat \cup {-1}
      /\ seen \in [S!Deps -> Nat \cup {-1}]
      /\ Interval \in Nat \ {0} /\ CheckTime \in Nat
  BY <1>0, StartupAssumption DEF S!TypeOK, S!Never
<1>3. S!TypeOK'
  BY <1>0 DEF S!TypeOK, S!Verdict, S!Phases, S!Never
<1>4. CASE S!Healthy
  <2>1. /\ phase' = "open" /\ since' = now
        /\ UNCHANGED <<attempts, now, seen, lastBad>>
    BY <1>4 DEF S!Verdict
  <2>2. \A d \in S!Deps : seen[d] >= since
    BY <1>0, <1>4 DEF Told, S!Healthy, S!Verdict
  <2>3. now <= since + CheckTime
    BY <1>0 DEF InCheck, S!Verdict
  <2>4. S!Checked'
    BY <1>2, <2>1, <2>2, <2>3 DEF S!Checked, S!Never
  <2>5. S!GivesUpOnTime'
    BY <1>0, <1>1, <2>1 DEF S!GivesUpOnTime
  <2> QED BY <1>3, <2>1, <2>4, <2>5
    DEF StartInv, InWait, InCheck, InSleep, Told, S!Deps
<1>5. CASE ~S!Healthy
  <2>1. /\ phase = "verdict"
        /\ phase' = IF S!MoreAttempts THEN "sleep" ELSE "gaveUp"
        /\ since' = now /\ errs' = {}
        /\ UNCHANGED <<attempts, attempt, now, lastBad>>
    BY <1>5 DEF S!Verdict
  <2>2. /\ Slept(attempt) <= since /\ since <= now /\ now <= S!Deadline
        /\ now <= since + CheckTime /\ attempt <= attempts /\ lastBad >= since
    BY <1>0, <1>5 DEF InCheck, S!Healthy, S!Verdict
  <2>3. CASE S!MoreAttempts
    <3>1. InSleep'
      <4>1. Slept(attempt) \in Int
        BY <1>2, SleptFacts
      <4> QED BY <1>1, <1>2, <2>1, <2>2, <2>3, <4>1 DEF InSleep, S!MoreAttempts
    <3> QED BY <1>0, <1>1, <1>3, <2>1, <2>3, <3>1
      DEF StartInv, InWait, InCheck, Told, S!GivesUpOnTime, S!Deps
  <2>4. CASE ~S!MoreAttempts
    <3>1. attempt = attempts
      BY <1>2, <2>2, <2>4 DEF S!MoreAttempts
    <3>2. lastBad >= S!Deadline - Interval
      BY <1>1, <1>2, <2>2, <3>1
    <3>3. S!GivesUpOnTime'
      BY <1>0, <1>1, <1>2, <2>1, <2>4, <3>2 DEF S!GivesUpOnTime
    <3> QED BY <1>3, <2>1, <2>4, <3>3
      DEF StartInv, InWait, InCheck, InSleep, Told, S!Deps
  <2> QED BY <2>3, <2>4
<1> QED BY <1>4, <1>5

\* The sleep is over.
LEMMA WakeIsSafe ==
  ASSUME StartInv, S!Wake
  PROVE  StartInv'
<1>0. S!TypeOK /\ InSleep /\ S!GivesUpOnTime
  BY DEF StartInv
<1>2. /\ attempts \in 0..MaxAttempts /\ attempt \in 1..MaxAttempts
      /\ now \in Nat /\ since \in Nat /\ lastBad \in Nat \cup {-1}
      /\ Interval \in Nat \ {0} /\ CheckTime \in Nat /\ MaxAttempts \in Nat
  BY <1>0, StartupAssumption DEF S!TypeOK, S!Never
<1>1. /\ S!Deadline' = S!Deadline /\ S!Deadline \in Nat
      /\ Slept(attempt)' = Slept(attempt) + Interval
      /\ Slept(attempt) \in Int
  BY <1>0, <1>2, DeadlineFacts, SleptFacts DEF S!Deadline, Slept, S!Wake
<1>3. attempt' = attempt + 1 /\ attempt < attempts
  BY <1>0 DEF InSleep, S!Wake
<1>4. S!TypeOK'
  <2>1. attempt' \in 1..MaxAttempts
    BY <1>2, <1>3
  <2> QED BY <1>0, <2>1 DEF S!TypeOK, S!Wake, S!Phases
<1>5. InWait'
  BY <1>0, <1>1, <1>2, <1>3 DEF InSleep, InWait, S!Wake
<1>6. S!GivesUpOnTime'
  BY <1>0, <1>1 DEF S!GivesUpOnTime, S!Wake
<1> QED BY <1>4, <1>5, <1>6
  DEF StartInv, InCheck, InSleep, Told, S!Deps, S!Wake

\* Time passes.
LEMMA TickIsSafe ==
  ASSUME StartInv, S!Tick
  PROVE  StartInv'
<1>0. S!TypeOK /\ InCheck /\ InSleep /\ Told /\ S!GivesUpOnTime
  BY DEF StartInv
<1>1. /\ S!Deadline' = S!Deadline /\ S!Deadline \in Nat
      /\ Slept(attempt)' = Slept(attempt)
  BY <1>0, DeadlineFacts DEF S!Deadline, Slept, S!Tick
<1>2. /\ now \in Nat /\ since \in Nat /\ now' = now + 1
      /\ Interval \in Nat \ {0} /\ CheckTime \in Nat
      /\ UNCHANGED <<attempts, phase, attempt, since, errs, seen, lastBad>>
  BY <1>0, StartupAssumption DEF S!TypeOK, S!Tick
<1>3. S!TypeOK'
  BY <1>0, <1>2 DEF S!TypeOK
<1>4. CASE S!CheckMayLast
  <2>1. phase \in S!Deps
    BY <1>4 DEF S!CheckMayLast
  <2>2. InCheck'
    BY <1>0, <1>1, <1>2, <1>4 DEF InCheck, S!CheckMayLast, S!MayBeDone
  <2>3. S!GivesUpOnTime'
    BY <1>1, <1>2, <2>1, <2>2 DEF S!GivesUpOnTime, InCheck, S!Deps
  <2> QED BY <1>0, <1>2, <1>3, <2>1, <2>2, <2>3
    DEF StartInv, InWait, InSleep, Told, S!Deps
<1>5. CASE S!SleepLasts
  <2>1. phase = "sleep"
    BY <1>5 DEF S!SleepLasts
  <2>2. InSleep'
    BY <1>0, <1>1, <1>2, <1>5 DEF InSleep, S!SleepLasts
  <2>3. S!GivesUpOnTime'
    BY <1>1, <1>2, <2>1, <2>2 DEF S!GivesUpOnTime, InSleep
  <2> QED BY <1>2, <1>3, <2>1, <2>2, <2>3
    DEF StartInv, InWait, InCheck, Told, S!Deps
<1>6. CASE S!OpenLasts
  <2>1. phase = "open"
    BY <1>6 DEF S!OpenLasts
  <2>2. Told'
    BY <1>0, <1>2 DEF Told, S!Checked, S!Deps
  <2> QED BY <1>2, <1>3, <2>1, <2>2
    DEF StartInv, InWait, InCheck, InSleep, S!GivesUpOnTime, S!Deps
<1> QED BY <1>4, <1>5, <1>6 DEF S!Tick

-----------------------------------------------------------------------------
LEMMA StartInvStep ==
  ASSUME StartInv, [S!Next]_(S!startupVars)
  PROVE  StartInv'
<1>0. S!TypeOK
  BY DEF StartInv
<1>1. CASE S!Boot \/ S!Opened \/ S!OpenFails \/ S!Killed \/ S!Stopped
  BY <1>0, <1>1, FreshIsSafe
    DEF S!Boot, S!Opened, S!OpenFails, S!Killed, S!Stopped
<1>2. CASE S!Exhausted \/ S!ContextDone \/ S!BeginCheck
  BY <1>2, LoopIsSafe
<1>3. CASE S!Check
  BY <1>3, CheckIsSafe DEF S!Check
<1>4. CASE S!Verdict
  BY <1>4, VerdictIsSafe
<1>5. CASE S!Wake
  BY <1>5, WakeIsSafe
<1>6. CASE S!Tick
  BY <1>6, TickIsSafe
<1>7. CASE UNCHANGED S!startupVars
  BY <1>7
    DEF S!startupVars, S!waiting, StartInv, S!TypeOK, InWait, InCheck, InSleep,
      Told, S!GivesUpOnTime, S!Checked, S!Deadline, Slept
<1> QED BY <1>1, <1>2, <1>3, <1>4, <1>5, <1>6, <1>7 DEF S!Next, S!Waiting

LEMMA StartInvHolds == S!Spec => []StartInv
<1>1. S!Init => StartInv
  BY InitIsSafe
<1>2. StartInv /\ [S!Next]_(S!startupVars) => StartInv'
  BY StartInvStep
<1> QED BY <1>1, <1>2, PTL DEF S!Spec

(***************************************************************************)
(* Type correctness: among others, WaitForReady never makes more attempts  *)
(* than STARTUP_MAX_RETRIES.                                               *)
(***************************************************************************)
THEOREM StartTypes == S!Spec => []S!TypeOK
<1>1. StartInv => S!TypeOK
  BY DEF StartInv
<1> QED BY <1>1, StartInvHolds, PTL

(***************************************************************************)
(* A wait does not give up early and passes its deadline by one interval   *)
(* at most, for every number of attempts, interval and length of a check.  *)
(***************************************************************************)
THEOREM WaitIsTimely == S!Spec => []S!GivesUpOnTime
<1>1. StartInv => S!GivesUpOnTime
  BY DEF StartInv
<1> QED BY <1>1, StartInvHolds, PTL

(***************************************************************************)
(* A service that starts had found every dependency well within a round of *)
(* checks before WaitForReady returned, unless it is told to make no       *)
(* attempt (the action property StartIsChecked), however long              *)
(* NewParquetSink then takes.                                              *)
(***************************************************************************)
THEOREM StartsChecked == S!Spec => S!StartIsChecked
<1>1. StartInv /\ [S!Next]_(S!startupVars) =>
        [phase # "up" /\ phase' = "up"
           => attempts = 0 \/ S!Checked]_(S!startupVars)
  <2> SUFFICES ASSUME StartInv, S!Next, phase # "up", phase' = "up"
               PROVE  attempts = 0 \/ S!Checked
    OBVIOUS
  <2>1. phase = "open"
    BY DEF S!Next, S!Waiting, S!Boot, S!Exhausted, S!ContextDone, S!BeginCheck,
       S!Check, S!CheckPasses, S!CheckFails, S!After, S!Deps, S!Verdict, S!Wake,
       S!OpenFails, S!Tick, S!Opened, S!Killed, S!Stopped, S!Fresh
  <2> QED BY <2>1 DEF StartInv, Told
<1> QED BY <1>1, StartInvHolds, PTL DEF S!Spec, S!StartIsChecked

-----------------------------------------------------------------------------
LEMMA StepIsConsumers ==
  ASSUME [ServiceNext]_serviceVars
  PROVE  [Next]_vars
<1>1. CASE Run
  BY <1>1 DEF Run, Next
<1>2. CASE Running
  BY <1>2 DEF Running, Next
<1>3. CASE Ends
  BY <1>3 DEF Ends, Next, Main
<1>4. CASE Starting \/ UNCHANGED serviceVars
  BY <1>4 DEF Starting, serviceVars
<1> QED BY <1>1, <1>2, <1>3, <1>4 DEF ServiceNext

LEMMA StepIsStartups ==
  ASSUME [ServiceNext]_serviceVars
  PROVE  [S!Next]_(S!startupVars)
<1>1. CASE Run
  BY <1>1 DEF Run, S!Next
<1>2. CASE Running \/ UNCHANGED serviceVars
  BY <1>2 DEF Running, startup, serviceVars, S!startupVars, S!waiting
<1>3. CASE Ends
  BY <1>3 DEF Ends, S!Next
<1>4. CASE Starting
  BY <1>4 DEF Starting, S!Next
<1> QED BY <1>1, <1>2, <1>3, <1>4 DEF ServiceNext

(***************************************************************************)
(* Seen without its start-up, the service is the Consumer: the health      *)
(* checks, however they end, give it no step of its own.                   *)
(***************************************************************************)
THEOREM IsConsumer == ServiceSpec => Spec
<1>1. ServiceInit => Init
  BY DEF ServiceInit
<1> QED BY <1>1, StepIsConsumers, PTL DEF ServiceSpec, Spec

(***************************************************************************)
(* Seen from its start-up, the service is Startup: a process that runs     *)
(* stays up until main returns or it is killed.                            *)
(***************************************************************************)
THEOREM IsStartup == ServiceSpec => S!Spec
<1>1. ServiceInit => S!Init
  BY DEF ServiceInit
<1> QED BY <1>1, StepIsStartups, PTL DEF ServiceSpec, S!Spec

(***************************************************************************)
(* So does every wait of the service, in every life of the process.        *)
(***************************************************************************)
THEOREM ServiceIsTimely == ServiceSpec => []GivesUpOnTime
BY IsStartup, WaitIsTimely, PTL DEF GivesUpOnTime

(***************************************************************************)
(* The loop of the service runs only behind a round of checks that found   *)
(* every dependency well, in every life of the process, unless it is told  *)
(* to make no attempt.                                                     *)
(***************************************************************************)
THEOREM ServiceStartsChecked == ServiceSpec => StartIsChecked
BY IsStartup, StartsChecked, PTL DEF StartIsChecked

\* What ties the two parts together
Together == Alive <=> phase = "up"

LEMMA StaysTogether ==
  ASSUME Together, [ServiceNext]_serviceVars
  PROVE  Together'
<1>1. CASE Run
  BY <1>1 DEF Run, Start, S!Opened, S!Fresh, Together, Alive
<1>2. CASE Running
  <2>1. phase' = phase
    BY <1>2 DEF Running, startup
  <2>2. CASE Main /\ pc # "exit"
    BY <2>1, <2>2
      DEF Together, Alive, Main, Goto, CheckContext, ReadCancelled, ReadFetch,
        ReadReturns, ReadError, DecodeOK, DecodeError, NextRetry, WriteFailed,
        WriteFailedPanics, WriteFailedRefuses, WriteRow, Commit, CloseBatcher, CloseReturns, Exit
  <2>3. CASE Produce \/ LoopFlush \/ Upload \/ Signal \/ Rejoin
    BY <2>1, <2>3
      DEF Together, Alive, Produce, LoopFlush, Upload, UploadOK, UploadFails,
        Signal, Rejoin, process
  <2> QED BY <1>2, <2>2, <2>3 DEF Running
<1>3. CASE Ends
  BY <1>3 DEF Ends, Exit, Crash, Die, Goto, S!Stopped, S!Fresh, Together, Alive
<1>4. CASE Starting
  <2>1. pc' = pc
    BY <1>4 DEF Starting, vars, process
  <2>2. phase # "up" /\ phase' # "up"
    BY <1>4
      DEF Starting, S!Waiting, S!Tick, S!Killed, S!Boot, S!Exhausted,
        S!ContextDone, S!BeginCheck, S!Check, S!CheckPasses, S!CheckFails,
        S!After, S!Deps, S!Verdict, S!Wake, S!OpenFails, S!Fresh, S!CheckMayLast,
        S!SleepLasts, S!OpenLasts
  <2> QED BY <2>1, <2>2 DEF Together, Alive
<1>5. CASE UNCHANGED serviceVars
  BY <1>5 DEF serviceVars, vars, process, startup, Together, Alive
<1> QED BY <1>1, <1>2, <1>3, <1>4, <1>5 DEF ServiceNext

(***************************************************************************)
(* The process of Consumer is alive exactly while Startup is through: in   *)
(* particular the loop never runs while a health check is made.            *)
(***************************************************************************)
THEOREM ServiceTypes == ServiceSpec => []ServiceTypeOK
<1>1. ServiceSpec => []S!TypeOK
  BY IsStartup, StartTypes, PTL
<1>2. ServiceInit => Together
  BY DEF ServiceInit, Init, S!Init, Together, Alive
<1>3. ServiceSpec => []Together
  BY <1>2, StaysTogether, PTL DEF ServiceSpec
<1>4. TypeOK /\ S!TypeOK /\ Together => ServiceTypeOK
  BY DEF ServiceTypeOK, Together
<1> QED BY <1>1, <1>3, <1>4, IsConsumer, TypeCorrect, PTL

(***************************************************************************)
(* The bound on copies in the sink holds of the service, however often its *)
(* start fails.                                                            *)
(***************************************************************************)
THEOREM ServiceDuplicates == ServiceSpec => []DuplicatesBounded
BY IsConsumer, SinkDuplicates, PTL

(***************************************************************************)
(* In the service too, MAX_RETRIES = 0 lets a life of the process drop no  *)
(* other message than the one in main's hands when it ends.                *)
(***************************************************************************)
THEOREM ServiceDrops == ServiceSpec => []DropsEndALife
BY IsConsumer, DropsEnd, PTL
=============================================================================
