------------------------------ MODULE Startup ------------------------------
(***************************************************************************)
(* How the consumer service starts: HealthChecker.WaitForReady polls the   *)
(* broker, the schema registry and the bucket, then NewParquetSink looks   *)
(* for the bucket once more.  A start that fails ends the process          *)
(* (log.Fatalf), and its supervisor runs it again.                         *)
(*                                                                         *)
(* Time is counted from context.WithTimeout.  It passes in the sleep       *)
(* between two attempts, which ignores the context, in the checks, which   *)
(* the context cuts short, and in NewParquetSink, whose request has        *)
(* neither a context nor a timeout that would end it.                      *)
(***************************************************************************)
EXTENDS StartupConstants

VARIABLES
  attempts,         \* STARTUP_MAX_RETRIES
  phase,            \* where main is
  attempt,          \* WaitForReady's loop variable
  now,              \* the time since context.WithTimeout
  since,            \* when this CheckAll, sleep or NewParquetSink began
  errs,             \* CheckAll's errs: the dependencies it found failing
  seen,             \* history: when the last CheckAll found each one well
  lastBad           \* history: when a check last failed

waiting == <<phase, attempt, now, since, errs, seen, lastBad>>
startupVars == <<attempts, waiting>>

Deps == {"redpanda", "registry", "minio"}
Never == -1
Phases == {"off", "wait", "verdict", "sleep", "gaveUp", "open", "up"} \cup Deps

TypeOK ==
  /\ attempts \in 0..MaxAttempts
  /\ phase \in Phases
  /\ attempt \in 1..MaxAttempts
  /\ now \in Nat
  /\ since \in Nat
  /\ errs \subseteq Deps
  /\ seen \in [Deps -> Nat \cup {Never}]
  /\ lastBad \in Nat \cup {Never}

\* The values before a wait, and those kept when nothing is waited for.
Fresh(p) ==
  /\ phase' = p
  /\ attempt' = 1
  /\ now' = 0
  /\ since' = 0
  /\ errs' = {}
  /\ seen' = [d \in Deps |-> Never]
  /\ lastBad' = Never

Init ==
  /\ attempts \in 0..MaxAttempts
  /\ phase = "off"
  /\ attempt = 1
  /\ now = 0
  /\ since = 0
  /\ errs = {}
  /\ seen = [d \in Deps |-> Never]
  /\ lastBad = Never

-----------------------------------------------------------------------------
\* The definitions named ...Bug are not part of the specification: each is a
\* slip the next definition could contain.
DeadlineBug == (attempts - 1) * Interval

Deadline == attempts * Interval

\* At the deadline itself the timer may have fired or not.
MayBeDone == now >= Deadline
MustBeDone == now > Deadline

\* The supervisor runs the program; main makes the context.
Boot ==
  /\ phase \in {"off", "gaveUp"}
  /\ Fresh("wait")
  /\ UNCHANGED attempts

\* The loop of WaitForReady has no attempt left: with zero attempts it has
\* none to begin with, and reports success.
Exhausted ==
  /\ phase = "wait"
  /\ attempt > attempts
  /\ phase' = "open"
  /\ since' = now
  /\ UNCHANGED <<attempts, attempt, now, errs, seen, lastBad>>

\* The select finds the context done ...
ContextDone ==
  /\ phase = "wait"
  /\ attempt <= attempts
  /\ MayBeDone
  /\ phase' = "gaveUp"
  /\ UNCHANGED <<attempts, attempt, now, since, errs, seen, lastBad>>

\* ... or the attempt begins.
BeginCheck ==
  /\ phase = "wait"
  /\ attempt <= attempts
  /\ ~MustBeDone
  /\ phase' = "redpanda"
  /\ since' = now
  /\ UNCHANGED <<attempts, attempt, now, errs, seen, lastBad>>

After(d) ==
  CASE d = "redpanda" -> "registry"
    [] d = "registry" -> "minio"
    [] d = "minio"    -> "verdict"

\* checkRedpanda, checkSchemaRegistry, checkMinIO: each is made, whatever the
\* one before it found.
CheckPasses(d) ==
  /\ phase = d
  /\ seen' = [seen EXCEPT ![d] = now]
  /\ phase' = After(d)
  /\ UNCHANGED <<attempts, attempt, now, since, errs, lastBad>>

CheckFails(d) ==
  /\ phase = d
  /\ errs' = errs \cup {d}
  /\ lastBad' = now
  /\ phase' = After(d)
  /\ UNCHANGED <<attempts, attempt, now, since, seen>>

Check == \E d \in Deps : CheckPasses(d) \/ CheckFails(d)

HealthyBug == "minio" \notin errs

Healthy == errs = {}

MoreAttemptsBug1 == attempt + 1 < attempts
MoreAttemptsBug2 == attempt <= attempts

MoreAttempts == attempt < attempts

\* What WaitForReady does with the result of CheckAll, whose errs end with it
Verdict ==
  /\ phase = "verdict"
  /\ \/ /\ Healthy
        /\ phase' = "open"
        /\ UNCHANGED seen
     \/ /\ ~Healthy
        /\ phase' = IF MoreAttempts THEN "sleep" ELSE "gaveUp"
        /\ seen' = [d \in Deps |-> Never]
  /\ since' = now
  /\ errs' = {}
  /\ UNCHANGED <<attempts, attempt, now, lastBad>>

\* time.Sleep returns.
Wake ==
  /\ phase = "sleep"
  /\ now = since + Interval
  /\ attempt' = attempt + 1
  /\ phase' = "wait"
  /\ UNCHANGED <<attempts, now, since, errs, seen, lastBad>>

\* A check goes on until the dependency answers or the context is done.
CheckMayLast ==
  phase \in Deps /\ now < since + CheckTime /\ ~MayBeDone

SleepLasts == phase = "sleep" /\ now < since + Interval

\* BucketExists is called with context.Background().
OpenLasts == phase = "open" /\ now < since + OpenLimit

Tick ==
  /\ CheckMayLast \/ SleepLasts \/ OpenLasts
  /\ now' = now + 1
  /\ UNCHANGED <<attempts, phase, attempt, since, errs, seen, lastBad>>

\* NewParquetSink finds the bucket, and main goes on to its loop ...
Opened ==
  /\ phase = "open"
  /\ Fresh("up")
  /\ UNCHANGED attempts

\* ... or does not, and the process ends.
OpenFails ==
  /\ phase = "open"
  /\ Fresh("off")
  /\ UNCHANGED attempts

\* A signal before signal.Notify has its default effect.
Killed ==
  /\ phase \notin {"off", "gaveUp", "up"}
  /\ Fresh("off")
  /\ UNCHANGED attempts

\* The process that was up ends.
Stopped ==
  /\ phase = "up"
  /\ Fresh("off")
  /\ UNCHANGED attempts

\* A dependency does not answer, or answers with an error; a check that fails
\* because the context is done says nothing of the dependency.
Refused ==
  \/ ~MayBeDone /\ \E d \in Deps : CheckFails(d)
  \/ OpenFails

Waiting ==
  \/ Boot \/ Exhausted \/ ContextDone \/ BeginCheck \/ Check \/ Verdict
  \/ Wake \/ OpenFails

Next == Waiting \/ Tick \/ Opened \/ Killed \/ Stopped

Spec == Init /\ [][Next]_startupVars

-----------------------------------------------------------------------------
Checked == \A d \in Deps : seen[d] # Never /\ since <= seen[d] + CheckTime

(***************************************************************************)
(* A service that starts has found all three dependencies well, each       *)
(* within one round of checks of the moment when WaitForReady returned,    *)
(* although they come and go between the checks: except with               *)
(* STARTUP_MAX_RETRIES = 0, when WaitForReady checks nothing and reports   *)
(* success.  Nothing says how long ago that was: NewParquetSink comes in   *)
(* between, and may take any time.                                         *)
(***************************************************************************)
StartIsChecked ==
  [][phase # "up" /\ phase' = "up" => attempts = 0 \/ Checked]_startupVars

(***************************************************************************)
(* The wait neither gives up early nor hangs.  Attempts and deadline both  *)
(* limit it, the sleep ignores the deadline and a slow check uses up time: *)
(* a wait that gave up had a failed check in the last interval and round   *)
(* of checks before the deadline.  The deadline itself is not kept, see    *)
(* WithinDeadline; WaitForReady passes it by one interval at most.         *)
(***************************************************************************)
GivesUpOnTime ==
  /\ phase # "open" => now <= Deadline + Interval
  /\ phase = "gaveUp" => lastBad + CheckTime >= Deadline - Interval

(***************************************************************************)
(* What the documents say, and the code does not do.  sprint-4-            *)
(* reliability.md, line 329: "Consumer startup fails fast within 30s if    *)
(* infra is down", and the default deadline is 6 * 5 s.  The sleep of      *)
(* recovery.go:113 does not look at the context: an attempt that ends      *)
(* shortly before the deadline is followed by a whole interval of sleep,   *)
(* and only then the select finds the context done.                        *)
(***************************************************************************)
WithinDeadline == phase = "gaveUp" => now <= Deadline
=============================================================================
