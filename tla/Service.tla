------------------------------ MODULE Service ------------------------------
(***************************************************************************)
(* The consumer service from its first line: Startup, then Consumer.  The  *)
(* process of Consumer is alive from the moment Startup is through, and    *)
(* when it ends it starts with the health checks again.                    *)
(***************************************************************************)
EXTENDS Consumer, StartupConstants

VARIABLES attempts, phase, attempt, now, since, errs, seen, lastBad

S == INSTANCE Startup

startup == <<attempts, phase, attempt, now, since, errs, seen, lastBad>>
serviceVars == <<vars, startup>>

ServiceInit == Init /\ S!Init

\* The bucket is there, so main comes to its loop.
Run == S!Opened /\ Start

\* Messages are produced whatever the service does.
Running ==
  /\ \/ Produce \/ (Main /\ pc # "exit") \/ LoopFlush \/ Upload \/ Signal \/ Rejoin
  /\ UNCHANGED startup

\* main returns, or the process is killed.
Ends == (Exit \/ Crash) /\ S!Stopped

\* Nothing but the checks happens before the start.
Starting ==
  /\ lives < MaxLives
  /\ S!Waiting \/ S!Tick \/ (May("signal") /\ S!Killed)
  /\ UNCHANGED vars

ServiceNext == Run \/ Running \/ Ends \/ Starting

(***************************************************************************)
(* Fairness: as in Consumer, and the supervisor runs the process, the      *)
(* checks answer and time passes.                                          *)
(***************************************************************************)
ServiceSpec ==
  /\ ServiceInit
  /\ [][ServiceNext]_serviceVars
  /\ WF_serviceVars(Run)
  /\ WF_serviceVars(Main /\ pc # "exit" /\ UNCHANGED startup)
  /\ WF_serviceVars(Exit /\ S!Stopped)
  /\ WF_serviceVars(LoopFlush /\ UNCHANGED startup)
  /\ WF_serviceVars(Upload /\ UNCHANGED startup)
  /\ WF_serviceVars(S!Waiting /\ Starting)
  /\ WF_serviceVars(S!Tick /\ Starting)

-----------------------------------------------------------------------------
ServiceTypeOK ==
  /\ TypeOK
  /\ S!TypeOK
  /\ Alive <=> phase = "up"

\* See Startup: what a start has checked ...
StartIsChecked == S!StartIsChecked

\* ... when a wait gives up ...
GivesUpOnTime == S!GivesUpOnTime

\* ... and what the documents say of that.
WithinDeadline == S!WithinDeadline

(***************************************************************************)
(* If from some time on every dependency answers whenever it is asked, and *)
(* no signal comes during a start, the service comes up: a wait can still  *)
(* run into its deadline, but no attempt and no restart leaves anything    *)
(* behind that makes the next one fail.                                    *)
(***************************************************************************)
EventuallyStarts ==
  <>[][~S!Refused /\ ~S!Killed]_serviceVars
    => (pc = "down" /\ lives < MaxLives) ~> Alive
=============================================================================
