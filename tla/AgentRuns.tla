---------------------------------- MODULE AgentRuns ----------------------------------
(***************************************************************************)
(* What makes an agent run: the turns of a chat, by the gateway's loop,    *)
(* and the jobs that are due, by the scheduler.  The two share no state,   *)
(* so every behaviour is one of one part, chosen at the start, and the     *)
(* other stays as it is.  What a job does while it runs, an agent turn of  *)
(* its own key, is any outcome to the scheduler; that turn is the part     *)
(* Cron of Channels.                                                       *)
(***************************************************************************)
EXTENDS SessionTurns

CONSTANTS
  Names, Kind, Delay, CatchupLimit, MaxTimerDelay, NumSlots, NumTicks, MaxTime,   \* Scheduler
  MaxAdds, MaxCrashes, MayForget, StoreFails

VARIABLES
  part,      (* the part of this behaviour *)
  jJobs, jNow, jProc, jCtxDone, jStopped, jTimer, jTick, jRuns, jCaughtUp, jAdds,
  jCrashes, jWanted, jSucceeded

jVars ==
  <<jJobs, jNow, jProc, jCtxDone, jStopped, jTimer, jTick, jRuns, jCaughtUp, jAdds,
    jCrashes, jWanted, jSucceeded>>

Scheduler == INSTANCE CronScheduler WITH
  jobs <- jJobs, now <- jNow, proc <- jProc, ctxDone <- jCtxDone, stopped <- jStopped,
  timer <- jTimer, tick <- jTick, runs <- jRuns, caughtUp <- jCaughtUp, adds <- jAdds,
  crashes <- jCrashes, wanted <- jWanted, succeeded <- jSucceeded

AgentInit ==
  /\ part \in {"Turns", "Scheduler"}
  /\ Init
  /\ Scheduler!Init

TurnsStep == part = "Turns" /\ Next /\ UNCHANGED <<part, jVars>>

SchedulerStep == part = "Scheduler" /\ Scheduler!Next /\ UNCHANGED <<part, vars>>

agentVars == <<part, vars, jVars>>

AgentNext == TurnsStep \/ SchedulerStep

(* The fairness of each part.  A turn's goroutine does not begin by itself, *)
(* so it has nothing to do in the scheduler's behaviours; the clock and the *)
(* start of the scheduler would, in those of the turns.                     *)
AgentSpec ==
  /\ AgentInit /\ [][AgentNext]_agentVars
  /\ Fairness
  /\ WF_jVars(part = "Scheduler" /\ Scheduler!StartStep)
  /\ WF_jVars(part = "Scheduler" /\ Scheduler!ClockTicks)
  /\ \A k \in Scheduler!Ticks : WF_jVars(part = "Scheduler" /\ Scheduler!TickStep(k))
  /\ WF_jVars(part = "Scheduler" /\ \E k \in Scheduler!Ticks : Scheduler!TimerFires(k))
--------------------------------------------------------------------------------------
(* A running marker has a goroutine that will finish the job. *)
NoGhostRunning == Scheduler!NoGhostRunning

(* The scheduler does not fall asleep: a due job is claimed. *)
DueJobIsClaimed == Scheduler!DueJobIsClaimed
======================================================================================
