----------------------------- MODULE CronScheduler -----------------------------
(***************************************************************************)
(* pkg/cron/scheduler.go and store.go: the cron scheduler, its job file,   *)
(* its timer and the goroutines that run jobs.                             *)
(*                                                                         *)
(* The file survives the process; everything else is lost in a crash.      *)
(* Each operation under s.mu that ends in one Save is one step; a run is   *)
(* claimed under the lock, executed outside it and finished under it       *)
(* again.  The file is replaced by a rename, so no step leaves half a      *)
(* file.  What a job does when it runs (agent turn, message, command) is   *)
(* external: it ends ok or in an error.                                    *)
(*                                                                         *)
(* Time is a counter.  Bounds: MaxTime, NumSlots (runs at one time),       *)
(* NumTicks (tick goroutines at one time), MaxAdds (AddJob calls),         *)
(* MaxCrashes.                                                             *)
(***************************************************************************)
EXTENDS Integers, FiniteSets

CONSTANTS
  Names,         (* names of jobs                                            *)
  Kind,          (* Kind[n]: "at", "every", "cron", or "broken" for a        *)
                 (* schedule computeNextRun rejects                          *)
  Delay,         (* Delay[n]: at_seconds, every_seconds, the cron period     *)
  CatchupLimit,  (* defaultStartupCatchupLimit                               *)
  MaxTimerDelay, (* defaultSchedulerMaxTimerDelay                            *)
  NumSlots, NumTicks, MaxTime, MaxAdds, MaxCrashes,
  MayForget,     (* may a user disable or remove a job that is running?      *)
  StoreFails     (* may the job file fail to load or save?                   *)

ASSUME CronAssumption ==
  /\ Names # {}
  /\ Kind \in [Names -> {"at", "every", "cron", "broken"}]
  /\ Delay \in [Names -> Nat \ {0}]
  /\ CatchupLimit \in Nat
  /\ MaxTimerDelay \in Nat \ {0}
  /\ {NumSlots, NumTicks, MaxTime, MaxAdds, MaxCrashes} \subseteq Nat
  /\ MayForget \in BOOLEAN
  /\ StoreFails \in BOOLEAN

Slots == 1..NumSlots
Ticks == 1..NumTicks
Nil == -1        (* a nil time, a stopped timer *)
NoJob == [gen |-> 0, enabled |-> FALSE, next |-> Nil, runningAt |-> Nil,
          lastRun |-> Nil, ok |-> FALSE, created |-> 0]

VARIABLES
  jobs,       (* the file: jobs[n] is NoJob or n's record; gen numbers the   *)
              (* AddJob calls, ok is LastStatus = "ok"                       *)
  now,        (* the clock                                                   *)
  proc,       (* the process and how far Start is                            *)
  ctxDone,    (* the context given to Start is cancelled                     *)
  stopped,    (* s.stopped                                                   *)
  timer,      (* when s.timer fires                                          *)
  tick,       (* tick[k]: a goroutine in tick, and its now                   *)
  runs,       (* runs[s]: a goroutine that holds a claimed job               *)
  caughtUp,   (* jobs claimed by runMissedJobs so far                        *)
  adds,       (* AddJob calls so far                                         *)
  crashes,    (* crashes so far                                              *)
  wanted,     (* history: names the user has added or enabled last           *)
  succeeded   (* history: gens of which a run has ended ok                   *)

vars == <<jobs, now, proc, ctxDone, stopped, timer, tick, runs, caughtUp,
          adds, crashes, wanted, succeeded>>

startVars == <<proc, ctxDone, stopped, caughtUp, crashes>>
history == <<adds, wanted, succeeded>>

IdleTick == [pc |-> "idle", now |-> 0]
FreeSlot == [phase |-> "free", name |-> CHOOSE n \in Names : TRUE, gen |-> 0]

IsRunning(j) == j.runningAt # Nil
Exists(n) == jobs[n].gen # 0
Live(s) == runs[s].phase # "free"
(* Slots are interchangeable: a new run takes the first free one. *)
FreeSlots == {s \in Slots : ~Live(s) /\ \A u \in Slots : u < s => Live(u)}
Started == proc \in {"marking", "catchup", "arming", "up"}
--------------------------------------------------------------------------------
(* The schedule *)

(* computeNextRun; the caller treats "broken" apart.                       *)
ComputeNextRun(n, j, t) ==
  LET after(from) == from + ((t - from) \div Delay[n] + 1) * Delay[n] IN
  CASE Kind[n] = "at"     -> IF j.ok /\ j.lastRun # Nil THEN Nil ELSE j.created + Delay[n]
    [] Kind[n] = "every"  -> IF j.lastRun # Nil /\ j.lastRun + Delay[n] > t
                             THEN j.lastRun + Delay[n]
                             ELSE IF t < j.created THEN j.created
                             ELSE after(j.created)
    [] Kind[n] = "cron"   -> after(0)
    [] Kind[n] = "broken" -> Nil

Scheduled(n, j, t) ==
  [j EXCEPT !.next = ComputeNextRun(n, j, t), !.ok = @ /\ Kind[n] # "broken"]

(* recomputeNextRunsLocked *)
Recomputed(js, t, existing) ==
  [n \in Names |->
    IF js[n].gen = 0 \/ (js[n].enabled /\ IsRunning(js[n])) THEN js[n]
    ELSE IF ~js[n].enabled THEN [js[n] EXCEPT !.next = Nil]
    ELSE IF js[n].next # Nil /\ ~existing THEN js[n]
    ELSE Scheduled(n, js[n], t)]

IsDue(j, t) == j.enabled /\ j.next # Nil /\ j.next <= t
Claimable_IgnoresRunning(js, t) == {n \in Names : IsDue(js[n], t)}

Claimable(js, t) == {n \in Names : IsDue(js[n], t) /\ ~IsRunning(js[n])}

(* nextWake, and the timer armTimerLocked sets from it *)
WakeTimes(js) ==
  {js[n].next : n \in {m \in Names : js[m].enabled /\ ~IsRunning(js[m]) /\ js[m].next # Nil}}

ArmTimer(js) ==
  \/ WakeTimes(js) = {} /\ timer' = Nil
  \/ \E wake \in WakeTimes(js) :
       /\ \A w \in WakeTimes(js) : wake <= w
       /\ timer' = IF wake < now THEN now
                   ELSE IF wake > now + MaxTimerDelay THEN now + MaxTimerDelay
                   ELSE wake

(* An operation has saved js and calls armTimerLocked, which recomputes    *)
(* and saves again.  When that fails the old timer, if any, is left.       *)
SaveAndArm(js) ==
  \/ /\ Started /\ ~stopped
     /\ jobs' = Recomputed(js, now, FALSE)
     /\ ArmTimer(jobs')
  \/ /\ ~Started \/ stopped \/ StoreFails
     /\ jobs' = js
     /\ UNCHANGED timer

Claim(js, n, t, s, ph) ==
  /\ jobs' = [js EXCEPT ![n].runningAt = t]
  /\ runs' = [runs EXCEPT ![s] = [phase |-> ph, name |-> n, gen |-> js[n].gen]]

Init ==
  /\ jobs = [n \in Names |-> NoJob]
  /\ now = 0
  /\ proc = "down"
  /\ ctxDone = FALSE
  /\ stopped = FALSE
  /\ timer = Nil
  /\ tick = [k \in Ticks |-> IdleTick]
  /\ runs = [s \in Slots |-> FreeSlot]
  /\ caughtUp = 0
  /\ adds = 0
  /\ crashes = 0
  /\ wanted = {}
  /\ succeeded = {}
--------------------------------------------------------------------------------
(* The process: NewScheduler, the steps of Start, shutdown, crash *)

NewScheduler ==
  /\ proc = "down"
  /\ jobs' = Recomputed(jobs, now, TRUE)
  /\ proc' = "loaded"
  /\ UNCHANGED <<now, ctxDone, stopped, timer, tick, runs, caughtUp, crashes, history>>

StartBegins ==
  /\ proc = "loaded"
  /\ proc' = "marking"
  /\ UNCHANGED <<jobs, now, ctxDone, stopped, timer, tick, runs, caughtUp, crashes,
                 history>>

MarkInterruptedRuns ==
  /\ proc = "marking"
  /\ LET marked == [n \in Names |->
           IF IsRunning(jobs[n])
           THEN [jobs[n] EXCEPT !.lastRun = jobs[n].runningAt, !.runningAt = Nil,
                                !.ok = FALSE]
           ELSE jobs[n]]
     IN \/ jobs' = Recomputed(marked, now, FALSE)
        \/ StoreFails /\ UNCHANGED jobs
  /\ proc' = "catchup"
  /\ UNCHANGED <<now, ctxDone, stopped, timer, tick, runs, caughtUp, crashes, history>>

CatchUp_OneTooMany ==
  /\ proc = "catchup"
  /\ LET js == Recomputed(jobs, now, FALSE) IN
     \/ \E n \in Claimable(js, now), s \in FreeSlots :
          /\ caughtUp <= CatchupLimit
          /\ Claim(js, n, now, s, "waiting")
          /\ caughtUp' = caughtUp + 1
          /\ UNCHANGED proc
     \/ /\ Claimable(js, now) = {}
        /\ jobs' = js
        /\ proc' = "arming"
        /\ UNCHANGED <<runs, caughtUp>>
  /\ UNCHANGED <<now, ctxDone, stopped, timer, tick, crashes, history>>

(* One claim of runMissedJobs; the claimed job waits for its turn. *)
CatchUp ==
  /\ proc = "catchup"
  /\ LET js == Recomputed(jobs, now, FALSE) IN
     \/ \E n \in Claimable(js, now), s \in FreeSlots :
          /\ caughtUp < CatchupLimit
          /\ Claim(js, n, now, s, "waiting")
          /\ caughtUp' = caughtUp + 1
          /\ UNCHANGED proc
     \/ /\ Claimable(js, now) = {}
        /\ caughtUp < CatchupLimit
        /\ jobs' = js
        /\ proc' = "arming"
        /\ UNCHANGED <<runs, caughtUp>>
     \/ /\ caughtUp = CatchupLimit \/ StoreFails
        /\ proc' = "arming"
        /\ UNCHANGED <<jobs, runs, caughtUp>>
  /\ UNCHANGED <<now, ctxDone, stopped, timer, tick, crashes, history>>

StartArms ==
  /\ proc = "arming"
  /\ SaveAndArm(jobs)
  /\ proc' = "up"
  /\ UNCHANGED <<now, ctxDone, stopped, tick, runs, caughtUp, crashes, history>>

CancelContext ==
  /\ proc = "up" /\ ~ctxDone
  /\ ctxDone' = TRUE
  /\ UNCHANGED <<jobs, now, proc, stopped, timer, tick, runs, caughtUp, crashes, history>>

Stop ==
  /\ ctxDone /\ ~stopped
  /\ stopped' = TRUE
  /\ timer' = Nil
  /\ UNCHANGED <<jobs, now, proc, ctxDone, tick, runs, caughtUp, crashes, history>>

(* The process ends, by itself after Stop or by a crash at any point. *)
Exit ==
  /\ proc # "down"
  /\ \/ stopped /\ UNCHANGED crashes
     \/ crashes < MaxCrashes /\ crashes' = crashes + 1
  /\ proc' = "down"
  /\ ctxDone' = FALSE
  /\ stopped' = FALSE
  /\ timer' = Nil
  /\ tick' = [k \in Ticks |-> IdleTick]
  /\ runs' = [s \in Slots |-> FreeSlot]
  /\ caughtUp' = 0
  /\ UNCHANGED <<jobs, now, history>>
--------------------------------------------------------------------------------
(* The timer's goroutines *)

TimerFires(k) ==
  /\ timer # Nil /\ timer <= now
  /\ tick[k].pc = "idle"
  /\ timer' = Nil
  /\ tick' = [tick EXCEPT ![k] = [pc |-> "check", now |-> now]]
  /\ UNCHANGED <<jobs, now, runs, startVars, history>>

(* executionContext *)
TickChecks(k) ==
  /\ tick[k].pc = "check"
  /\ tick' = [tick EXCEPT ![k].pc = IF stopped THEN "arm" ELSE "claim"]
  /\ UNCHANGED <<jobs, now, timer, runs, startVars, history>>

(* claimNextDueJob, with the now of the tick: the file's order decides     *)
(* which of the due jobs it is.                                            *)
TickClaims(k) ==
  /\ tick[k].pc = "claim"
  /\ LET js == Recomputed(jobs, tick[k].now, FALSE)
         due == Claimable(js, tick[k].now)
     IN \/ \E n \in due, s \in FreeSlots :
             /\ Claim(js, n, tick[k].now, s, "running")
             /\ tick' = [tick EXCEPT ![k].pc = "check"]
        \/ /\ due = {}
           /\ jobs' = js
           /\ tick' = [tick EXCEPT ![k].pc = "arm"]
           /\ UNCHANGED runs
        \/ /\ StoreFails
           /\ tick' = [tick EXCEPT ![k].pc = "arm"]
           /\ UNCHANGED <<jobs, runs>>
  /\ UNCHANGED <<now, timer, startVars, history>>

TickArms_Forgets(k) ==
  /\ tick[k].pc = "arm"
  /\ tick' = [tick EXCEPT ![k] = IdleTick]
  /\ UNCHANGED <<jobs, timer, now, runs, startVars, history>>

TickArms(k) ==
  /\ tick[k].pc = "arm"
  /\ SaveAndArm(jobs)
  /\ tick' = [tick EXCEPT ![k] = IdleTick]
  /\ UNCHANGED <<now, runs, startVars, history>>
--------------------------------------------------------------------------------
(* The goroutines that run claimed jobs *)

RunBegins(s) ==
  /\ runs[s].phase = "waiting"
  /\ runs' = [runs EXCEPT ![s].phase = "running"]
  /\ UNCHANGED <<jobs, now, timer, tick, startVars, history>>

Finished_KeepsMarker(n, ok) ==
  IF ~Exists(n) THEN jobs
  ELSE [jobs EXCEPT ![n] = Scheduled(n, [@ EXCEPT !.lastRun = now, !.ok = ok], now)]

Finished_DisablesAlways(n, ok) ==
  LET j == [jobs[n] EXCEPT !.runningAt = Nil, !.lastRun = now, !.ok = ok] IN
  IF ~Exists(n) THEN jobs
  ELSE [jobs EXCEPT ![n] =
         IF Kind[n] = "at" THEN [j EXCEPT !.enabled = FALSE, !.next = Nil]
         ELSE IF j.enabled THEN Scheduled(n, j, now)
         ELSE j]

(* finishJob looks the job up by name: it may be gone, or another job that *)
(* was added under the same name.                                          *)
Finished(n, ok) ==
  LET j == [jobs[n] EXCEPT !.runningAt = Nil, !.lastRun = now, !.ok = ok] IN
  IF ~Exists(n) THEN jobs
  ELSE [jobs EXCEPT ![n] =
         IF Kind[n] = "at" /\ ok THEN [j EXCEPT !.enabled = FALSE, !.next = Nil]
         ELSE IF j.enabled THEN Scheduled(n, j, now)
         ELSE j]

FinishRun(s, ok) ==
  /\ \/ runs[s].phase = "running"
     \/ runs[s].phase = "waiting" /\ ctxDone /\ ~ok
  /\ \/ SaveAndArm(Finished(runs[s].name, ok))
     \/ StoreFails /\ UNCHANGED <<jobs, timer>>
  /\ runs' = [runs EXCEPT ![s] = FreeSlot]
  /\ succeeded' = IF ok THEN succeeded \union {runs[s].gen} ELSE succeeded
  /\ UNCHANGED <<now, tick, startVars, adds, wanted>>
--------------------------------------------------------------------------------
(* The operations of the cron tool and of the slash commands.  A caught-up *)
(* agent turn can call the tool while Start is still at it.                *)

Operates ==
  /\ proc \in {"catchup", "arming", "up"}
  /\ UNCHANGED <<now, tick, startVars>>

AddJob(n) ==
  /\ Operates
  /\ ~Exists(n)
  /\ adds < MaxAdds
  /\ adds' = adds + 1
  /\ SaveAndArm([jobs EXCEPT ![n] =
       Scheduled(n, [NoJob EXCEPT !.gen = adds', !.enabled = TRUE, !.created = now], now)])
  /\ wanted' = wanted \union {n}
  /\ UNCHANGED <<runs, succeeded>>

RemoveJob(n) ==
  /\ Operates
  /\ Exists(n)
  /\ MayForget \/ ~IsRunning(jobs[n])
  /\ SaveAndArm([jobs EXCEPT ![n] = NoJob])
  /\ wanted' = wanted \ {n}
  /\ UNCHANGED <<runs, adds, succeeded>>

EnableJob(n) ==
  /\ Operates
  /\ Exists(n) /\ Kind[n] # "broken"
  /\ SaveAndArm([jobs EXCEPT ![n] = [@ EXCEPT !.enabled = TRUE,
                                             !.next = ComputeNextRun(n, jobs[n], now)]])
  /\ wanted' = wanted \union {n}
  /\ UNCHANGED <<runs, adds, succeeded>>

DisableJob(n) ==
  /\ Operates
  /\ Exists(n)
  /\ MayForget \/ ~IsRunning(jobs[n])
  /\ SaveAndArm([jobs EXCEPT ![n] = [@ EXCEPT !.enabled = FALSE, !.next = Nil,
                                             !.runningAt = Nil]])
  /\ wanted' = wanted \ {n}
  /\ UNCHANGED <<runs, adds, succeeded>>

(* RunJob: claimJob, by name; force asks only that the job is enabled. *)
RunJob(n, force) ==
  /\ Operates
  /\ ~stopped
  /\ LET js == Recomputed(jobs, now, FALSE) IN
     /\ Exists(n) /\ ~IsRunning(js[n])
     /\ IF force THEN js[n].enabled ELSE IsDue(js[n], now)
     /\ \E s \in FreeSlots : Claim(js, n, now, s, "running")
  /\ UNCHANGED <<timer, history>>

(* ListJobs and Status recompute and save, and leave the timer alone. *)
ListJobs ==
  /\ Operates
  /\ jobs' = Recomputed(jobs, now, FALSE)
  /\ UNCHANGED <<timer, runs, history>>

ClockTicks ==
  /\ now < MaxTime
  /\ now' = now + 1
  /\ UNCHANGED <<jobs, timer, tick, runs, startVars, history>>

StartStep ==
  \/ NewScheduler
  \/ StartBegins
  \/ MarkInterruptedRuns
  \/ CatchUp
  \/ StartArms

TickStep(k) ==
  \/ TickChecks(k)
  \/ TickClaims(k)
  \/ TickArms(k)

UserStep ==
  \/ \E n \in Names : AddJob(n) \/ RemoveJob(n) \/ EnableJob(n) \/ DisableJob(n)
  \/ \E n \in Names, force \in BOOLEAN : RunJob(n, force)
  \/ ListJobs

Next ==
  \/ StartStep
  \/ CancelContext
  \/ Stop
  \/ Exit
  \/ \E k \in Ticks : TimerFires(k) \/ TickStep(k)
  \/ \E s \in Slots : RunBegins(s)
  \/ \E s \in Slots, ok \in BOOLEAN : FinishRun(s, ok)
  \/ UserStep
  \/ ClockTicks

Spec == Init /\ [][Next]_vars

(* The clock goes on, the runtime fires a timer that is due and runs the   *)
(* goroutines.  Nothing makes a run end, a user act or the process stay up *)
(* or come back.                                                           *)
Fairness ==
  /\ WF_vars(StartStep)
  /\ WF_vars(ClockTicks)
  /\ \A k \in Ticks : WF_vars(TickStep(k))
  /\ WF_vars(\E k \in Ticks : TimerFires(k))

FairSpec == Spec /\ Fairness
--------------------------------------------------------------------------------
JobRecords ==
  [gen: 0..MaxAdds, enabled: BOOLEAN, next: Int, runningAt: Nat \union {Nil},
   lastRun: Nat \union {Nil}, ok: BOOLEAN, created: Nat]

RunRecords ==
  [phase: {"free", "waiting", "running"}, name: Names, gen: 0..MaxAdds]

TypeOK ==
  /\ jobs \in [Names -> JobRecords]
  /\ now \in 0..MaxTime
  /\ proc \in {"down", "loaded", "marking", "catchup", "arming", "up"}
  /\ ctxDone \in BOOLEAN
  /\ stopped \in BOOLEAN
  /\ timer \in Int
  /\ tick \in [Ticks -> [pc: {"idle", "check", "claim", "arm"}, now: Nat]]
  /\ runs \in [Slots -> RunRecords]
  /\ caughtUp \in 0..CatchupLimit
  /\ adds \in 0..MaxAdds
  /\ crashes \in 0..MaxCrashes
  /\ wanted \subseteq Names
  /\ succeeded \subseteq 0..MaxAdds

(* A job never runs twice at the same time, whoever claims it: catch-up,   *)
(* ticks that overlap, a run asked for by the user; and not after a        *)
(* restart either.                                                         *)
NoOverlap ==
  \A s, u \in Slots :
    (Live(s) /\ Live(u) /\ runs[s].name = runs[u].name) => s = u

(* No job is stuck: once the restart has marked the interrupted runs, a    *)
(* job with running_at set has a goroutine that will finish it.            *)
NoGhostRunning ==
  \A n \in Names :
    (proc \in {"catchup", "arming", "up"} /\ IsRunning(jobs[n])) =>
      \E s \in Slots : Live(s) /\ runs[s].name = n

(* A one-shot job that is wanted and has never succeeded is still going to *)
(* run: it is enabled and has its time, through claims, failures, crashes  *)
(* and restarts, also when the file cannot be written.                     *)
OneShotNotLost ==
  \A n \in wanted :
    Kind[n] = "at" =>
      \/ jobs[n].enabled /\ jobs[n].next # Nil
      \/ jobs[n].gen \in succeeded

(* docs/CRON.md:58: on gateway restart the scheduler catches up a bounded  *)
(* number of missed jobs, so a job that is due when the gateway comes up   *)
(* is still due when the scheduler is made.                                *)
MissedStaysDue ==
  [][NewScheduler => \A n \in Names : IsDue(jobs[n], now) => IsDue(jobs'[n], now)]_vars

(* The scheduler does not fall asleep: with the process up and the store   *)
(* working, a job that is due gets claimed, unless the user disables,      *)
(* removes or reschedules it, whatever timers, ticks and operations went   *)
(* before.                                                                 *)
DueJobIsClaimed ==
  \A n \in Names :
    (IsDue(jobs[n], now) /\ proc = "up") ~>
      (IsRunning(jobs[n]) \/ ~IsDue(jobs[n], now) \/ stopped \/ proc # "up")
================================================================================
