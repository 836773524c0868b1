-------------------------- MODULE CronSchedulerProofs --------------------------
(***************************************************************************)
(* What holds of the cron scheduler for every set of jobs and schedules,   *)
(* as long as nobody disables or removes a job while it runs, also when    *)
(* the job file cannot be read or written and whenever the process dies.   *)
(*                                                                         *)
(* The argument: running_at in the file and the goroutines agree.  A claim *)
(* sets both in one step and a finish clears both; between a crash and     *)
(* markInterruptedRuns there are markers without goroutines, never         *)
(* goroutines without markers.  What recomputing the schedule may do to a  *)
(* record is stated once (Kept) and used for every operation.              *)
(***************************************************************************)
EXTENDS CronScheduler, TLAPS

Early == proc \in {"down", "loaded", "marking"}

(* Nothing of the scheduler runs before Start reaches the catch-up. *)
QuietWhenEarly ==
  Early =>
    /\ \A s \in Slots : ~Live(s)
    /\ \A k \in Ticks : tick[k].pc = "idle"
    /\ timer = Nil

(* A goroutine runs the job that is in the file, and its marker is set. *)
RunsMatch(js, rs) ==
  \A s \in Slots :
    rs[s].phase # "free" =>
      /\ rs[s].gen = js[rs[s].name].gen
      /\ rs[s].gen # 0
      /\ IsRunning(js[rs[s].name])

(* A record says ok only of a job that has succeeded, and OneShotNotLost. *)
FileOK(js, w, su) ==
  /\ js \in [Names -> JobRecords]
  /\ \A n \in Names : js[n].enabled => js[n].gen # 0
  /\ \A n \in Names : js[n].ok => js[n].gen \in su
  /\ \A n \in w : Kind[n] = "at" =>
       \/ js[n].enabled /\ js[n].next # Nil
       \/ js[n].gen \in su

IInv ==
  /\ TypeOK
  /\ FileOK(jobs, wanted, succeeded)
  /\ RunsMatch(jobs, runs)
  /\ QuietWhenEarly
  /\ NoOverlap

(* What recomputing the schedule of n leaves of the record j in k. *)
Kept(n, j, k) ==
  /\ k \in JobRecords
  /\ k.gen = j.gen /\ k.enabled = j.enabled /\ k.runningAt = j.runningAt
  /\ k.ok => j.ok
  /\ (Kind[n] = "at" /\ j.enabled /\ j.next # Nil) => k.next # Nil \/ j.ok

AllKept(js, ks) ==
  /\ ks \in [Names -> JobRecords]
  /\ \A n \in Names : Kept(n, js[n], ks[n])
--------------------------------------------------------------------------------
LEMMA NextRunIsTime ==
  ASSUME NEW n \in Names, NEW j \in JobRecords, NEW t \in Int
  PROVE  /\ ComputeNextRun(n, j, t) \in Int
         /\ (Kind[n] = "at" /\ ~j.ok) => ComputeNextRun(n, j, t) # Nil
<1>1. /\ Delay[n] \in Nat \ {0}
      /\ Kind[n] \in {"at", "every", "cron", "broken"}
      /\ j.created \in Nat /\ j.lastRun \in Int
  BY CronAssumption DEF CronAssumption, JobRecords, Nil
<1>2. \A from \in Int : from + ((t - from) \div Delay[n] + 1) * Delay[n] \in Int
  BY <1>1
<1>3. CASE Kind[n] = "at"
  BY <1>1, <1>3 DEF ComputeNextRun, Nil
<1>4. CASE Kind[n] = "every"
  BY <1>1, <1>2, <1>4 DEF ComputeNextRun, Nil
<1>5. CASE Kind[n] = "cron"
  BY <1>1, <1>2, <1>5 DEF ComputeNextRun, Nil
<1>6. CASE Kind[n] = "broken"
  BY <1>6 DEF ComputeNextRun, Nil
<1> QED
  BY <1>1, <1>3, <1>4, <1>5, <1>6

LEMMA ScheduledIsRecord ==
  ASSUME NEW n \in Names, NEW j \in JobRecords, NEW t \in Int
  PROVE  /\ Scheduled(n, j, t) \in JobRecords
         /\ Scheduled(n, j, t).gen = j.gen
         /\ Scheduled(n, j, t).enabled = j.enabled
         /\ Scheduled(n, j, t).runningAt = j.runningAt
         /\ Scheduled(n, j, t).ok => j.ok
         /\ Scheduled(n, j, t).next = ComputeNextRun(n, j, t)
BY NextRunIsTime DEF Scheduled, JobRecords

LEMMA ScheduledKeeps ==
  ASSUME NEW n \in Names, NEW j \in JobRecords, NEW t \in Int
  PROVE  Kept(n, j, Scheduled(n, j, t))
<1>1. (Kind[n] = "at" /\ ~j.ok) => ComputeNextRun(n, j, t) # Nil
  BY NextRunIsTime
<1>2. /\ Scheduled(n, j, t) \in JobRecords
      /\ Scheduled(n, j, t).gen = j.gen
      /\ Scheduled(n, j, t).enabled = j.enabled
      /\ Scheduled(n, j, t).runningAt = j.runningAt
      /\ Scheduled(n, j, t).ok => j.ok
      /\ Scheduled(n, j, t).next = ComputeNextRun(n, j, t)
  BY ScheduledIsRecord
<1> QED
  BY <1>1, <1>2 DEF Kept

LEMMA RecomputedKeeps ==
  ASSUME NEW js \in [Names -> JobRecords], NEW t \in Int, NEW existing \in BOOLEAN
  PROVE  AllKept(js, Recomputed(js, t, existing))
<1> DEFINE ks == Recomputed(js, t, existing)
<1> SUFFICES ASSUME NEW n \in Names
             PROVE  Kept(n, js[n], ks[n])
  BY DEF AllKept, Kept, Recomputed
<1>0. js[n] \in JobRecords
  OBVIOUS
<1>1. CASE ks[n] = js[n]
  BY <1>0, <1>1 DEF Kept
<1>2. CASE ~js[n].enabled /\ ks[n] = [js[n] EXCEPT !.next = Nil]
  BY <1>0, <1>2 DEF Kept, JobRecords, Nil
<1>3. CASE ks[n] = Scheduled(n, js[n], t)
  BY <1>0, <1>3, ScheduledKeeps
<1> QED
  BY <1>1, <1>2, <1>3 DEF Recomputed

LEMMA SaveAndArmKeeps ==
  ASSUME TypeOK, NEW js \in [Names -> JobRecords], SaveAndArm(js)
  PROVE  AllKept(js, jobs') /\ timer' \in Int
<1>1. CASE /\ jobs' = Recomputed(js, now, FALSE)
           /\ ArmTimer(jobs')
  <2>1. AllKept(js, jobs')
    <3>1. now \in Int /\ FALSE \in BOOLEAN
      BY CronAssumption DEF TypeOK, CronAssumption
    <3> QED
      BY <3>1, <1>1, RecomputedKeeps
  <2>2. WakeTimes(jobs') \subseteq Int
    BY <2>1 DEF AllKept, WakeTimes, JobRecords
  <2>3. timer' \in Int
    <3>1. now \in Int /\ MaxTimerDelay \in Int
      BY CronAssumption DEF TypeOK, CronAssumption
    <3>2. CASE timer' = Nil
      BY <3>2 DEF Nil
    <3>3. CASE timer' # Nil
      <4>1. PICK wake \in WakeTimes(jobs') :
              timer' = IF wake < now THEN now
                       ELSE IF wake > now + MaxTimerDelay THEN now + MaxTimerDelay
                       ELSE wake
        BY <1>1, <3>3 DEF ArmTimer
      <4>2. wake \in Int
        BY <2>2
      <4> QED
        BY <3>1, <4>1, <4>2
    <3> QED
      BY <3>2, <3>3
  <2> QED
    BY <2>1, <2>3
<1>2. CASE jobs' = js /\ UNCHANGED timer
  BY <1>2 DEF AllKept, Kept, TypeOK
<1> QED
  BY <1>1, <1>2 DEF SaveAndArm

LEMMA KeptFile ==
  ASSUME NEW js, NEW ks, NEW w \in SUBSET Names, NEW su,
         FileOK(js, w, su), AllKept(js, ks)
  PROVE  FileOK(ks, w, su)
BY DEF FileOK, AllKept, Kept

LEMMA KeptRuns ==
  ASSUME NEW js, NEW ks, NEW rs, AllKept(js, ks), RunsMatch(js, rs),
         \A s \in Slots : rs[s].name \in Names
  PROVE  RunsMatch(ks, rs)
BY DEF RunsMatch, AllKept, Kept, IsRunning

(* Claiming a job that is not running. *)
LEMMA ClaimKeeps ==
  ASSUME IInv, NEW js, AllKept(jobs, js), NEW n \in Names, NEW t \in Nat, NEW s \in FreeSlots,
         NEW ph \in {"waiting", "running"}, js[n].enabled, ~IsRunning(js[n]),
         Claim(js, n, t, s, ph)
  PROVE  /\ FileOK(jobs', wanted, succeeded)
         /\ RunsMatch(jobs', runs')
         /\ NoOverlap'
<1>1. FileOK(js, wanted, succeeded) /\ RunsMatch(js, runs)
  <2>1. \A u \in Slots : runs[u].name \in Names
    BY DEF IInv, TypeOK, RunRecords
  <2> QED
    BY <2>1, KeptFile, KeptRuns DEF IInv, TypeOK
<1>2. /\ jobs' = [js EXCEPT ![n].runningAt = t]
      /\ runs' = [runs EXCEPT ![s] = [phase |-> ph, name |-> n, gen |-> js[n].gen]]
  BY DEF Claim
<1>3. js \in [Names -> JobRecords] /\ s \in Slots /\ runs \in [Slots -> RunRecords]
  BY DEF AllKept, FreeSlots, IInv, TypeOK
<1>4. jobs' \in [Names -> JobRecords]
  BY <1>2, <1>3 DEF JobRecords
<1>5. \A m \in Names :
        /\ jobs'[m].gen = js[m].gen /\ jobs'[m].ok = js[m].ok
        /\ jobs'[m].enabled = js[m].enabled /\ jobs'[m].next = js[m].next
        /\ m # n => jobs'[m] = js[m]
  BY <1>2, <1>3 DEF JobRecords
<1>6. jobs'[n].runningAt = t
  BY <1>2, <1>3 DEF JobRecords
<1>7. FileOK(jobs', wanted, succeeded)
  BY <1>1, <1>4, <1>5 DEF FileOK, IInv, TypeOK
<1>8. /\ runs'[s] = [phase |-> ph, name |-> n, gen |-> js[n].gen]
      /\ \A u \in Slots : u # s => runs'[u] = runs[u]
  BY <1>2, <1>3
<1>9. \A u \in Slots : Live(u) => runs[u].name # n /\ runs[u].name \in Names
  BY <1>1, <1>3 DEF RunsMatch, Live, RunRecords
<1>10. RunsMatch(jobs', runs')
  <2>1. js[n].gen # 0
    BY <1>1 DEF FileOK
  <2> QED
    BY <2>1, <1>1, <1>5, <1>6, <1>8, <1>9 DEF RunsMatch, Live, IsRunning, Nil
<1>11. NoOverlap'
  <2>1. \A u \in Slots : u # s => (Live(u)' <=> Live(u))
    BY <1>8 DEF Live
  <2> QED
    BY <2>1, <1>8, <1>9 DEF IInv, NoOverlap, Live
<1> QED
  BY <1>7, <1>10, <1>11
--------------------------------------------------------------------------------
(* Types *)

LEMMA InitTypes ==
  ASSUME Init
  PROVE  TypeOK
<1>1. /\ 0 \in 0..MaxTime /\ 0 \in 0..MaxAdds /\ 0 \in 0..MaxCrashes
      /\ 0 \in 0..CatchupLimit
  BY CronAssumption DEF CronAssumption
<1>2. NoJob \in JobRecords
  BY <1>1 DEF NoJob, JobRecords, Nil
<1>3. FreeSlot \in RunRecords
  BY <1>1, CronAssumption DEF FreeSlot, RunRecords, CronAssumption
<1>4. IdleTick \in [pc: {"idle", "check", "claim", "arm"}, now: Nat]
  BY DEF IdleTick
<1> QED
  <2>1. jobs \in [Names -> JobRecords]
    BY <1>2 DEF Init
  <2>2. runs \in [Slots -> RunRecords]
    BY <1>3 DEF Init
  <2>3. tick \in [Ticks -> [pc: {"idle", "check", "claim", "arm"}, now: Nat]]
    BY <1>4 DEF Init
  <2>4. /\ now = 0 /\ adds = 0 /\ crashes = 0 /\ caughtUp = 0 /\ timer = -1
        /\ proc = "down" /\ ctxDone = FALSE /\ stopped = FALSE
        /\ wanted = {} /\ succeeded = {}
    BY DEF Init, Nil
  <2>5. /\ now \in 0..MaxTime /\ adds \in 0..MaxAdds /\ crashes \in 0..MaxCrashes
        /\ caughtUp \in 0..CatchupLimit /\ timer \in Int
    BY <1>1, <2>4
  <2>6. /\ proc \in {"down", "loaded", "marking", "catchup", "arming", "up"}
        /\ ctxDone \in BOOLEAN /\ stopped \in BOOLEAN
        /\ wanted \subseteq Names /\ succeeded \subseteq 0..MaxAdds
    BY <2>4
  <2> QED
    BY <2>1, <2>2, <2>3, <2>5, <2>6 DEF TypeOK

LEMMA ClaimTypes ==
  ASSUME TypeOK, NEW js, AllKept(jobs, js), NEW n \in Names, NEW t \in Nat, NEW s \in FreeSlots,
         NEW ph \in {"waiting", "running"}, Claim(js, n, t, s, ph)
  PROVE  jobs' \in [Names -> JobRecords] /\ runs' \in [Slots -> RunRecords]
<1>1. js \in [Names -> JobRecords] /\ s \in Slots /\ runs \in [Slots -> RunRecords]
  BY DEF AllKept, FreeSlots, TypeOK
<1>2. [js[n] EXCEPT !.runningAt = t] \in JobRecords
  BY <1>1 DEF JobRecords
<1>3. [phase |-> ph, name |-> n, gen |-> js[n].gen] \in RunRecords
  BY <1>1 DEF JobRecords, RunRecords
<1> QED
  BY <1>1, <1>2, <1>3 DEF Claim

(* What markInterruptedRuns writes into the record of n. *)
LEMMA MarkedTypes ==
  ASSUME TypeOK, NEW n \in Names
  PROVE  [jobs[n] EXCEPT !.lastRun = jobs[n].runningAt, !.runningAt = Nil,
                         !.ok = FALSE] \in JobRecords
BY DEF TypeOK, JobRecords, Nil

LEMMA ClearedIsRecord ==
  \A r \in JobRecords : [r EXCEPT !.enabled = FALSE, !.next = Nil] \in JobRecords
<1> SUFFICES ASSUME NEW r \in JobRecords
             PROVE  [r EXCEPT !.enabled = FALSE, !.next = Nil] \in JobRecords
  OBVIOUS
<1>1. [r EXCEPT !.enabled = FALSE] \in JobRecords
  BY DEF JobRecords
<1>2. \A q \in JobRecords : [q EXCEPT !.next = Nil] \in JobRecords
  BY DEF JobRecords, Nil
<1> QED
  BY <1>1, <1>2

(* The record AddJob makes. *)
LEMMA FreshIsRecord ==
  ASSUME NEW a \in 0..MaxAdds, NEW t \in Nat
  PROVE  /\ [NoJob EXCEPT !.gen = a, !.enabled = TRUE, !.created = t] \in JobRecords
         /\ [NoJob EXCEPT !.gen = a, !.enabled = TRUE, !.created = t].gen = a
         /\ ~[NoJob EXCEPT !.gen = a, !.enabled = TRUE, !.created = t].ok
         /\ [NoJob EXCEPT !.gen = a, !.enabled = TRUE, !.created = t].enabled
<1>1. NoJob \in JobRecords /\ ~NoJob.ok
  BY CronAssumption DEF NoJob, JobRecords, Nil, CronAssumption
<1>2. \A r \in JobRecords :
        /\ [r EXCEPT !.gen = a] \in JobRecords
        /\ [r EXCEPT !.gen = a].gen = a
        /\ [r EXCEPT !.gen = a].ok = r.ok
  BY DEF JobRecords
<1>3. \A r \in JobRecords :
        LET q == [r EXCEPT !.enabled = TRUE] IN
        q \in JobRecords /\ q.enabled /\ q.gen = r.gen /\ q.ok = r.ok
  BY DEF JobRecords
<1>4. \A r \in JobRecords :
        LET q == [r EXCEPT !.created = t] IN
        q \in JobRecords /\ q.enabled = r.enabled /\ q.gen = r.gen /\ q.ok = r.ok
  BY DEF JobRecords
<1> DEFINE r1 == [NoJob EXCEPT !.gen = a]
           r2 == [r1 EXCEPT !.enabled = TRUE]
           r3 == [r2 EXCEPT !.created = t]
<1>5. r1 \in JobRecords /\ r1.gen = a /\ ~r1.ok
  BY <1>1, <1>2
<1>6. r2 \in JobRecords /\ r2.gen = a /\ ~r2.ok /\ r2.enabled
  <2> HIDE DEF r1
  <2> QED
    BY <1>5, <1>3
<1>7. r3 \in JobRecords /\ r3.gen = a /\ ~r3.ok /\ r3.enabled
  <2> HIDE DEF r2
  <2> QED
    BY <1>6, <1>4
<1> QED
  BY <1>7

LEMMA FinishedTypes ==
  ASSUME TypeOK, NEW n \in Names, NEW ok \in BOOLEAN
  PROVE  Finished(n, ok) \in [Names -> JobRecords]
<1> DEFINE j == [jobs[n] EXCEPT !.runningAt = Nil, !.lastRun = now, !.ok = ok]
<1>1. jobs \in [Names -> JobRecords] /\ now \in Nat /\ now \in Int
  BY CronAssumption DEF TypeOK, CronAssumption
<1>2. j \in JobRecords
  <2>1. jobs[n] \in JobRecords
    BY <1>1
  <2> QED
    BY <2>1, <1>1 DEF JobRecords, Nil
<1>3. [j EXCEPT !.enabled = FALSE, !.next = Nil] \in JobRecords
  BY <1>2, ClearedIsRecord
<1>4. Scheduled(n, j, now) \in JobRecords
  BY <1>1, <1>2, ScheduledIsRecord
<1> HIDE DEF j
<1>5. Finished(n, ok) =
        IF ~Exists(n) THEN jobs
        ELSE [jobs EXCEPT ![n] =
               IF Kind[n] = "at" /\ ok THEN [j EXCEPT !.enabled = FALSE, !.next = Nil]
               ELSE IF j.enabled THEN Scheduled(n, j, now)
               ELSE j]
  BY DEF Finished, j
<1> QED
  BY <1>1, <1>2, <1>3, <1>4, <1>5

LEMMA TypeStep ==
  ASSUME TypeOK, [Next]_vars
  PROVE  TypeOK'
<1>0. /\ jobs \in [Names -> JobRecords] /\ now \in Nat /\ now \in Int
      /\ MaxTime \in Nat /\ MaxAdds \in Nat /\ MaxCrashes \in Nat /\ CatchupLimit \in Nat
      /\ runs \in [Slots -> RunRecords]
      /\ TRUE \in BOOLEAN /\ FALSE \in BOOLEAN
  BY CronAssumption DEF TypeOK, CronAssumption
<1> DEFINE Clean == [k \in Ticks |-> IdleTick]
           TickRecords == [pc: {"idle", "check", "claim", "arm"}, now: Nat]
<1>01. tick \in [Ticks -> TickRecords]
  BY DEF TypeOK
<1>02. FreeSlot \in RunRecords /\ IdleTick \in TickRecords
  BY <1>0, CronAssumption DEF FreeSlot, RunRecords, CronAssumption, IdleTick
<1>03. /\ \A e \in BOOLEAN : Recomputed(jobs, now, e) \in [Names -> JobRecords]
       /\ AllKept(jobs, Recomputed(jobs, now, FALSE))
  BY <1>0, RecomputedKeeps DEF AllKept
<1>04. \A js \in [Names -> JobRecords] :
         SaveAndArm(js) => jobs' \in [Names -> JobRecords] /\ timer' \in Int
  BY SaveAndArmKeeps DEF AllKept
<1>05. \A k \in Ticks, pc \in {"idle", "check", "claim", "arm"} :
         [tick EXCEPT ![k].pc = pc] \in [Ticks -> TickRecords]
  BY <1>01
<1> HIDE DEF TickRecords
<1>1. CASE NewScheduler
  BY <1>1, <1>0, <1>03 DEF NewScheduler, TypeOK, history
<1>2. CASE StartBegins
  BY <1>2 DEF StartBegins, TypeOK, history
<1>3. CASE MarkInterruptedRuns
  <2>1. jobs' \in [Names -> JobRecords]
    <3> DEFINE marked == [n \in Names |->
          IF IsRunning(jobs[n])
          THEN [jobs[n] EXCEPT !.lastRun = jobs[n].runningAt, !.runningAt = Nil,
                               !.ok = FALSE]
          ELSE jobs[n]]
    <3>1. marked \in [Names -> JobRecords]
      BY <1>0, MarkedTypes
    <3>2. jobs' = Recomputed(marked, now, FALSE) \/ jobs' = jobs
      BY <1>3 DEF MarkInterruptedRuns
    <3> HIDE DEF marked
    <3> QED
      BY <3>1, <3>2, <1>0, RecomputedKeeps DEF AllKept
  <2> QED
    BY <2>1, <1>3 DEF MarkInterruptedRuns, TypeOK, history
<1>4. CASE CatchUp
  <2>1. /\ jobs' \in [Names -> JobRecords] /\ runs' \in [Slots -> RunRecords]
        /\ proc' \in {"catchup", "arming"}
        /\ caughtUp' \in 0..CatchupLimit
    <3> DEFINE js == Recomputed(jobs, now, FALSE)
    <3>0. caughtUp \in 0..CatchupLimit
      BY DEF TypeOK
    <3>1. CASE \E n \in Claimable(js, now), s \in FreeSlots :
                 /\ caughtUp < CatchupLimit
                 /\ Claim(js, n, now, s, "waiting")
                 /\ caughtUp' = caughtUp + 1
                 /\ UNCHANGED proc
      <4>1. PICK n \in Claimable(js, now), s \in FreeSlots : Claim(js, n, now, s, "waiting")
        BY <3>1
      <4>2. n \in Names
        BY DEF Claimable
      <4> HIDE DEF js
      <4>3. jobs' \in [Names -> JobRecords] /\ runs' \in [Slots -> RunRecords]
        BY <4>1, <4>2, <1>0, <1>03, ClaimTypes DEF js
      <4> QED
        BY <4>3, <3>0, <3>1, <1>0, <1>4 DEF CatchUp
    <3>2. CASE UNCHANGED <<runs, caughtUp>> /\ proc' = "arming" /\ jobs' \in {js, jobs}
      BY <3>0, <3>2, <1>0, <1>03
    <3> QED
      BY <3>1, <3>2, <1>4 DEF CatchUp
  <2> QED
    BY <2>1, <1>4 DEF CatchUp, TypeOK, history
<1>5. CASE StartArms
  BY <1>0, <1>04, <1>5 DEF StartArms, TypeOK, history
<1>6. CASE CancelContext
  BY <1>6 DEF CancelContext, TypeOK, history
<1>7. CASE Stop
  BY <1>7 DEF Stop, TypeOK, history, Nil
<1>8. CASE Exit
  <2>1. crashes' \in 0..MaxCrashes
    BY <1>0, <1>8 DEF Exit, TypeOK
  <2>2. caughtUp' \in 0..CatchupLimit
    BY <1>0, <1>8 DEF Exit
  <2>3. runs' \in [Slots -> RunRecords] /\ tick' \in [Ticks -> TickRecords]
    BY <1>02, <1>8 DEF Exit
  <2>4. timer' \in Int
    BY <1>8 DEF Exit, Nil
  <2> QED
    BY <2>1, <2>2, <2>3, <2>4, <1>8 DEF Exit, TypeOK, history, TickRecords
<1>9. ASSUME NEW k \in Ticks, TimerFires(k)
      PROVE  TypeOK'
  <2>1. [pc |-> "check", now |-> now] \in TickRecords
    BY <1>0 DEF TickRecords
  <2>2. tick' \in [Ticks -> TickRecords]
    BY <2>1, <1>01, <1>9 DEF TimerFires
  <2>3. timer' \in Int
    BY <1>9 DEF TimerFires, Nil
  <2> QED
    BY <2>2, <2>3, <1>9 DEF TimerFires, TypeOK, startVars, history, TickRecords
<1>10. ASSUME NEW k \in Ticks, TickChecks(k)
       PROVE  TypeOK'
  <2>1. tick' \in [Ticks -> TickRecords]
    BY <1>05, <1>10 DEF TickChecks
  <2> QED
    BY <2>1, <1>10 DEF TickChecks, TypeOK, startVars, history, TickRecords
<1>11. ASSUME NEW k \in Ticks, TickClaims(k)
       PROVE  TypeOK'
  <2> DEFINE t == tick[k].now
             js == Recomputed(jobs, t, FALSE)
  <2>0. t \in Nat /\ t \in Int
    BY <1>01 DEF TickRecords
  <2>1. AllKept(jobs, js)
    <3> HIDE DEF t
    <3> QED
      BY <1>0, <2>0, RecomputedKeeps
  <2>2. tick' \in [Ticks -> TickRecords]
    BY <1>05, <1>11 DEF TickClaims
  <2>3. jobs' \in [Names -> JobRecords] /\ runs' \in [Slots -> RunRecords]
    <3>1. CASE \E n \in Claimable(js, t), s \in FreeSlots : Claim(js, n, t, s, "running")
      <4>1. PICK n \in Claimable(js, t), s \in FreeSlots : Claim(js, n, t, s, "running")
        BY <3>1
      <4>2. n \in Names
        BY DEF Claimable
      <4> HIDE DEF js, t
      <4> QED
        BY <4>1, <4>2, <2>0, <2>1, ClaimTypes
    <3>2. CASE UNCHANGED runs /\ jobs' \in {js, jobs}
      BY <3>2, <1>0, <2>1 DEF AllKept
    <3> QED
      BY <3>1, <3>2, <1>11 DEF TickClaims
  <2> QED
    BY <2>2, <2>3, <1>11 DEF TickClaims, TypeOK, startVars, history, TickRecords
<1>12. ASSUME NEW k \in Ticks, TickArms(k)
       PROVE  TypeOK'
  <2>1. tick' \in [Ticks -> TickRecords]
    BY <1>01, <1>02, <1>12 DEF TickArms
  <2> QED
    BY <2>1, <1>0, <1>04, <1>12 DEF TickArms, TypeOK, startVars, history, TickRecords
<1>13. ASSUME NEW s \in Slots, RunBegins(s)
       PROVE  TypeOK'
  <2>1. runs' \in [Slots -> RunRecords]
    BY <1>0, <1>13 DEF RunBegins, RunRecords
  <2> QED
    BY <2>1, <1>13 DEF RunBegins, TypeOK, startVars, history
<1>14. ASSUME NEW s \in Slots, NEW ok \in BOOLEAN, FinishRun(s, ok)
       PROVE  TypeOK'
  <2>1. runs[s].name \in Names /\ runs[s].gen \in 0..MaxAdds
    BY <1>0 DEF RunRecords
  <2>2. Finished(runs[s].name, ok) \in [Names -> JobRecords]
    BY <2>1, FinishedTypes
  <2>3. jobs' \in [Names -> JobRecords] /\ timer' \in Int
    BY <2>2, <1>0, <1>04, <1>14 DEF FinishRun, TypeOK
  <2>4. runs' \in [Slots -> RunRecords]
    BY <1>0, <1>02, <1>14 DEF FinishRun
  <2>5. succeeded' \subseteq 0..MaxAdds
    BY <2>1, <1>14 DEF FinishRun, TypeOK
  <2> QED
    BY <2>3, <2>4, <2>5, <1>14 DEF FinishRun, TypeOK, startVars
<1>15. ASSUME NEW n \in Names, AddJob(n) \/ RemoveJob(n) \/ EnableJob(n) \/ DisableJob(n)
       PROVE  TypeOK'
  <2> DEFINE fresh == [NoJob EXCEPT !.gen = adds', !.enabled = TRUE, !.created = now]
  <2>0. NoJob \in JobRecords /\ jobs[n] \in JobRecords
    BY <1>0 DEF NoJob, JobRecords, Nil
  <2>1. ASSUME AddJob(n)
        PROVE  /\ adds' \in 0..MaxAdds
               /\ [jobs EXCEPT ![n] = Scheduled(n, fresh, now)] \in [Names -> JobRecords]
    <3>1. adds' \in 0..MaxAdds
      BY <1>0, <2>1 DEF AddJob, TypeOK
    <3>2. fresh \in JobRecords
      BY <3>1, <1>0, FreshIsRecord
    <3> HIDE DEF fresh
    <3>3. Scheduled(n, fresh, now) \in JobRecords
      BY <3>2, <1>0, ScheduledIsRecord
    <3> QED
      BY <3>1, <3>3, <1>0
  <2>2. [jobs EXCEPT ![n] = NoJob] \in [Names -> JobRecords]
    BY <2>0, <1>0
  <2>3. [jobs[n] EXCEPT !.enabled = TRUE, !.next = ComputeNextRun(n, jobs[n], now)]
          \in JobRecords
    <3> DEFINE next == ComputeNextRun(n, jobs[n], now)
    <3>1. next \in Int
      BY <1>0, <2>0, NextRunIsTime
    <3> HIDE DEF next
    <3>2. [jobs[n] EXCEPT !.enabled = TRUE, !.next = next] \in JobRecords
      BY <2>0, <3>1 DEF JobRecords
    <3> QED
      BY <3>2 DEF next
  <2>4. [jobs[n] EXCEPT !.enabled = FALSE, !.next = Nil, !.runningAt = Nil] \in JobRecords
    <3>1. [jobs[n] EXCEPT !.enabled = FALSE, !.next = Nil] \in JobRecords
      BY <2>0, ClearedIsRecord
    <3>2. \A r \in JobRecords : [r EXCEPT !.runningAt = Nil] \in JobRecords
      BY DEF JobRecords, Nil
    <3> QED
      BY <3>1, <3>2
  <2> HIDE DEF fresh
  <2>5. CASE AddJob(n)
    BY <2>5, <2>1, <1>04 DEF AddJob, Operates, TypeOK, startVars, fresh
  <2>6. CASE RemoveJob(n)
    BY <2>6, <2>2, <1>04 DEF RemoveJob, Operates, TypeOK, startVars
  <2>7. CASE EnableJob(n)
    BY <2>7, <2>3, <1>0, <1>04 DEF EnableJob, Operates, TypeOK, startVars
  <2>8. CASE DisableJob(n)
    BY <2>8, <2>4, <1>0, <1>04 DEF DisableJob, Operates, TypeOK, startVars
  <2> QED
    BY <1>15, <2>5, <2>6, <2>7, <2>8
<1>16. ASSUME NEW n \in Names, NEW force \in BOOLEAN, RunJob(n, force)
       PROVE  TypeOK'
  <2> DEFINE js == Recomputed(jobs, now, FALSE)
  <2>1. PICK s \in FreeSlots : Claim(js, n, now, s, "running")
    BY <1>16 DEF RunJob
  <2> HIDE DEF js
  <2>2. jobs' \in [Names -> JobRecords] /\ runs' \in [Slots -> RunRecords]
    BY <2>1, <1>0, <1>03, ClaimTypes DEF js
  <2> QED
    BY <2>2, <1>16 DEF RunJob, Operates, TypeOK, startVars, history
<1>17. CASE ListJobs
  BY <1>17, <1>0, <1>03 DEF ListJobs, Operates, TypeOK, startVars, history
<1>18. CASE ClockTicks
  BY <1>18, <1>0 DEF ClockTicks, TypeOK, startVars, history
<1>19. CASE UNCHANGED vars
  BY <1>19 DEF vars, TypeOK
<1> QED
  BY <1>1, <1>2, <1>3, <1>4, <1>5, <1>6, <1>7, <1>8, <1>9, <1>10, <1>11, <1>12, <1>13,
     <1>14, <1>15, <1>16, <1>17, <1>18, <1>19
     DEF Next, StartStep, TickStep, UserStep

(* Every variable of the scheduler keeps its type, whatever jobs users add *)
(* and remove, whenever the process dies and the file fails.               *)
THEOREM TypeCorrect == Spec => []TypeOK
<1>1. Init => TypeOK
  BY InitTypes
<1>2. TypeOK /\ [Next]_vars => TypeOK'
  BY TypeStep
<1> QED
  BY <1>1, <1>2, PTL DEF Spec
--------------------------------------------------------------------------------
(* The invariant *)

LEMMA InitInv ==
  ASSUME Init
  PROVE  IInv
<1>1. TypeOK
  BY InitTypes
<1>2. FileOK(jobs, wanted, succeeded)
  <2>1. \A n \in Names : jobs[n].gen = 0 /\ ~jobs[n].enabled /\ ~jobs[n].ok
    BY DEF Init, NoJob
  <2> QED
    BY <1>1, <2>1 DEF FileOK, TypeOK, Init
<1>3. \A s \in Slots : ~Live(s) /\ runs[s].phase = "free"
  BY DEF Init, Live, FreeSlot
<1>4. QuietWhenEarly
  BY <1>3 DEF Init, QuietWhenEarly, IdleTick
<1> QED
  BY <1>1, <1>2, <1>3, <1>4 DEF IInv, RunsMatch, NoOverlap

LEMMA SameIsKept ==
  ASSUME NEW js \in [Names -> JobRecords]
  PROVE  AllKept(js, js)
BY DEF AllKept, Kept

(* A step that at most recomputes the schedule and leaves the runs alone. *)
LEMMA KeptInv ==
  ASSUME IInv, TypeOK', AllKept(jobs, jobs'), UNCHANGED <<runs, wanted, succeeded>>,
         Early' => Early /\ UNCHANGED <<tick, timer>>
  PROVE  IInv'
<1>1. /\ wanted \in SUBSET Names
      /\ \A s \in Slots : runs[s].name \in Names
  BY DEF IInv, TypeOK, RunRecords
<1>2. FileOK(jobs', wanted, succeeded) /\ RunsMatch(jobs', runs)
  BY <1>1, KeptFile, KeptRuns DEF IInv
<1>3. QuietWhenEarly'
  BY DEF IInv, QuietWhenEarly, Live
<1>4. NoOverlap'
  BY DEF IInv, NoOverlap, Live
<1> QED
  BY <1>2, <1>3, <1>4 DEF IInv

(* A user's operation that writes js. *)
LEMMA OperationInv ==
  ASSUME IInv, TypeOK', NEW js, SaveAndArm(js), Operates,
         FileOK(js, wanted', succeeded), RunsMatch(js, runs), UNCHANGED <<runs, succeeded>>
  PROVE  IInv'
<1>1. /\ wanted' \in SUBSET Names
      /\ \A s \in Slots : runs[s].name \in Names
      /\ js \in [Names -> JobRecords]
  BY DEF IInv, TypeOK, RunRecords, FileOK
<1>2. AllKept(js, jobs')
  BY <1>1, SaveAndArmKeeps DEF IInv
<1>3. FileOK(jobs', wanted', succeeded) /\ RunsMatch(jobs', runs)
  BY <1>1, <1>2, KeptFile, KeptRuns
<1>4. QuietWhenEarly'
  BY DEF Operates, startVars, Early, QuietWhenEarly
<1>5. NoOverlap'
  BY DEF IInv, NoOverlap, Live
<1> QED
  BY <1>3, <1>4, <1>5 DEF IInv

(* finishJob on the job of a live run. *)
LEMMA FinishedKeeps ==
  ASSUME IInv, NEW s \in Slots, Live(s), NEW ok \in BOOLEAN, NEW su,
         su = IF ok THEN succeeded \union {runs[s].gen} ELSE succeeded,
         NEW rs, rs = [runs EXCEPT ![s] = FreeSlot]
  PROVE  /\ FileOK(Finished(runs[s].name, ok), wanted, su)
         /\ RunsMatch(Finished(runs[s].name, ok), rs)
         /\ FileOK(jobs, wanted, su)
         /\ RunsMatch(jobs, rs)
<1> DEFINE n == runs[s].name
           j == [jobs[n] EXCEPT !.runningAt = Nil, !.lastRun = now, !.ok = ok]
           js == Finished(n, ok)
<1>1. /\ jobs \in [Names -> JobRecords] /\ now \in Nat /\ now \in Int
      /\ runs \in [Slots -> RunRecords] /\ wanted \subseteq Names
      /\ n \in Names
  BY CronAssumption DEF IInv, TypeOK, CronAssumption, RunRecords
<1>2. jobs[n].gen = runs[s].gen /\ jobs[n].gen # 0
  BY DEF IInv, RunsMatch, Live
<1>3. succeeded \subseteq su /\ (ok => jobs[n].gen \in su)
  BY <1>2
<1>4. FileOK(jobs, wanted, su)
  BY <1>3 DEF IInv, FileOK
<1>5. /\ rs[s].phase = "free"
      /\ \A u \in Slots : u # s => rs[u] = runs[u]
  BY <1>1 DEF FreeSlot
<1>6. \A u \in Slots : rs[u].phase # "free" =>
        u # s /\ rs[u] = runs[u] /\ runs[u].name # n /\ runs[u].name \in Names
  BY <1>1, <1>5 DEF IInv, NoOverlap, Live, RunRecords
<1>7. RunsMatch(jobs, rs)
  BY <1>6 DEF IInv, RunsMatch
<1>8. js \in [Names -> JobRecords]
  BY <1>1, FinishedTypes DEF IInv
<1>9. j \in JobRecords /\ j.gen = jobs[n].gen /\ j.enabled = jobs[n].enabled
      /\ j.next = jobs[n].next /\ j.ok = ok
  <2>1. jobs[n] \in JobRecords
    BY <1>1
  <2> QED
    BY <2>1, <1>1 DEF JobRecords, Nil
<1> DEFINE cleared == [j EXCEPT !.enabled = FALSE, !.next = Nil]
<1>10. js = [jobs EXCEPT ![n] = IF Kind[n] = "at" /\ ok THEN cleared
                                ELSE IF j.enabled THEN Scheduled(n, j, now)
                                ELSE j]
  BY <1>2 DEF Finished, Exists
<1> HIDE DEF js, j
<1>11. \A m \in Names : m # n => js[m] = jobs[m]
  BY <1>1, <1>10
<1>12. /\ js[n].enabled => js[n].gen # 0
       /\ js[n].ok => js[n].gen \in su
       /\ (n \in wanted /\ Kind[n] = "at") =>
            (js[n].enabled /\ js[n].next # Nil) \/ js[n].gen \in su
  <2>1. CASE Kind[n] = "at" /\ ok
    <3>1. js[n] = cleared
      BY <1>1, <1>10, <2>1
    <3>2. cleared.gen = j.gen
      BY <1>9 DEF JobRecords
    <3> QED
      BY <3>1, <3>2, <1>9, <1>2, <1>3, <2>1
  <2>2. CASE ~(Kind[n] = "at" /\ ok) /\ j.enabled
    <3>1. js[n] = Scheduled(n, j, now)
      BY <1>1, <1>10, <2>2
    <3>2. /\ js[n].gen = j.gen
          /\ js[n].enabled = j.enabled
          /\ js[n].ok => j.ok
          /\ js[n].next = ComputeNextRun(n, j, now)
      BY <3>1, <1>1, <1>9, ScheduledIsRecord
    <3>3. (Kind[n] = "at" /\ ~j.ok) => ComputeNextRun(n, j, now) # Nil
      BY <1>1, <1>9, NextRunIsTime
    <3> QED
      BY <3>2, <3>3, <1>9, <1>2, <1>3, <2>2
  <2>3. CASE ~(Kind[n] = "at" /\ ok) /\ ~j.enabled
    <3>1. js[n] = j
      BY <1>1, <1>10, <2>3
    <3> QED
      BY <3>1, <1>9, <1>1, <1>2, <1>3, <1>4, <2>3 DEF FileOK
  <2> QED
    BY <2>1, <2>2, <2>3
<1>13. FileOK(js, wanted, su)
  BY <1>1, <1>4, <1>8, <1>11, <1>12 DEF FileOK
<1>14. RunsMatch(js, rs)
  BY <1>6, <1>7, <1>11 DEF RunsMatch
<1> QED
  BY <1>4, <1>7, <1>13, <1>14 DEF js

LEMMA InvStep ==
  ASSUME ~MayForget, IInv, [Next]_vars
  PROVE  IInv'
<1>0. /\ jobs \in [Names -> JobRecords] /\ now \in Nat /\ now \in Int
      /\ runs \in [Slots -> RunRecords] /\ TypeOK
      /\ TRUE \in BOOLEAN /\ FALSE \in BOOLEAN
  BY CronAssumption DEF IInv, TypeOK, CronAssumption
<1>00. TypeOK'
  BY <1>0, TypeStep
<1>01. AllKept(jobs, jobs)
  BY <1>0, SameIsKept
<1>02. \A e \in BOOLEAN : AllKept(jobs, Recomputed(jobs, now, e))
  BY <1>0, RecomputedKeeps
<1>03. SaveAndArm(jobs) => AllKept(jobs, jobs')
  BY <1>0, SaveAndArmKeeps
<1>1. CASE NewScheduler
  BY <1>1, <1>0, <1>00, <1>02, KeptInv DEF NewScheduler, history, Early
<1>2. CASE StartBegins
  <2>1. AllKept(jobs, jobs')
    BY <1>2, <1>01 DEF StartBegins
  <2> QED
    BY <1>2, <2>1, <1>00, KeptInv DEF StartBegins, history, Early
<1>3. CASE MarkInterruptedRuns
  <2> DEFINE marked == [n \in Names |->
          IF IsRunning(jobs[n])
          THEN [jobs[n] EXCEPT !.lastRun = jobs[n].runningAt, !.runningAt = Nil,
                               !.ok = FALSE]
          ELSE jobs[n]]
  <2>1. FileOK(marked, wanted, succeeded)
    <3>1. marked \in [Names -> JobRecords]
      BY <1>0, MarkedTypes
    <3>2. \A n \in Names : /\ marked[n].gen = jobs[n].gen
                           /\ marked[n].enabled = jobs[n].enabled
                           /\ marked[n].next = jobs[n].next
                           /\ marked[n].ok => jobs[n].ok
      BY <1>0 DEF JobRecords
    <3>3. wanted \subseteq Names
      BY <1>0 DEF TypeOK
    <3> HIDE DEF marked
    <3> QED
      BY <3>1, <3>2, <3>3 DEF FileOK, IInv
  <2>2. FileOK(jobs', wanted, succeeded)
    <3>1. jobs' = Recomputed(marked, now, FALSE) \/ jobs' = jobs
      BY <1>3 DEF MarkInterruptedRuns
    <3> HIDE DEF marked
    <3>2. AllKept(marked, Recomputed(marked, now, FALSE))
      BY <2>1, <1>0, RecomputedKeeps DEF FileOK
    <3>3. wanted \in SUBSET Names
      BY <1>0 DEF TypeOK
    <3> QED
      BY <3>1, <3>2, <3>3, <2>1, KeptFile DEF IInv
  <2>3. \A s \in Slots : ~Live(s) /\ runs'[s] = runs[s]
    BY <1>3 DEF MarkInterruptedRuns, IInv, QuietWhenEarly, Early
  <2> QED
    BY <1>3, <2>2, <2>3, <1>00
       DEF MarkInterruptedRuns, IInv, QuietWhenEarly, Early, RunsMatch, NoOverlap, Live, history
<1>4. CASE CatchUp
  <2> DEFINE js == Recomputed(jobs, now, FALSE)
  <2>1. CASE \E n \in Claimable(js, now), s \in FreeSlots :
               Claim(js, n, now, s, "waiting") /\ UNCHANGED proc
    <3>1. PICK n \in Claimable(js, now), s \in FreeSlots : Claim(js, n, now, s, "waiting")
      BY <2>1
    <3>2. n \in Names /\ js[n].enabled /\ ~IsRunning(js[n])
      BY DEF Claimable, IsDue
    <3> HIDE DEF js
    <3>3. FileOK(jobs', wanted, succeeded) /\ RunsMatch(jobs', runs') /\ NoOverlap'
      BY <3>1, <3>2, <1>0, <1>02, ClaimKeeps DEF js
    <3>4. QuietWhenEarly'
      BY <1>4, <2>1 DEF CatchUp, QuietWhenEarly, Early
    <3> QED
      BY <3>3, <3>4, <1>00, <1>4 DEF CatchUp, IInv, history
  <2>2. CASE UNCHANGED runs /\ proc' = "arming" /\ jobs' \in {js, jobs}
    <3>1. AllKept(jobs, jobs')
      BY <2>2, <1>0, <1>01, <1>02
    <3> QED
      BY <3>1, <2>2, <1>4, <1>00, KeptInv DEF CatchUp, Early, history
  <2> QED
    BY <2>1, <2>2, <1>4 DEF CatchUp
<1>5. CASE StartArms
  BY <1>5, <1>00, <1>03, KeptInv DEF StartArms, Early, history
<1>6. CASE CancelContext
  <2>1. AllKept(jobs, jobs')
    BY <1>6, <1>01 DEF CancelContext
  <2> QED
    BY <1>6, <2>1, <1>00, KeptInv DEF CancelContext, Early, history
<1>7. CASE Stop
  <2>1. AllKept(jobs, jobs')
    BY <1>7, <1>01 DEF Stop
  <2> QED
    BY <1>7, <2>1, <1>00, KeptInv DEF Stop, Early, history, IInv, QuietWhenEarly
<1>8. CASE Exit
  <2>1. \A s \in Slots : ~Live(s)' /\ runs'[s].phase = "free"
    BY <1>8 DEF Exit, Live, FreeSlot
  <2>2. QuietWhenEarly'
    BY <1>8, <2>1 DEF Exit, QuietWhenEarly, IdleTick
  <2> QED
    BY <1>8, <2>1, <2>2, <1>00 DEF Exit, IInv, RunsMatch, NoOverlap, history
<1>9. ASSUME NEW k \in Ticks, TimerFires(k)
      PROVE  IInv'
  <2>1. AllKept(jobs, jobs')
    BY <1>9, <1>01 DEF TimerFires
  <2>2. ~Early
    BY <1>9 DEF TimerFires, IInv, QuietWhenEarly
  <2> QED
    BY <1>9, <2>1, <2>2, <1>00, KeptInv DEF TimerFires, startVars, history, Early
<1>10. ASSUME NEW k \in Ticks, TickChecks(k) \/ TickClaims(k) \/ TickArms(k)
       PROVE  ~Early /\ ~Early'
  BY <1>10 DEF TickChecks, TickClaims, TickArms, IInv, QuietWhenEarly, startVars, Early
<1>11. ASSUME NEW k \in Ticks, TickChecks(k)
       PROVE  IInv'
  <2>1. AllKept(jobs, jobs')
    BY <1>11, <1>01 DEF TickChecks
  <2> QED
    BY <1>11, <2>1, <1>10, <1>00, KeptInv DEF TickChecks, history
<1>12. ASSUME NEW k \in Ticks, TickClaims(k)
       PROVE  IInv'
  <2> DEFINE t == tick[k].now
             js == Recomputed(jobs, t, FALSE)
  <2>0. t \in Nat /\ t \in Int
    BY <1>0 DEF TypeOK
  <2>1. AllKept(jobs, js)
    <3> HIDE DEF t
    <3> QED
      BY <1>0, <2>0, RecomputedKeeps
  <2>2. CASE \E n \in Claimable(js, t), s \in FreeSlots : Claim(js, n, t, s, "running")
    <3>1. PICK n \in Claimable(js, t), s \in FreeSlots : Claim(js, n, t, s, "running")
      BY <2>2
    <3>2. n \in Names /\ js[n].enabled /\ ~IsRunning(js[n])
      BY DEF Claimable, IsDue
    <3> HIDE DEF js, t
    <3>3. FileOK(jobs', wanted, succeeded) /\ RunsMatch(jobs', runs') /\ NoOverlap'
      BY <3>1, <3>2, <2>0, <2>1, ClaimKeeps
    <3>4. QuietWhenEarly'
      BY <1>12, <1>10 DEF QuietWhenEarly
    <3> QED
      BY <3>3, <3>4, <1>00, <1>12 DEF TickClaims, IInv, history
  <2>3. CASE UNCHANGED runs /\ jobs' \in {js, jobs}
    <3>1. AllKept(jobs, jobs')
      BY <2>3, <2>1, <1>01
    <3> QED
      BY <3>1, <2>3, <1>12, <1>10, <1>00, KeptInv DEF TickClaims, history
  <2> QED
    BY <2>2, <2>3, <1>12 DEF TickClaims
<1>13. ASSUME NEW k \in Ticks, TickArms(k)
       PROVE  IInv'
  <2>1. AllKept(jobs, jobs')
    BY <1>13, <1>03 DEF TickArms
  <2> QED
    BY <1>13, <2>1, <1>10, <1>00, KeptInv DEF TickArms, history
<1>14. ASSUME NEW s \in Slots, RunBegins(s)
       PROVE  IInv'
  <2>1. \A u \in Slots : /\ runs'[u].name = runs[u].name
                         /\ runs'[u].gen = runs[u].gen
                         /\ runs'[u].phase = "free" <=> runs[u].phase = "free"
    BY <1>14, <1>0 DEF RunBegins, RunRecords
  <2>2. RunsMatch(jobs, runs') /\ NoOverlap' /\ QuietWhenEarly'
    BY <2>1, <1>14
       DEF RunBegins, IInv, RunsMatch, NoOverlap, QuietWhenEarly, Live, startVars, Early
  <2> QED
    BY <2>2, <1>14, <1>00 DEF RunBegins, IInv, history
<1>15. ASSUME NEW s \in Slots, NEW ok \in BOOLEAN, FinishRun(s, ok)
       PROVE  IInv'
  <2> DEFINE js == Finished(runs[s].name, ok)
  <2>1. /\ Live(s)
        /\ runs' = [runs EXCEPT ![s] = FreeSlot]
        /\ succeeded' = IF ok THEN succeeded \union {runs[s].gen} ELSE succeeded
        /\ wanted' = wanted /\ proc' = proc
    BY <1>15 DEF FinishRun, Live, startVars
  <2>2. /\ FileOK(js, wanted, succeeded') /\ RunsMatch(js, runs')
        /\ FileOK(jobs, wanted, succeeded') /\ RunsMatch(jobs, runs')
    BY <2>1, FinishedKeeps
  <2> HIDE DEF js
  <2>3. FileOK(jobs', wanted, succeeded') /\ RunsMatch(jobs', runs')
    <3>1. CASE SaveAndArm(js)
      <4>1. AllKept(js, jobs')
        BY <3>1, <2>2, <1>0, SaveAndArmKeeps DEF FileOK
      <4>2. wanted \in SUBSET Names /\ \A u \in Slots : runs'[u].name \in Names
        BY <1>0, <1>00 DEF TypeOK, RunRecords
      <4> QED
        BY <4>1, <4>2, <2>2, KeptFile, KeptRuns
    <3>2. CASE UNCHANGED jobs
      BY <3>2, <2>2
    <3> QED
      BY <3>1, <3>2, <1>15 DEF FinishRun, js
  <2>4. \A u \in Slots : Live(u)' => Live(u) /\ runs'[u] = runs[u]
    BY <2>1, <1>0 DEF Live, FreeSlot
  <2>5. NoOverlap'
    BY <2>4 DEF IInv, NoOverlap
  <2>6. QuietWhenEarly'
    BY <2>1 DEF IInv, QuietWhenEarly, Early
  <2> QED
    BY <2>1, <2>3, <2>5, <2>6, <1>00 DEF IInv
<1>16. ASSUME NEW n \in Names, AddJob(n)
       PROVE  IInv'
  <2> DEFINE fresh == [NoJob EXCEPT !.gen = adds', !.enabled = TRUE, !.created = now]
             js == [jobs EXCEPT ![n] = Scheduled(n, fresh, now)]
  <2>1. adds' \in 0..MaxAdds /\ adds' # 0
    BY <1>00, <1>16, <1>0 DEF AddJob, TypeOK
  <2>2. fresh \in JobRecords /\ fresh.gen = adds' /\ ~fresh.ok /\ fresh.enabled
    BY <2>1, <1>0, FreshIsRecord
  <2>3. SaveAndArm(js) /\ Operates /\ ~Exists(n) /\ wanted' = wanted \union {n}
        /\ UNCHANGED <<runs, succeeded>>
    BY <1>16 DEF AddJob
  <2> HIDE DEF fresh
  <2>4. /\ js[n] = Scheduled(n, fresh, now)
        /\ js \in [Names -> JobRecords]
        /\ js[n].gen # 0 /\ ~js[n].ok /\ js[n].enabled
        /\ Kind[n] = "at" => js[n].next # Nil
    <3>1. /\ Scheduled(n, fresh, now) \in JobRecords
          /\ Scheduled(n, fresh, now).gen = fresh.gen
          /\ Scheduled(n, fresh, now).next = ComputeNextRun(n, fresh, now)
      BY <2>2, <1>0, ScheduledIsRecord
    <3>4. Scheduled(n, fresh, now).enabled
      BY <2>2, <1>0, ScheduledIsRecord
    <3>3. ~Scheduled(n, fresh, now).ok
      BY <2>2, <1>0, ScheduledIsRecord
    <3>2. Kind[n] = "at" => ComputeNextRun(n, fresh, now) # Nil
      BY <2>2, <1>0, NextRunIsTime
    <3> QED
      BY <3>1, <3>2, <3>3, <3>4, <2>1, <2>2, <1>0
  <2>5. \A m \in Names : m # n => js[m] = jobs[m]
    BY <1>0
  <2> HIDE DEF js
  <2>6. FileOK(js, wanted', succeeded)
    BY <2>3, <2>4, <2>5, <1>0 DEF IInv, FileOK, TypeOK
  <2>7. RunsMatch(js, runs)
    BY <2>3, <2>5, <1>0 DEF IInv, RunsMatch, Exists, RunRecords
  <2> QED
    BY <2>3, <2>6, <2>7, <1>00, OperationInv
<1>17. ASSUME NEW n \in Names, RemoveJob(n)
       PROVE  IInv'
  <2> DEFINE js == [jobs EXCEPT ![n] = NoJob]
  <2>1. SaveAndArm(js) /\ Operates /\ ~IsRunning(jobs[n]) /\ wanted' = wanted \ {n}
        /\ UNCHANGED <<runs, succeeded>>
    BY <1>17 DEF RemoveJob
  <2>2. NoJob \in JobRecords /\ ~NoJob.enabled /\ ~NoJob.ok
    BY CronAssumption DEF NoJob, JobRecords, Nil, CronAssumption
  <2>3. /\ js \in [Names -> JobRecords] /\ js[n] = NoJob
        /\ \A m \in Names : m # n => js[m] = jobs[m]
    BY <1>0, <2>2
  <2> HIDE DEF js
  <2>4. FileOK(js, wanted', succeeded)
    BY <2>1, <2>2, <2>3, <1>0 DEF IInv, FileOK, TypeOK
  <2>5. RunsMatch(js, runs)
    BY <2>1, <2>3, <1>0 DEF IInv, RunsMatch, RunRecords
  <2> QED
    BY <2>1, <2>4, <2>5, <1>00, OperationInv
<1>18. ASSUME NEW n \in Names, EnableJob(n)
       PROVE  IInv'
  <2> DEFINE next == ComputeNextRun(n, jobs[n], now)
             js == [jobs EXCEPT ![n] = [@ EXCEPT !.enabled = TRUE, !.next = next]]
  <2>1. SaveAndArm(js) /\ Operates /\ Exists(n) /\ wanted' = wanted \union {n}
        /\ UNCHANGED <<runs, succeeded>>
    BY <1>18 DEF EnableJob
  <2>2. next \in Int /\ ((Kind[n] = "at" /\ ~jobs[n].ok) => next # Nil)
    BY <1>0, NextRunIsTime
  <2> HIDE DEF next
  <2>3. /\ js \in [Names -> JobRecords]
        /\ js[n].enabled /\ js[n].next = next
        /\ js[n].gen = jobs[n].gen /\ js[n].ok = jobs[n].ok
        /\ js[n].runningAt = jobs[n].runningAt
        /\ \A m \in Names : m # n => js[m] = jobs[m]
    BY <1>0, <2>2 DEF JobRecords
  <2> HIDE DEF js
  <2>4. FileOK(js, wanted', succeeded)
    BY <2>1, <2>2, <2>3, <1>0 DEF IInv, FileOK, TypeOK, Exists
  <2>5. RunsMatch(js, runs)
    BY <2>3, <1>0 DEF IInv, RunsMatch, RunRecords, IsRunning
  <2> QED
    BY <2>1, <2>4, <2>5, <1>00, OperationInv
<1>19. ASSUME NEW n \in Names, DisableJob(n)
       PROVE  IInv'
  <2> DEFINE js == [jobs EXCEPT ![n] = [@ EXCEPT !.enabled = FALSE, !.next = Nil,
                                                 !.runningAt = Nil]]
  <2>1. SaveAndArm(js) /\ Operates /\ ~IsRunning(jobs[n]) /\ wanted' = wanted \ {n}
        /\ UNCHANGED <<runs, succeeded>>
    BY <1>19 DEF DisableJob
  <2>2. /\ [jobs[n] EXCEPT !.enabled = FALSE, !.next = Nil, !.runningAt = Nil] \in JobRecords
        /\ ~js[n].enabled /\ js[n].gen = jobs[n].gen /\ js[n].ok = jobs[n].ok
    <3>1. [jobs[n] EXCEPT !.enabled = FALSE, !.next = Nil] \in JobRecords
      BY <1>0, ClearedIsRecord
    <3>2. \A r \in JobRecords : [r EXCEPT !.runningAt = Nil] \in JobRecords
      BY DEF JobRecords, Nil
    <3> QED
      BY <3>1, <3>2, <1>0 DEF JobRecords
  <2>3. /\ js \in [Names -> JobRecords]
        /\ \A m \in Names : m # n => js[m] = jobs[m]
    BY <1>0, <2>2
  <2> HIDE DEF js
  <2>4. FileOK(js, wanted', succeeded)
    BY <2>1, <2>2, <2>3, <1>0 DEF IInv, FileOK, TypeOK
  <2>5. RunsMatch(js, runs)
    BY <2>1, <2>3, <1>0 DEF IInv, RunsMatch, RunRecords
  <2> QED
    BY <2>1, <2>4, <2>5, <1>00, OperationInv
<1>20. ASSUME NEW n \in Names, NEW force \in BOOLEAN, RunJob(n, force)
       PROVE  IInv'
  <2> DEFINE js == Recomputed(jobs, now, FALSE)
  <2>1. PICK s \in FreeSlots : Claim(js, n, now, s, "running")
    BY <1>20 DEF RunJob
  <2>2. js[n].enabled /\ ~IsRunning(js[n])
    BY <1>20 DEF RunJob, IsDue
  <2> HIDE DEF js
  <2>3. FileOK(jobs', wanted, succeeded) /\ RunsMatch(jobs', runs') /\ NoOverlap'
    BY <2>1, <2>2, <1>0, <1>02, ClaimKeeps DEF js
  <2>4. QuietWhenEarly'
    BY <1>20 DEF RunJob, Operates, startVars, QuietWhenEarly, Early
  <2> QED
    BY <2>3, <2>4, <1>20, <1>00 DEF RunJob, IInv, history
<1>21. CASE ListJobs
  BY <1>21, <1>0, <1>00, <1>02, KeptInv DEF ListJobs, Operates, startVars, history, Early
<1>22. CASE ClockTicks
  <2>1. AllKept(jobs, jobs')
    BY <1>22, <1>01 DEF ClockTicks
  <2> QED
    BY <1>22, <2>1, <1>00, KeptInv DEF ClockTicks, startVars, history, Early
<1>23. CASE UNCHANGED vars
  <2>1. AllKept(jobs, jobs')
    BY <1>23, <1>01 DEF vars
  <2> QED
    BY <1>23, <2>1, <1>00, KeptInv DEF vars, Early
<1> QED
  BY <1>1, <1>2, <1>3, <1>4, <1>5, <1>6, <1>7, <1>8, <1>9, <1>11, <1>12, <1>13, <1>14,
     <1>15, <1>16, <1>17, <1>18, <1>19, <1>20, <1>21, <1>22, <1>23
     DEF Next, StartStep, TickStep, UserStep

LEMMA InvImplies ==
  ASSUME IInv
  PROVE  NoOverlap /\ OneShotNotLost
BY DEF IInv, FileOK, OneShotNotLost

(* If nobody disables or removes a job while it runs, a job never runs     *)
(* twice at the same time: claimed by a tick, by the catch-up or by hand.  *)
THEOREM NeverTwiceAtOnce ==
  ASSUME ~MayForget
  PROVE  Spec => []NoOverlap
<1>1. Init => IInv
  BY InitInv
<1>2. IInv /\ [Next]_vars => IInv'
  BY InvStep
<1>3. IInv => NoOverlap
  BY InvImplies
<1> QED
  BY <1>1, <1>2, <1>3, PTL DEF Spec

(* Under the same condition a one-shot job that is wanted stays enabled,   *)
(* with its time, until a run of it has succeeded.                         *)
THEOREM OneShotStays ==
  ASSUME ~MayForget
  PROVE  Spec => []OneShotNotLost
<1>1. Init => IInv
  BY InitInv
<1>2. IInv /\ [Next]_vars => IInv'
  BY InvStep
<1>3. IInv => OneShotNotLost
  BY InvImplies
<1> QED
  BY <1>1, <1>2, <1>3, PTL DEF Spec
--------------------------------------------------------------------------------
(* Markers without a run *)

Working == proc \in {"catchup", "arming", "up"}

(* A name without a job has neither a schedule nor a marker. *)
AbsentIsIdle(js) ==
  \A n \in Names : js[n].gen = 0 => ~js[n].enabled /\ js[n].runningAt = Nil

GhostInv == NoGhostRunning /\ AbsentIsIdle(jobs)

(* A step leaves no marker without a run when it sets no marker but with a *)
(* run, and ends a run only with the marker cleared or with the process.   *)
LEMMA NoGhostMoves ==
  ASSUME NoGhostRunning, Working' => Working,
         \A n \in Names :
           IsRunning(jobs'[n]) =>
             IsRunning(jobs[n]) \/ \E s \in Slots : Live(s)' /\ runs'[s].name = n,
         \A s \in Slots : \A n \in Names :
           (Live(s) /\ runs[s].name = n /\ IsRunning(jobs'[n])) =>
             Live(s)' /\ runs'[s].name = n
  PROVE  NoGhostRunning'
<1> SUFFICES ASSUME NEW n \in Names, Working', IsRunning(jobs'[n])
             PROVE  \E s \in Slots : Live(s)' /\ runs'[s].name = n
  BY DEF NoGhostRunning, Working, IsRunning
<1>1. CASE IsRunning(jobs[n])
  <2>1. PICK s \in Slots : Live(s) /\ runs[s].name = n
    BY <1>1 DEF NoGhostRunning, Working
  <2>q. QED BY <2>1
<1>2. CASE ~IsRunning(jobs[n])
  BY <1>2
<1>q. QED BY <1>1, <1>2

(* Recomputing the schedule leaves the markers. *)
LEMMA MarkersKept ==
  ASSUME TypeOK, AbsentIsIdle(jobs), NEW t \in Int, NEW e \in BOOLEAN
  PROVE  /\ \A n \in Names : IsRunning(Recomputed(jobs, t, e)[n]) => IsRunning(jobs[n])
         /\ AbsentIsIdle(Recomputed(jobs, t, e))
         /\ Recomputed(jobs, t, e) \in [Names -> JobRecords]
<1>1. AllKept(jobs, Recomputed(jobs, t, e))
  BY RecomputedKeeps DEF TypeOK
<1>q. QED BY <1>1 DEF AllKept, Kept, IsRunning, AbsentIsIdle

(* An operation of a user that sets no marker. *)
LEMMA NoGhostOperation ==
  ASSUME TypeOK, GhostInv, NEW js \in [Names -> JobRecords], SaveAndArm(js),
         AbsentIsIdle(js),
         \A n \in Names : IsRunning(js[n]) => IsRunning(jobs[n]),
         UNCHANGED <<runs, proc>>
  PROVE  GhostInv'
<1>1. AllKept(js, jobs')
  BY SaveAndArmKeeps
<1>2. \A n \in Names : IsRunning(jobs'[n]) => IsRunning(jobs[n])
  BY <1>1 DEF AllKept, Kept, IsRunning
<1>3. AbsentIsIdle(jobs')
  BY <1>1 DEF AllKept, Kept, AbsentIsIdle
<1>q. QED BY <1>2, <1>3, NoGhostMoves DEF GhostInv, Working, Live

(* A claim takes a free slot and sets marker and run together. *)
LEMMA NoGhostClaim ==
  ASSUME TypeOK, GhostInv, NEW t \in Int, NEW n \in Names, NEW s \in FreeSlots,
         NEW at, NEW ph \in {"waiting", "running"},
         Recomputed(jobs, t, FALSE)[n].enabled,
         Claim(Recomputed(jobs, t, FALSE), n, at, s, ph), UNCHANGED proc
  PROVE  GhostInv'
<1> DEFINE js == Recomputed(jobs, t, FALSE)
<1>1. /\ js \in [Names -> JobRecords] /\ AbsentIsIdle(js)
      /\ \A m \in Names : IsRunning(js[m]) => IsRunning(jobs[m])
  BY MarkersKept DEF GhostInv
<1>2. /\ jobs' = [js EXCEPT ![n].runningAt = at]
      /\ runs' = [runs EXCEPT ![s] = [phase |-> ph, name |-> n, gen |-> js[n].gen]]
      /\ js[n].enabled
  BY DEF Claim
<1> HIDE DEF js
<1>3. s \in Slots /\ ~Live(s) /\ runs \in [Slots -> RunRecords]
  BY DEF FreeSlots, TypeOK
<1>4. /\ Live(s)' /\ runs'[s].name = n
      /\ \A u \in Slots : u # s => runs'[u] = runs[u]
  BY <1>2, <1>3 DEF Live
<1>5. /\ \A m \in Names : m # n => jobs'[m] = js[m]
      /\ jobs'[n].gen = js[n].gen
  BY <1>1, <1>2 DEF JobRecords
<1>6. \A m \in Names :
        IsRunning(jobs'[m]) =>
          IsRunning(jobs[m]) \/ \E u \in Slots : Live(u)' /\ runs'[u].name = m
  BY <1>1, <1>3, <1>4, <1>5
<1>7. \A u \in Slots : \A m \in Names :
        (Live(u) /\ runs[u].name = m /\ IsRunning(jobs'[m])) =>
          Live(u)' /\ runs'[u].name = m
  BY <1>3, <1>4 DEF Live
<1>8. AbsentIsIdle(jobs')
  BY <1>1, <1>2, <1>5 DEF AbsentIsIdle
<1>q. QED BY <1>6, <1>7, <1>8, NoGhostMoves DEF GhostInv, Working

(* A run that finishes clears the marker of its job. *)
LEMMA NoGhostFinish ==
  ASSUME ~StoreFails, TypeOK, GhostInv, NEW s \in Slots, NEW ok \in BOOLEAN,
         FinishRun(s, ok)
  PROVE  GhostInv'
<1>0. PICK n : n = runs[s].name
  OBVIOUS
<1> DEFINE j == [jobs[n] EXCEPT !.runningAt = Nil, !.lastRun = now, !.ok = ok]
           js == Finished(n, ok)
<1>1. /\ runs \in [Slots -> RunRecords] /\ n \in Names /\ jobs \in [Names -> JobRecords]
      /\ now \in Nat /\ now \in Int
  BY <1>0, CronAssumption DEF TypeOK, RunRecords, CronAssumption
<1>2. /\ SaveAndArm(js) /\ UNCHANGED proc
      /\ runs' = [runs EXCEPT ![s] = FreeSlot]
  BY <1>0 DEF FinishRun, startVars
<1>3. js \in [Names -> JobRecords]
  BY <1>1, FinishedTypes
<1>4. /\ js[n].gen = jobs[n].gen /\ js[n].runningAt = Nil
      /\ js[n].enabled => jobs[n].enabled
      /\ \A m \in Names : m # n => js[m] = jobs[m]
  <2>1. j \in JobRecords /\ j.runningAt = Nil /\ j.gen = jobs[n].gen /\ j.enabled = jobs[n].enabled
    <3>1. jobs[n] \in JobRecords
      BY <1>1
    <3>q. QED BY <1>1, <3>1 DEF JobRecords, Nil
  <2>2. LET k == [j EXCEPT !.enabled = FALSE, !.next = Nil]
        IN k.runningAt = Nil /\ k.gen = jobs[n].gen /\ ~k.enabled
    <3> HIDE DEF j
    <3>q. QED BY <2>1 DEF JobRecords
  <2>3. LET k == Scheduled(n, j, now)
        IN k.runningAt = Nil /\ k.gen = jobs[n].gen /\ k.enabled = jobs[n].enabled
    <3> HIDE DEF j
    <3>q. QED BY <1>1, <2>1, ScheduledIsRecord
  <2>4. CASE ~Exists(n)
    <3>1. jobs[n].gen = 0 /\ js = jobs
      BY <2>4 DEF Exists, Finished
    <3>q. QED BY <1>1, <3>1 DEF GhostInv, AbsentIsIdle
  <2>5. CASE Exists(n)
    <3> HIDE DEF j
    <3>1. js = [jobs EXCEPT ![n] =
                 IF Kind[n] = "at" /\ ok THEN [j EXCEPT !.enabled = FALSE, !.next = Nil]
                 ELSE IF j.enabled THEN Scheduled(n, j, now)
                 ELSE j]
      BY <2>5 DEF Finished, j
    <3>q. QED BY <1>1, <2>1, <2>2, <2>3, <3>1
  <2>q. QED BY <2>4, <2>5
<1> HIDE DEF js
<1>5. AllKept(js, jobs')
  BY <1>2, <1>3, SaveAndArmKeeps
<1>6. AbsentIsIdle(jobs')
  BY <1>1, <1>4, <1>5 DEF GhostInv, AbsentIsIdle, AllKept, Kept
<1>7. /\ ~IsRunning(jobs'[n])
      /\ \A m \in Names : IsRunning(jobs'[m]) => IsRunning(jobs[m])
  BY <1>1, <1>4, <1>5 DEF AllKept, Kept, IsRunning
<1>8. \A u \in Slots : \A m \in Names :
        (Live(u) /\ runs[u].name = m /\ IsRunning(jobs'[m])) =>
          Live(u)' /\ runs'[u].name = m
  BY <1>0, <1>1, <1>2, <1>7 DEF Live
<1>q. QED BY <1>2, <1>6, <1>7, <1>8, NoGhostMoves DEF GhostInv, Working

(* Start marks the interrupted runs before anything can be claimed. *)
LEMMA NoGhostMarked ==
  ASSUME ~StoreFails, TypeOK, GhostInv, MarkInterruptedRuns
  PROVE  GhostInv'
<1> DEFINE marked == [n \in Names |->
             IF IsRunning(jobs[n])
             THEN [jobs[n] EXCEPT !.lastRun = jobs[n].runningAt, !.runningAt = Nil,
                                  !.ok = FALSE]
             ELSE jobs[n]]
<1>1. jobs' = Recomputed(marked, now, FALSE)
  BY DEF MarkInterruptedRuns
<1>2. jobs \in [Names -> JobRecords] /\ now \in Int
  BY CronAssumption DEF TypeOK, CronAssumption
<1>3. ASSUME NEW n \in Names
      PROVE  /\ marked[n] \in JobRecords /\ marked[n].runningAt = Nil
             /\ marked[n].gen = jobs[n].gen /\ marked[n].enabled = jobs[n].enabled
  <2>1. jobs[n] \in JobRecords
    BY <1>2
  <2>2. CASE IsRunning(jobs[n])
    BY <2>1, <2>2, MarkedTypes DEF JobRecords
  <2>3. CASE ~IsRunning(jobs[n])
    BY <2>1, <2>3 DEF IsRunning
  <2>q. QED BY <2>2, <2>3
<1>4. marked \in [Names -> JobRecords]
  BY <1>3
<1> HIDE DEF marked
<1>5. AllKept(marked, jobs')
  BY <1>1, <1>2, <1>4, RecomputedKeeps
<1>6. \A n \in Names : ~IsRunning(jobs'[n])
  BY <1>3, <1>5 DEF AllKept, Kept, IsRunning
<1>7. AbsentIsIdle(jobs')
  BY <1>3, <1>5 DEF AllKept, Kept, AbsentIsIdle, GhostInv
<1>q. QED BY <1>6, <1>7 DEF GhostInv, NoGhostRunning, IsRunning

(* Steps that at most recompute the schedule and leave the runs alone. *)
LEMMA NoGhostQuiet ==
  ASSUME TypeOK, GhostInv, NEW t \in Int, NEW e \in BOOLEAN,
         jobs' = jobs \/ jobs' = Recomputed(jobs, t, e), Working' => Working,
         \A s \in Slots : Live(s) => Live(s)' /\ runs'[s].name = runs[s].name
  PROVE  GhostInv'
<1>1. AbsentIsIdle(jobs') /\ \A n \in Names : IsRunning(jobs'[n]) => IsRunning(jobs[n])
  <2>1. CASE jobs' = jobs
    BY <2>1 DEF GhostInv, AbsentIsIdle
  <2>2. CASE jobs' = Recomputed(jobs, t, e)
    BY <2>2, MarkersKept DEF GhostInv
  <2>q. QED BY <2>1, <2>2
<1>q. QED BY <1>1, NoGhostMoves DEF GhostInv

(* What the user's operations write. *)
LEMMA NoGhostUser ==
  ASSUME TypeOK, GhostInv, NEW n \in Names,
         AddJob(n) \/ RemoveJob(n) \/ EnableJob(n) \/ DisableJob(n)
  PROVE  GhostInv'
<1>1. PICK k :
        /\ SaveAndArm([jobs EXCEPT ![n] = k])
        /\ k \in JobRecords
        /\ k.runningAt = Nil \/ (k.runningAt = jobs[n].runningAt /\ k.gen # 0)
        /\ k.gen = 0 => ~k.enabled
        /\ UNCHANGED <<runs, proc>>
  <2>1. /\ jobs[n] \in JobRecords /\ now \in Nat /\ now \in Int
    BY CronAssumption DEF TypeOK, CronAssumption
  <2>2. CASE AddJob(n)
    <3> DEFINE fresh == [NoJob EXCEPT !.gen = adds', !.enabled = TRUE, !.created = now]
    <3>1. adds' \in 0..MaxAdds /\ adds' # 0
      BY <2>2, CronAssumption DEF AddJob, TypeOK, CronAssumption
    <3>2. fresh \in JobRecords /\ fresh.gen = adds'
      BY <2>1, <3>1, FreshIsRecord
    <3>3. fresh.runningAt = Nil
      BY DEF NoJob
    <3> HIDE DEF fresh
    <3>4. /\ Scheduled(n, fresh, now) \in JobRecords
          /\ Scheduled(n, fresh, now).gen = adds'
          /\ Scheduled(n, fresh, now).runningAt = Nil
      BY <2>1, <3>2, <3>3, ScheduledIsRecord
    <3>q. QED BY <2>2, <3>1, <3>4 DEF AddJob, Operates, startVars, fresh
  <2>3. CASE RemoveJob(n)
    <3>1. NoJob \in JobRecords /\ NoJob.runningAt = Nil /\ ~NoJob.enabled
      BY CronAssumption DEF NoJob, JobRecords, Nil, CronAssumption
    <3>q. QED BY <2>3, <3>1 DEF RemoveJob, Operates, startVars
  <2>4. CASE EnableJob(n)
    <3> DEFINE next == ComputeNextRun(n, jobs[n], now)
               k == [jobs[n] EXCEPT !.enabled = TRUE, !.next = next]
    <3>1. next \in Int
      BY <2>1, NextRunIsTime
    <3> HIDE DEF next
    <3>2. k \in JobRecords /\ k.runningAt = jobs[n].runningAt /\ k.gen = jobs[n].gen
      BY <2>1, <3>1 DEF JobRecords
    <3>3. SaveAndArm([jobs EXCEPT ![n] = k]) /\ jobs[n].gen # 0 /\ UNCHANGED <<runs, proc>>
      BY <2>4 DEF EnableJob, Exists, Operates, startVars, next, TypeOK
    <3>q. QED BY <3>2, <3>3
  <2>5. CASE DisableJob(n)
    <3> DEFINE k == [jobs[n] EXCEPT !.enabled = FALSE, !.next = Nil, !.runningAt = Nil]
    <3>1. k \in JobRecords /\ ~k.enabled /\ k.runningAt = Nil
      <4>1. [jobs[n] EXCEPT !.enabled = FALSE, !.next = Nil] \in JobRecords
        BY <2>1, ClearedIsRecord
      <4>2. \A r \in JobRecords : [r EXCEPT !.runningAt = Nil] \in JobRecords
        BY DEF JobRecords, Nil
      <4>q. QED BY <2>1, <4>1, <4>2 DEF JobRecords
    <3>2. SaveAndArm([jobs EXCEPT ![n] = k]) /\ UNCHANGED <<runs, proc>>
      BY <2>5 DEF DisableJob, Operates, startVars, TypeOK
    <3>q. QED BY <3>1, <3>2
  <2>q. QED BY <2>2, <2>3, <2>4, <2>5
<1> DEFINE js == [jobs EXCEPT ![n] = k]
<1>2. /\ js \in [Names -> JobRecords] /\ js[n] = k
      /\ \A m \in Names : m # n => js[m] = jobs[m]
  BY <1>1 DEF TypeOK
<1> HIDE DEF js
<1>3. AbsentIsIdle(js) /\ \A m \in Names : IsRunning(js[m]) => IsRunning(jobs[m])
  BY <1>1, <1>2 DEF GhostInv, AbsentIsIdle, IsRunning
<1>q. QED BY <1>1, <1>2, <1>3, NoGhostOperation DEF js

(* Every step, with a job file that works. *)
LEMMA GhostStep ==
  ASSUME ~StoreFails, TypeOK, GhostInv, [Next]_vars
  PROVE  GhostInv'
<1>0. /\ now \in Int /\ jobs \in [Names -> JobRecords]
      /\ \A k \in Ticks : tick[k].now \in Int
      /\ runs \in [Slots -> RunRecords]
  BY CronAssumption DEF TypeOK, CronAssumption
<1>1. CASE NewScheduler
  <2>1. jobs' = Recomputed(jobs, now, TRUE) /\ UNCHANGED runs /\ proc' = "loaded"
    BY <1>1 DEF NewScheduler
  <2>2. \A s \in Slots : Live(s) => Live(s)' /\ runs'[s].name = runs[s].name
    BY <2>1 DEF Live
  <2>3. ~Working' /\ TRUE \in BOOLEAN
    BY <2>1 DEF Working
  <2>q. QED BY <1>0, <2>1, <2>2, <2>3, NoGhostQuiet
<1>2. CASE StartBegins \/ CancelContext \/ Stop \/ ClockTicks \/ UNCHANGED vars
  <2>1. UNCHANGED <<jobs, runs>> /\ (Working' => Working)
    BY <1>2 DEF StartBegins, CancelContext, Stop, ClockTicks, vars, startVars, Working
  <2>2. \A s \in Slots : Live(s) => Live(s)' /\ runs'[s].name = runs[s].name
    BY <2>1 DEF Live
  <2>3. (Working' => Working) /\ TRUE \in BOOLEAN
    BY <2>1 DEF Working
  <2>q. QED BY <1>0, <2>1, <2>2, <2>3, NoGhostQuiet
<1>3. CASE MarkInterruptedRuns
  BY <1>3, NoGhostMarked
<1>4. CASE CatchUp
  <2>1. CASE \E n \in Claimable(Recomputed(jobs, now, FALSE), now), s \in FreeSlots :
               Claim(Recomputed(jobs, now, FALSE), n, now, s, "waiting") /\ UNCHANGED proc
    BY <1>0, <2>1, NoGhostClaim DEF Claimable, IsDue
  <2>2. CASE /\ jobs' = jobs \/ jobs' = Recomputed(jobs, now, FALSE)
             /\ UNCHANGED runs /\ proc = "catchup"
    <3>1. \A s \in Slots : Live(s) => Live(s)' /\ runs'[s].name = runs[s].name
      BY <2>2 DEF Live
    <3>2. Working /\ FALSE \in BOOLEAN
      BY <2>2 DEF Working
    <3>q. QED BY <1>0, <2>2, <3>1, <3>2, NoGhostQuiet
  <2>q. QED BY <1>4, <2>1, <2>2 DEF CatchUp
<1>5. CASE StartArms
  <2>1. SaveAndArm(jobs) /\ UNCHANGED runs /\ Working
    BY <1>5 DEF StartArms, Working
  <2>2. AllKept(jobs, jobs')
    BY <1>0, <2>1, SaveAndArmKeeps
  <2>3. AbsentIsIdle(jobs') /\ \A n \in Names : IsRunning(jobs'[n]) => IsRunning(jobs[n])
    BY <2>2 DEF GhostInv, AbsentIsIdle, AllKept, Kept, IsRunning
  <2>q. QED BY <2>1, <2>3, NoGhostMoves DEF GhostInv, Live
<1>6. CASE Exit
  <2>1. UNCHANGED jobs /\ proc' = "down"
    BY <1>6 DEF Exit
  <2>q. QED BY <2>1 DEF GhostInv, NoGhostRunning
<1>7. ASSUME NEW k \in Ticks, TimerFires(k) \/ TickChecks(k) PROVE GhostInv'
  <2>1. UNCHANGED <<jobs, runs, proc>>
    BY <1>7 DEF TimerFires, TickChecks, startVars
  <2>2. \A s \in Slots : Live(s) => Live(s)' /\ runs'[s].name = runs[s].name
    BY <2>1 DEF Live
  <2>3. (Working' => Working) /\ TRUE \in BOOLEAN
    BY <2>1 DEF Working
  <2>q. QED BY <1>0, <2>1, <2>2, <2>3, NoGhostQuiet
<1>8. ASSUME NEW k \in Ticks, TickClaims(k) PROVE GhostInv'
  <2> DEFINE t == tick[k].now
             js == Recomputed(jobs, t, FALSE)
  <2>1. UNCHANGED proc
    BY <1>8 DEF TickClaims, startVars
  <2>2. CASE \E n \in Claimable(js, t), s \in FreeSlots : Claim(js, n, t, s, "running")
    BY <1>0, <2>1, <2>2, NoGhostClaim DEF Claimable, IsDue
  <2>3. CASE (jobs' = js \/ jobs' = jobs) /\ UNCHANGED runs
    <3>1. \A s \in Slots : Live(s) => Live(s)' /\ runs'[s].name = runs[s].name
      BY <2>3 DEF Live
    <3>2. (Working' => Working) /\ t \in Int /\ FALSE \in BOOLEAN
      BY <1>0, <2>1 DEF Working
    <3> HIDE DEF t
    <3>q. QED BY <2>3, <3>1, <3>2, NoGhostQuiet
  <2>q. QED BY <1>8, <2>2, <2>3 DEF TickClaims
<1>9. ASSUME NEW k \in Ticks, TickArms(k) PROVE GhostInv'
  BY <1>0, <1>9, NoGhostOperation DEF TickArms, startVars, GhostInv
<1>10. ASSUME NEW s \in Slots, RunBegins(s) PROVE GhostInv'
  <2>1. UNCHANGED <<jobs, proc>> /\ runs' = [runs EXCEPT ![s].phase = "running"]
    BY <1>10 DEF RunBegins, startVars
  <2>2. \A u \in Slots : Live(u) => Live(u)' /\ runs'[u].name = runs[u].name
    BY <1>0, <2>1 DEF Live, RunRecords
  <2>3. (Working' => Working) /\ TRUE \in BOOLEAN
    BY <2>1 DEF Working
  <2>q. QED BY <1>0, <2>1, <2>2, <2>3, NoGhostQuiet
<1>11. ASSUME NEW n \in Names, NEW force \in BOOLEAN, RunJob(n, force) PROVE GhostInv'
  <2>1. PICK s \in FreeSlots : Claim(Recomputed(jobs, now, FALSE), n, now, s, "running")
    BY <1>11 DEF RunJob
  <2>2. Recomputed(jobs, now, FALSE)[n].enabled /\ UNCHANGED proc
    BY <1>11 DEF RunJob, IsDue, Operates, startVars
  <2>q. QED BY <1>0, <2>1, <2>2, NoGhostClaim
<1>12. CASE ListJobs
  <2>1. jobs' = Recomputed(jobs, now, FALSE) /\ UNCHANGED <<runs, proc>>
    BY <1>12 DEF ListJobs, Operates, startVars
  <2>2. \A s \in Slots : Live(s) => Live(s)' /\ runs'[s].name = runs[s].name
    BY <2>1 DEF Live
  <2>3. (Working' => Working) /\ FALSE \in BOOLEAN
    BY <2>1 DEF Working
  <2>q. QED BY <1>0, <2>1, <2>2, <2>3, NoGhostQuiet
<1>q. QED BY <1>1, <1>2, <1>3, <1>4, <1>5, <1>6, <1>7, <1>8, <1>9, <1>10, <1>11, <1>12,
             NoGhostFinish, NoGhostUser
          DEF Next, StartStep, TickStep, UserStep

(* With a job file that can be read and written no job is stuck: a marker  *)
(* in the file of a scheduler that is at work belongs to a goroutine that  *)
(* is going to clear it, also when jobs are disabled or removed and added  *)
(* again while they run, and whenever the process dies.                    *)
THEOREM NoJobIsStuck ==
  ASSUME ~StoreFails
  PROVE  Spec => []NoGhostRunning
<1>1. Init => GhostInv
  BY DEF Init, GhostInv, NoGhostRunning, AbsentIsIdle, NoJob
<1>2. TypeOK /\ GhostInv /\ [Next]_vars => GhostInv'
  BY GhostStep
<1>3. GhostInv => NoGhostRunning
  BY DEF GhostInv
<1>q. QED BY <1>1, <1>2, <1>3, TypeCorrect, PTL DEF Spec
================================================================================
