------------------------------ MODULE SessionTurns ------------------------------
(***************************************************************************)
(* internal/agent/session.go: the turns of one session key.                *)
(*                                                                         *)
(* Every inbound message gets a goroutine that runs Dispatch (a cron run   *)
(* gets RunCronAgentTurn): find or create the Session, startTurn, run the  *)
(* agent, check that the turn is still wanted, publish, finishTurn.  The   *)
(* gateway loop runs /stop and /clear between messages, the cleanup        *)
(* goroutine evicts, and shutdown cancels everything.  A Session object    *)
(* that was evicted or cleared can still be in the hands of a goroutine    *)
(* that looked it up before, so objects are numbered and never reused.     *)
(*                                                                         *)
(* Turn t belongs to the t-th message of the key.  The agent run and the   *)
(* model are external: a run ends with any outcome, "canceled" only when   *)
(* its context is done.  Bounds: NumTurns, MaxSessions (Session objects),  *)
(* MaxCommands (/stop and /clear together), MaxEvictions.                  *)
(***************************************************************************)
EXTENDS Naturals, Sequences

CONSTANTS NumTurns, MaxSessions, MaxCommands, MaxEvictions,
          IsCron       (* the key is a cron job's, not a chat's *)

ASSUME TurnsAssumption ==
  /\ NumTurns \in Nat
  /\ MaxSessions \in Nat
  /\ MaxCommands \in Nat
  /\ MaxEvictions \in Nat
  /\ IsCron \in BOOLEAN

Turns == 1..NumTurns
Objects == 1..MaxSessions
None == 0

VARIABLES
  pc,          (* pc[t]: where turn t's goroutine is                          *)
  obj,         (* obj[t]: the Session the goroutine holds                     *)
  turnSeq,     (* turnSeq[t]: what startTurn returned                         *)
  prev,        (* prev[t]: the turn whose cancel startTurn took over          *)
  cancelled,   (* turns whose own cancel function has been called             *)
  outcome,     (* outcome[t]: how the agent run ended                         *)
  answer,      (* answer[t]: what RunCronAgentTurn returned                   *)
  replies,     (* turns whose reply or error is on the bus, in order          *)
  rootDone,    (* the gateway's context is cancelled                          *)
  registered,  (* sm.sessions[key]                                            *)
  created,     (* Session objects made so far                                 *)
  seq,         (* seq[o]: activeTurnSeq                                       *)
  active,      (* active[o]: the turn whose cancel is activeTurnCancel        *)
  open,        (* open[o]: o's SQLite memory is not closed                    *)
  loop,        (* what the gateway loop is doing for this key                 *)
  victim,      (* the turn whose cancel /stop is about to call                *)
  commands,    (* /stop and /clear commands so far                            *)
  evictions    (* evictions so far                                            *)

vars == <<pc, obj, turnSeq, prev, cancelled, outcome, answer, replies, rootDone,
          registered, created, seq, active, open, loop, victim, commands,
          evictions>>

registry == <<registered, created, open>>
gatewayVars == <<loop, victim, commands, evictions, rootDone>>
slots == <<seq, active>>
turnVars == <<obj, turnSeq, prev>>
results == <<outcome, answer, replies>>

Outcomes == {"reply", "empty", "error", "handoff", "canceled"}
Started == {"cancelPrev", "run", "check", "poll", "send", "finish"}
Cancelled(t) == rootDone \/ t \in cancelled
Replied(t) == \E i \in 1..Len(replies) : replies[i] = t

Init ==
  /\ pc = [t \in Turns |-> "new"]
  /\ obj = [t \in Turns |-> None]
  /\ turnSeq = [t \in Turns |-> 0]
  /\ prev = [t \in Turns |-> None]
  /\ cancelled = {}
  /\ outcome = [t \in Turns |-> "none"]
  /\ answer = [t \in Turns |-> "none"]
  /\ replies = <<>>
  /\ rootDone = FALSE
  /\ registered = None
  /\ created = 0
  /\ seq = [o \in Objects |-> 0]
  /\ active = [o \in Objects |-> None]
  /\ open = [o \in Objects |-> FALSE]
  /\ loop = "idle"
  /\ victim = None
  /\ commands = 0
  /\ evictions = 0

Goto(t, l) == pc' = [pc EXCEPT ![t] = l]
--------------------------------------------------------------------------------
(* One goroutine per message *)

(* The gateway loop starts the goroutines in the order of the messages; a  *)
(* cron run is started by the scheduler.                                   *)
Arrive(t) ==
  /\ pc[t] = "new"
  /\ IsCron \/ loop = "idle"
  /\ \A u \in Turns : u < t => pc[u] # "new"
  /\ Goto(t, "lookup")
  /\ UNCHANGED <<cancelled, registry, gatewayVars, slots, turnVars, results>>

(* getOrCreateSession, fast path: a read lock, which /clear, eviction and  *)
(* Stop exclude while they hold sm.mu.                                     *)
Lookup(t) ==
  /\ pc[t] = "lookup"
  /\ loop # "clearing"
  /\ \/ /\ registered # None
        /\ obj' = [obj EXCEPT ![t] = registered]
        /\ Goto(t, "start")
     \/ /\ registered = None
        /\ Goto(t, "create")
        /\ UNCHANGED obj
  /\ UNCHANGED <<turnSeq, prev, cancelled, registry, gatewayVars, slots, results>>

(* getOrCreateSession, slow path under sm.mu: look again, then create. *)
Create(t) ==
  /\ pc[t] = "create"
  /\ loop # "clearing"
  /\ \/ /\ registered # None
        /\ obj' = [obj EXCEPT ![t] = registered]
        /\ UNCHANGED registry
     \/ /\ registered = None
        /\ created < MaxSessions
        /\ created' = created + 1
        /\ registered' = created'
        /\ open' = [open EXCEPT ![created'] = TRUE]
        /\ obj' = [obj EXCEPT ![t] = created']
  /\ Goto(t, "start")
  /\ UNCHANGED <<turnSeq, prev, cancelled, gatewayVars, slots, results>>

(* The database or the agent cannot be built: the error is published with  *)
(* the parent context and the message gets no turn.  The publish is one    *)
(* step: done after the parent's end it is refused.                        *)
CreateFails(t) ==
  /\ pc[t] = "create"
  /\ loop # "clearing"
  /\ registered = None
  /\ replies' = IF rootDone THEN replies ELSE Append(replies, t)
  /\ answer' = [answer EXCEPT ![t] = "error"]
  /\ Goto(t, "done")
  /\ UNCHANGED <<outcome, cancelled, registry, gatewayVars, slots, turnVars>>

StartTurn_ForgetsPrevious(t) ==
  LET o == obj[t] IN
  /\ pc[t] = "start"
  /\ seq' = [seq EXCEPT ![o] = @ + 1]
  /\ turnSeq' = [turnSeq EXCEPT ![t] = seq[o] + 1]
  /\ active' = [active EXCEPT ![o] = t]
  /\ Goto(t, "cancelPrev")
  /\ UNCHANGED <<obj, prev, cancelled, registry, gatewayVars, results>>

(* startTurn up to the unlock *)
StartTurn(t) ==
  LET o == obj[t] IN
  /\ pc[t] = "start"
  /\ seq' = [seq EXCEPT ![o] = @ + 1]
  /\ turnSeq' = [turnSeq EXCEPT ![t] = seq[o] + 1]
  /\ prev' = [prev EXCEPT ![t] = active[o]]
  /\ active' = [active EXCEPT ![o] = t]
  /\ Goto(t, "cancelPrev")
  /\ UNCHANGED <<obj, cancelled, registry, gatewayVars, results>>

CancelPrev_Skipped(t) ==
  /\ pc[t] = "cancelPrev"
  /\ Goto(t, "run")
  /\ UNCHANGED <<cancelled, registry, gatewayVars, slots, turnVars, results>>

CancelPrev(t) ==
  /\ pc[t] = "cancelPrev"
  /\ cancelled' = cancelled \union ({prev[t]} \ {None})
  /\ Goto(t, "run")
  /\ UNCHANGED <<registry, gatewayVars, slots, turnVars, results>>

(* Transcription and the agent run.  "error" stands for every failure that *)
(* is answered with a message; "handoff" for a run answered by the summary *)
(* session, whose reply, when there is one, is published without looking   *)
(* at the turn again.                                                      *)
RunEnds(t, oc) ==
  /\ pc[t] = "run"
  /\ oc = "canceled" => Cancelled(t)
  /\ oc = "handoff" => ~IsCron
  /\ outcome' = [outcome EXCEPT ![t] = oc]
  /\ \/ oc # "handoff" /\ Goto(t, "check")
     \/ oc = "handoff" /\ Goto(t, "poll")
     \/ oc = "handoff" /\ Goto(t, "finish")
  /\ UNCHANGED <<answer, replies, cancelled, registry, gatewayVars, slots, turnVars>>

(* turnCanceled: the error, the context, the current sequence number *)
IsUnwanted(t) ==
  outcome[t] = "canceled" \/ Cancelled(t) \/ seq[obj[t]] # turnSeq[t]

CheckCanceled(t) ==
  /\ pc[t] = "check"
  /\ \/ /\ IsUnwanted(t)
        /\ Goto(t, "finish")
        /\ answer' = [answer EXCEPT ![t] = "canceled"]
     \/ /\ ~IsUnwanted(t)
        /\ Goto(t, IF outcome[t] = "empty" THEN "finish" ELSE "poll")
        /\ answer' = [answer EXCEPT ![t] = IF outcome[t] = "error" THEN "error" ELSE "ok"]
  /\ UNCHANGED <<outcome, replies, cancelled, registry, gatewayVars, slots, turnVars>>

PublishPoll_NoCheck(t) ==
  /\ pc[t] = "poll"
  /\ Goto(t, "send")
  /\ UNCHANGED <<cancelled, registry, gatewayVars, slots, turnVars, results>>

(* PublishOutbound looks at the context first ... *)
PublishPoll(t) ==
  /\ pc[t] = "poll"
  /\ \/ Cancelled(t) /\ Goto(t, "finish") /\ answer' = [answer EXCEPT ![t] = "error"]
     \/ ~Cancelled(t) /\ Goto(t, "send") /\ UNCHANGED answer
  /\ UNCHANGED <<outcome, replies, cancelled, registry, gatewayVars, slots, turnVars>>

PublishSend_IgnoresError(t) ==
  /\ pc[t] = "send"
  /\ \/ replies' = Append(replies, t)
     \/ Cancelled(t) /\ UNCHANGED replies
  /\ Goto(t, "finish")
  /\ UNCHANGED <<outcome, answer, cancelled, registry, gatewayVars, slots, turnVars>>

(* ... and then waits for room or for the context; with both ready the     *)
(* runtime picks one.                                                      *)
PublishSend(t) ==
  /\ pc[t] = "send"
  /\ \/ replies' = Append(replies, t) /\ UNCHANGED answer
     \/ Cancelled(t) /\ answer' = [answer EXCEPT ![t] = "error"] /\ UNCHANGED replies
  /\ Goto(t, "finish")
  /\ UNCHANGED <<outcome, cancelled, registry, gatewayVars, slots, turnVars>>

FinishTurn_AnyTurn(t) ==
  /\ pc[t] = "finish"
  /\ active' = [active EXCEPT ![obj[t]] = None]
  /\ Goto(t, "done")
  /\ UNCHANGED <<seq, cancelled, registry, gatewayVars, turnVars, results>>

FinishTurn(t) ==
  LET o == obj[t] IN
  /\ pc[t] = "finish"
  /\ active' = IF seq[o] = turnSeq[t] THEN [active EXCEPT ![o] = None] ELSE active
  /\ Goto(t, "done")
  /\ UNCHANGED <<seq, cancelled, registry, gatewayVars, turnVars, results>>
--------------------------------------------------------------------------------
(* The gateway loop's commands, the cleanup goroutine, shutdown *)

StopRead_NoNilCheck ==
  /\ loop = "idle" /\ ~IsCron
  /\ commands < MaxCommands
  /\ commands' = commands + 1
  /\ registered # None
  /\ victim' = active[registered]
  /\ loop' = "stopping"
  /\ UNCHANGED <<pc, cancelled, registry, evictions, rootDone, slots, turnVars, results>>

HasActiveTurn == registered # None /\ active[registered] # None

(* /stop: StopTurn reads the cancel function under the session's lock ... *)
StopRead ==
  /\ loop = "idle" /\ ~IsCron
  /\ commands < MaxCommands
  /\ commands' = commands + 1
  /\ \/ /\ HasActiveTurn
        /\ victim' = active[registered]
        /\ loop' = "stopping"
     \/ /\ ~HasActiveTurn
        /\ UNCHANGED <<victim, loop>>
  /\ UNCHANGED <<pc, cancelled, registry, evictions, rootDone, slots, turnVars, results>>

(* ... and calls it after the unlock. *)
StopCancel ==
  /\ loop = "stopping"
  /\ cancelled' = cancelled \union {victim}
  /\ victim' = None
  /\ loop' = "idle"
  /\ UNCHANGED <<pc, registry, commands, evictions, rootDone, slots, turnVars, results>>

(* /clear: ClearHistory holds sm.mu from stopTurn to the delete.  The rows *)
(* it deletes are SessionHistory's.                                        *)
ClearStop ==
  /\ loop = "idle" /\ ~IsCron
  /\ commands < MaxCommands
  /\ commands' = commands + 1
  /\ \/ /\ registered # None
        /\ cancelled' = cancelled \union ({active[registered]} \ {None})
        /\ loop' = "clearing"
     \/ /\ registered = None
        /\ UNCHANGED <<cancelled, loop>>
  /\ UNCHANGED <<pc, victim, registry, evictions, rootDone, slots, turnVars, results>>

ClearDrop ==
  /\ loop = "clearing"
  /\ open' = [open EXCEPT ![registered] = FALSE]
  /\ registered' = None
  /\ loop' = "idle"
  /\ UNCHANGED <<pc, cancelled, created, victim, commands, evictions, rootDone,
                 slots, turnVars, results>>

(* A failing statement leaves the session registered. *)
ClearFails ==
  /\ loop = "clearing"
  /\ loop' = "idle"
  /\ UNCHANGED <<pc, cancelled, registry, victim, commands, evictions, rootDone,
                 slots, turnVars, results>>

Evict_KeepsSession ==
  /\ registered # None
  /\ loop # "clearing"
  /\ evictions < MaxEvictions
  /\ evictions' = evictions + 1
  /\ open' = [open EXCEPT ![registered] = FALSE]
  /\ UNCHANGED <<pc, cancelled, registered, created, loop, victim, commands,
                 rootDone, slots, turnVars, results>>

(* evictStaleSessions closes the memory but stops no turn. *)
Evict ==
  /\ registered # None
  /\ loop # "clearing"
  /\ evictions < MaxEvictions
  /\ evictions' = evictions + 1
  /\ open' = [open EXCEPT ![registered] = FALSE]
  /\ registered' = None
  /\ UNCHANGED <<pc, cancelled, created, loop, victim, commands, rootDone,
                 slots, turnVars, results>>

(* The gateway's cancel() at shutdown ends every turn's context ... *)
ShutDown ==
  /\ ~rootDone
  /\ rootDone' = TRUE
  /\ UNCHANGED <<pc, cancelled, registry, loop, victim, commands, evictions,
                 slots, turnVars, results>>

(* ... the loop notices when its select picks the done context, and may    *)
(* handle more messages before it does ...                                 *)
LoopExits ==
  /\ rootDone
  /\ loop = "idle"
  /\ loop' = "gone"
  /\ UNCHANGED <<pc, cancelled, registry, victim, commands, evictions, rootDone,
                 slots, turnVars, results>>

(* ... and the deferred SessionManager.Stop drops the session. *)
StopManager ==
  /\ rootDone
  /\ registered # None
  /\ loop # "clearing"
  /\ cancelled' = cancelled \union ({active[registered]} \ {None})
  /\ open' = [open EXCEPT ![registered] = FALSE]
  /\ registered' = None
  /\ UNCHANGED <<pc, created, gatewayVars, slots, turnVars, results>>

(* Every message has been handled and nothing else is under way. *)
Idle ==
  /\ \A t \in Turns : pc[t] \in {"new", "done"}
  /\ loop \in {"idle", "gone"}
  /\ UNCHANGED vars

TurnStep(t) ==
  \/ Lookup(t)
  \/ Create(t)
  \/ CreateFails(t)
  \/ StartTurn(t)
  \/ CancelPrev(t)
  \/ CheckCanceled(t)
  \/ PublishPoll(t)
  \/ PublishSend(t)
  \/ FinishTurn(t)

GatewayStep ==
  \/ StopCancel
  \/ ClearDrop
  \/ ClearFails

Next ==
  \/ \E t \in Turns : Arrive(t) \/ TurnStep(t)
  \/ \E t \in Turns, oc \in Outcomes : RunEnds(t, oc)
  \/ StopRead
  \/ ClearStop
  \/ GatewayStep
  \/ Evict
  \/ ShutDown
  \/ LoopExits
  \/ StopManager
  \/ Idle

Spec == Init /\ [][Next]_vars

(* The Go scheduler runs every goroutine that can move.  A run may go on   *)
(* for ever, as long as its context is not done: the model client and the  *)
(* tools get the context and return when it is.  Messages, commands,       *)
(* eviction and shutdown are the environment's.                            *)
Fairness ==
  /\ \A t \in Turns :
       /\ WF_vars(TurnStep(t))
       /\ WF_vars(Cancelled(t) /\ \E oc \in Outcomes : RunEnds(t, oc))
  /\ WF_vars(GatewayStep)

FairSpec == Spec /\ Fairness
--------------------------------------------------------------------------------
TypeOK ==
  /\ pc \in [Turns -> {"new", "lookup", "create", "start", "done"} \union Started]
  /\ obj \in [Turns -> Objects \union {None}]
  /\ turnSeq \in [Turns -> Nat]
  /\ prev \in [Turns -> Turns \union {None}]
  /\ cancelled \subseteq Turns
  /\ outcome \in [Turns -> Outcomes \union {"none"}]
  /\ answer \in [Turns -> {"none", "ok", "error", "canceled"}]
  /\ replies \in Seq(Turns)
  /\ rootDone \in BOOLEAN
  /\ registered \in Objects \union {None}
  /\ created \in 0..MaxSessions
  /\ seq \in [Objects -> Nat]
  /\ active \in [Objects -> Turns \union {None}]
  /\ open \in [Objects -> BOOLEAN]
  /\ loop \in {"idle", "stopping", "clearing", "gone"}
  /\ victim \in Turns \union {None}
  /\ commands \in 0..MaxCommands
  /\ evictions \in 0..MaxEvictions

(* finishTurn of an old turn leaves the new one alone: as long as the      *)
(* newest turn of a Session has not finished, the Session holds its cancel *)
(* function, so /stop, /clear and the next message can reach it.           *)
NewestTurnIsStoppable ==
  \A t \in Turns :
    (pc[t] \in Started /\ turnSeq[t] = seq[obj[t]]) => active[obj[t]] = t

(* A turn that another one has superseded has its context cancelled, or    *)
(* the turn that took its place is about to do it: no run is left behind   *)
(* with nobody to end it, however the goroutines of startTurn, finishTurn  *)
(* and /stop interleave.                                                   *)
SupersededIsCancelled ==
  \A t \in Turns :
    (pc[t] \in Started /\ turnSeq[t] < seq[obj[t]]) =>
      \/ Cancelled(t)
      \/ \E u \in Turns : pc[u] = "cancelPrev" /\ prev[u] = t

(* A Session that a new message can find has its memory open: eviction,    *)
(* /clear and Stop close the database and forget the Session together.     *)
RegisteredIsOpen ==
  registered # None => open[registered]

(* A turn stopped by /stop, /clear, a newer message or shutdown before its *)
(* publish has begun to wait for room stays silent for good: neither its   *)
(* answer nor its error nor its handoff's answer reaches the chat.         *)
Unpublished == {"cancelPrev", "run", "check", "poll"}

StoppedTurnStaysSilent ==
  \A t \in Turns :
    [](Cancelled(t) /\ pc[t] \in Unpublished => []~Replied(t))

(* RunCronAgentTurn reports success only for a run whose answer was put on *)
(* the bus, or that had nothing to say.                                    *)
CronSuccessMeansDelivered ==
  \A t \in Turns :
    (IsCron /\ pc[t] = "done" /\ answer[t] = "ok") =>
      Replied(t) \/ outcome[t] = "empty"

(* A turn that a newer message has superseded comes to its end, although   *)
(* its run would go on for ever by itself.                                 *)
SupersededTurnEnds ==
  \A t \in Turns :
    (pc[t] \in Started /\ turnSeq[t] < seq[obj[t]]) ~> pc[t] = "done"

(* session_debug_test.go:415, SecondInboundCancelsFirstAndPublishesOnly-   *)
(* Second: with nothing but messages going on, the turn that is superseded *)
(* is that of the earlier message.                                         *)
LaterMessageWins ==
  \A t, u \in Turns :
    (t < u /\ {pc[t], pc[u]} \subseteq Started /\ obj[t] = obj[u]) =>
      turnSeq[t] < turnSeq[u]
================================================================================
