# Verification of sushiclaw

sushiclaw is a Go program that connects chat channels (Telegram, WhatsApp, e-mail, WebSocket) to
language-model agents. One process, the gateway, runs everything: the channels put messages on a bus,
a loop takes them off and gives each to a goroutine that runs the agent of the chat, answers travel
back over the bus, and a scheduler starts agents on a timetable. This directory holds TLA+ models of
its concurrent core and of its channels, TLC configurations that check them, and proofs checked by
TLAPS.

`PROJECT.json` maps each definition to the lines it models and lists runs, mutants, findings,
hazards and theorems.

    tlc -workers 4 -config MCMessageBus.cfg MCMessageBus.tla
    tlapm MessageBusProofs.tla

1. [The system](#the-system)
2. [Modules](#modules)
3. [Runs](#runs)
4. [Fairness](#fairness)
5. [Proofs](#proofs)
6. [Findings](#findings)
7. [What is not modelled](#what-is-not-modelled)
8. [Plan](#plan)

## The system

```
 channels --PublishInbound--> bus --InboundChan--> gateway loop --go Dispatch--> session turn
    ^                          |                     | filter, lock, commands        |
    |                          v                     | (/stop, /clear, /lock, ...)   | agent run
    +------- channel manager <-OutboundChan <--------+-------------------------------+
                                                     cron scheduler --RunCronAgentTurn--^
```

| component | state | operations | hard behaviour | what makes it correct |
|---|---|---|---|---|
| **Message bus** `pkg/bus/bus.go` | five buffered Go channels, a done channel, an atomic closed flag, a WaitGroup | Publish*, Close, the channel getters | publishers block on full buffers while Close waits for them; a publisher between its check and `wg.Add` | bounded FIFOs; a truthful answer to each publish; Close ends; a cancelled call ends; no send on a closed channel |
| **Session turns** `internal/agent/session.go` | the session map; per Session a sequence number, a cancel function, the memory | Dispatch, RunCronAgentTurn, StopTurn, ClearHistory, eviction, Stop | one goroutine per message: the newer turn cancels the older one; commands and eviction run in between | the newest turn can be stopped; superseded ones are cancelled and silent; registered sessions are open; a cron success was delivered |
| **Session history** `internal/agent/sqlite_memory.go` | messages, heads, lineage in SQLite | add, load, handoff to a summary session, clear, skills | several statements per operation; a handoff that fails half way and is run again in the old session | a head that exists; nothing lost between two heads; what is cleared stays cleared |
| **Cron scheduler** `pkg/cron` | the job file, a timer, running markers, stop flag | Add/Remove/Enable/Disable/RunJob, Start, Stop, tick, finish | runs outside the lock; a crash between claim and finish; a timer that fires once; a file that fails | no job twice at once; due jobs get claimed; a one-shot job is not lost; no marker without a run |
| **Conversation lock** `internal/conversationlock` | per conversation: lock, code, attempts, lockout; the lockout file | Lock, RequestUnlock, VerifyUnlock, IsLocked, RecordActivity | time passes between the calls; restarts; a file that may not be written | a conversation opens only by its current code, once, in time, outside lockouts; lockouts outlive restarts |
| **Gateway** `internal/gateway/gateway.go` | the loop, the context | Run | the lock is asked once, the message acted on later; time passes between the calls | nothing of a locked conversation is acted on |
| **Debug manager** `internal/gateway/debug.go` | chats in debug mode | Set, Toggle, Progress | a turn reads the switch and publishes later | (no property of its own) |
| **Command filter, commands** `internal/commandfilter`, `pkg/commands` | none | Filter, Execute | two readings of one text that must agree | what is handled, refused and passed on |
| **Channel manager** `pkg/channels/manager.go`, `base.go` | channels; typing stops, placeholders by chat | Record*, outbound dispatch, StartAll, StopAll | a second message overwrites what the first recorded; StopAll gives up waiting | what is shown can be taken back; what is on the bus is handled; no send after a stop that waited |
| **Tool feedback animator** `pkg/channels/tool_feedback_animator.go` | one animated message per chat and its goroutine | Record, Update, Take, Clear, StopAll | Update records again what another call may have cleared meanwhile | a running animation is in the table or told to stop |
| **WebSocket channel and client** `pkg/channels/websocket`, `internal/chat` | connections by id and by session; the client's one connection | connect, read, Stop; dial, reconnect, Stop | connections registered during Stop; a dial that completes during Stop | the two indexes agree; the limit holds; a stop ends every connection at both ends |
| **WhatsApp channel** | client, reconnecting and stopping flags, WaitGroup | events, reconnect, Send with retries, Stop | a disconnect while the reconnect is ending; handlers that outlive Stop | a loss is noticed; a Stop that waited leaves none of the goroutines it tracks |
| **Telegram channel** | typing goroutines, command registration | Send in chunks, SendMedia, typing, edit, registration with retries | requests carried out but reported as failed; a chunk that is too long after formatting | an answer is shown once, whole, in order |
| **E-mail channel** | poll loop, thread tree, last mail by thread | poll, Send, SendMedia, threading | a poll cut off; an answer on its way while polls move threads; a restart | a mail seen is dealt with; an answer and the reply to it share a session |
| **Media store** `pkg/media/media.go` | references, scopes, reference counts by path | Store, Resolve, ReleaseAll, CleanExpired | files removed after the unlock | a resolvable reference has its file |
| **Steering queue** `pkg/steering` | bounded queue per scope | push, pop | its limit; not used by the program yet | |
| **Configuration, logging, tools, identity, model client** | files, processes, HTTP | | external | |

Components talk to each other through the bus (asynchronous, may block), through direct calls of the
gateway loop (lock, commands, StopTurn, ClearHistory), through contexts (cancel reaches turns, publish
calls and the scheduler) and through the scheduler's call of RunCronAgentTurn, which holds one of the
scheduler's goroutines until the turn ends.

## Modules

| module | models | lines |
|---|---|---|
| `BusContract` | the promise of the bus: bounded FIFO per channel, accepted once, delivered once in order, discarded only after it closed | abstract |
| `MessageBus` | `publish`, `Close`, readers | bus.go 62-178 |
| `SessionTurns` | a key's Session, its turns, /stop, /clear, eviction, shutdown | session.go 219-360, 507-860 |
| `CronScheduler` | the scheduler, its file, timer and runs, crash and restart | scheduler.go |
| `Conversation` | a conversation as its user sees it: told input by input, emptied only by /clear | abstract |
| `SessionHistory` | messages, head and lineage of one conversation; handoff to a summary, /clear, eviction, restart | sqlite_memory.go 117-250, session.go 252-361, 690-770, 1129-1200 |
| `ConversationLock` | the lock manager as the gateway loop calls it | manager.go |
| `Gateway` (extends `ConversationLock`) | the inbound loop, command filter, commands, debug switch | gateway.go 229-304, commandfilter.go, commands.go, debug.go |
| `Delivery` | what a message shows while its answer is awaited, the dispatch goroutine, StopAll | manager.go, base.go |
| `ToolFeedback` | the animated progress message and the WebSocket `Send` that drives it | tool_feedback_animator.go, websocket.go |
| `WebSocket` | the server's connections | websocket.go |
| `WebSocketClient` | the client's connection | client.go |
| `WhatsApp` | Start, events, reconnect, Send, Stop | whatsapp_native.go |
| `Email` | poll, threads, sessions, answers, restart | email.go, threading.go |
| `MediaStore` | references, counts, removal | media.go |
| `Telegram` | answers, incoming messages, typing, registration, Start and Stop | telegram.go, command_registration.go |
| `Channels` | instances of the nine above and of `SessionTurns` for cron runs | |
| `AgentRuns` | what makes an agent run: `SessionTurns` and an instance of `CronScheduler` | |
| `*Proofs` | theorems for every value of the constants | |
| `MC*` | constants for TLC | |

**MessageBus.** A step is what runs between two points where another goroutine can come in: loading
the closed flag, the non-blocking poll of the context and `done`, `wg.Add`, the select, `wg.Done`; in
Close closing `done`, setting the flag, `wg.Wait` (with its wake-up as a step of its own), each
`close`, each receive of the drain loops. `queue[c]` is a Go channel's buffer, `shut` the channels
closed so far, `group` the publishers counted by the WaitGroup, `closer` and `pc[p]` the program
counters. A message is the pair of publisher and call number. A panic ends the process (`Crashed`).
`accepted` and `early` are history. `ContractHolds` is the refinement of `BusContract`.

**SessionTurns.** Turn `t` is the goroutine of the key's t-th message. `Lookup`, `Create` and
`CreateFails` are `getOrCreateSession`; Session objects are numbered (`created`), because one that was
evicted or cleared can still be held. `seq[o]` is `activeTurnSeq`, `active[o]` says whose cancel
function is `activeTurnCancel`. `startTurn` is two steps, since it calls the previous cancel after the
unlock. The run itself is external and ends in any outcome; then come `turnCanceled`, the two steps of
publishing and `finishTurn`. /stop and /clear are two steps each for the same reason. With `IsCron`
the turns are those of RunCronAgentTurn, whose answer to the scheduler is `answer`.

**CronScheduler.** `jobs` is the file; each operation under `s.mu` is one step that loads, recomputes
the schedule where the code does (`Recomputed`), changes the record, saves, and arms the timer. With
`StoreFails` each of these may fail, and the step does what the code's early return leaves. `proc`
tells how far Start is; `Exit` is a crash or the end of the process at any point: the file stays, the
rest is lost. `tick[k]` are goroutines inside `tick`, `runs[s]` goroutines with a claimed job. `gen`
numbers the jobs added under a name, so that a job removed and added again is a different one.
`MayForget` lets users disable or remove a job that is running.

**SessionHistory.** `rows`, `head` and `lineage` are the three SQLite tables, for one conversation;
every statement is a step and may fail. `mems` are the `SQLiteSessionMemory` objects (key, cached
messages, whether the handle is open), `sess[o]` the memory of Session object `o`. A row is
represented by the inputs it tells of, a summary by all it sums up, so a property can ask whether the
conversation still tells of an input. `ConversationHolds` is the refinement of `Conversation`, in which
keys, summaries and caches do not exist; a conversation that is not settled (a Session that has diverged
or that /clear was dropping) may become anything until it is made anew. The handoff is one step per statement, with the exchange of the
memory and the closing of the old one apart; when it fails before the run the input is run all the
same. `ClearHistory` holds `sm.mu` but not the Session's lock, so turns go on between its statements.
What `startTurn` and `stopTurn` cancel is taken from SessionTurns in one step. `answered`, `wiped`,
`cleared`, `ghost` and `diverged` are history; the last two mark the exceptions the properties name.

**ConversationLock.** `states[s]` is the manager's record of a conversation; codes are numbered in the
order they are made and a user may type any of them, or one that never was. The gateway loop's calls
for one message (IsLocked, the command, RecordActivity) are separate steps and the clock may move
between them, as it does while a mail is sent. `file` is the lockout file, written as a whole by
`SaveLockouts`; a failure to write is ignored, as in the code. `Restart` keeps only the file.
`promised`, `used` and `boot` are history: the latest lockout ever written, the codes that opened a
conversation, the codes made before the restart. The feature is enabled; when it is not, every
operation returns at once.

**Gateway.** The loop takes one message at a time. Its steps extend those of ConversationLock: a step
of the lock is a call of the loop, and `task` carries the message from the filter through `IsLocked`,
the lock's commands, `Execute` and the hand-over to the agent. A text is the name of a command and a
class of arguments; names that are handled alike are one value. The filter, the lock and `Execute` each
read the text by themselves, as in the code, so the model can tell whether they agree. A turn's
`Progress` reads the debug switch and publishes later. `GSpec => Spec` of the lock is a theorem.

**Delivery.** For one chat: the goroutine of each message (`handler`), the typing indicators and
placeholders the user sees (`typing`, `waiting`), the one stop function and the one placeholder the
Manager's maps hold, the dispatch goroutine, which clears them and hands the message to the channel,
and StopAll, which cancels, waits or gives up, and stops the channel. `lost` is history.

**ToolFeedback.** `entry` is the animator's table for one chat, `run[e]` the goroutine of the e-th
entry. Take, the wait, the edit and Record are separate steps; a StopAll may come between any two. The
driver is the WebSocket channel's Send.

**WebSocket, WebSocketClient.** The goroutine of each connection from the upgrade to its removal
from the indexes, with Stop in three steps (take the connections, close each, cancel the context) that
any of these may fall between; on the other end the dial, the reconnect loop with its waits, the read
loops and Stop. The limit is looked at before the upgrade and again under the lock.

**WhatsApp.** Start with its early returns, events delivered by goroutines of their own, the backoff
loop with its checks apart from the attempt, message handlers, which nothing tracks, Send with its
retries, and Stop in four steps. A handler that needs the client (a media download, the mention in a
group) and finds it cleared panics; that of a direct text needs none. Publishing is a step of its own
(`Publish`): `publish` looks at the context first and then waits for room or for the context, so a
handler that has looked before Stop may still put its message on the bus during or after it. `ignored` and `slipped` are history: the two windows the properties
name.

**Email.** A mail is a number and the number it answers. `mailbox` is what the server remembers,
`asked`, `arrived` and `fate` the course of a FETCH; the tree (`nodes`, `up`) is the ThreadManager's,
ghosts for unseen parents included. Send is two steps, delivery and registration, and a restart may
come between them. `key` is history: the session of each mail.

**MediaStore.** Each critical section is a step; looking at the file comes before it in Store and
removal after it. The model allows what the interface does (one path under several references and
policies), which is more than the program uses.

**Telegram.** Of a text only its units and their order matter. A request has two outcomes, what was
done and what is said of it (`Outcomes`). The chunk queue, the retry as plain text, the recut of a chunk
that is too long and the parts of a media message are as in the code.

**Channels.** These parts share nothing but calls whose arguments the called module takes from the
set of all there can be: the bus gives Delivery any outbound message, the loop gives the lock any text.
So `Channels` is their sum: a behaviour is one of one part, chosen at the start. It asks one
question of all of them, whether each keeps its promise to the others; its theorems come from the
parts' invariants, since a step of one part leaves the others alone. What two parts do to each other while
both move is modelled inside the parts that have it: StopAll beside a Send (`ToolFeedback`,
`Delivery`), the loop beside the clock and the lockout file (`Gateway`), eviction and stop beside a turn
(`SessionTurns`).

**AgentRuns.** What makes the agent run: messages, through the turns, and jobs that are due, through
the scheduler. To the scheduler a job's run is any outcome after any time, and to a turn it does not
matter where its input comes from, so this too is a sum of parts, with the fairness of each: one run asks
both whether what is due comes about and what is over ends. (`Channels` has the turn of a cron run, and its answer to the scheduler.)

## Runs

Every run but `MCChannels` and `MCEmailCircle`, which is its mail part alone, checks deadlock; where
the system may rest a stuttering step says exactly when (`Stopped` in MessageBus: Close is over and nobody is inside a call, or the process has died;
`Idle` in SessionTurns: every message has been handled). The parts of `Channels` come to rest when
they have been stopped or have met their bounds, so deadlock says nothing there; that they do not rest
too early is what `OutboundIsHandled`, `ConnectionsEnd` and `LossIsNoticed` say. Each property has a
mutant: a plausible slip in one definition with which TLC finds the property violated.

| run | states | bounds | shows |
|---|---|---|---|
| `MCMessageBus` | 126 k | 2 publishers, 1 call each, 2 channels of size 1 and 2 | types and capacities; `EarlyPublisherNeverPanics`; `AnswerIsTrue`; `ContractHolds`; `CloseCompletes`; `CancelReleases` |
| `MCMessageBusPanic` | | the same | *violation* of `PublishNeverPanics` |
| `MCAgentRuns` | 367 k | turns: 2 turns, 2 Session objects, 1 command, 1 eviction; scheduler: one recurring job with a period of 2, 2 tick goroutines, 1 crash, time 0..2, working store | turns: `TypeOK`, `NewestTurnIsStoppable`, `SupersededIsCancelled`, `RegisteredIsOpen`, `StoppedTurnStaysSilent`, `SupersededTurnEnds`; scheduler: `NoGhostRunning`, `DueJobIsClaimed` |
| `MCSessionTurnsOrder` | | 2 turns | *violation* of `LaterMessageWins` |
| `MCCronScheduler` | 1.9 M | a one-shot and a recurring job, 2 AddJob calls, 2 runs at once, 1 tick goroutine, 1 crash, time 0..1, failing store | `NoOverlap`, `OneShotNotLost`, the catch-up limit (`TypeOK`) |
| `MCCronSchedulerMissed` | | 2 jobs, 1 crash | *violation* of `MissedStaysDue` |
| `MCCronSchedulerReplaced` | | `MayForget`, 2 AddJob calls | *violation* of `OneShotNotLost` |
| `MCSessionHistory` | 3.8 M | 2 turns, 2 handoffs, 2 clears, 1 restart, 1 eviction, failing store | `HeadIsKnown`, `AnsweredIsKept`, `SessionOnActiveKey`, `CacheMatchesStore`, `ClearedStaysCleared`; `ConversationHolds` |
| `MCSessionHistoryClear` | | 2 turns, 1 handoff, 1 clear, working store | *violation* of `ClearIsFinal` |
| `MCConversationLock` | 3.2 M | 2 conversations, 2 codes, 2 attempts, 1 restart, time 0..2 | `UnlockIsEarned`, `LockoutSurvives` |
| `MCChannels` | 321 k | per part, see `MCChannels.tla` | the types of every part and the limit of attempts (`TypesOK`); gateway: `LockedReachesNothing`; cron turns: `CronSuccessMeansDelivered`; delivery: `ArtefactsAreReachable`, `NoSendAfterStop`, `OutboundIsHandled`; animations: `AnimationsAreTracked`; WebSocket: `ConnectionsAreServed`, `ConnectionsEnd`; WhatsApp: `StopIsClean`, `LossIsNoticed`; mail: `MailIsNotLost`, `AnswersShareASession`; media: `RefsHaveFiles`; Telegram: `AnswerShownOnce` |
| `MCEmailCircle` | | 2 mails, 1 answer, 1 restart | *violation* of `CirclesAreGuarded` |

*Why the bounds are enough.* Bus: the races are between two publishers for one free place and between
a publisher and Close; a buffer of one is full after one message, one of two keeps an order. Turns: a
turn is superseded by one other, and a third only repeats this on the newer pair; two objects let a
Session be dropped under one turn and made again by the other. Cron: with delays of one, both jobs
come due at time 1 and the one-shot job is due again after each failure; one crash separates every
claim from its finish; the recurring job of `MCAgentRuns` has a period of two and timers of one, so the
timer fires before the job is due and has to be set again by a tick, with the other tick, operations or
a crash in between; a one-shot job that keeps failing would be due again at once and may keep another
from being claimed. History: one turn is answered
while or before the other hands off; two handoffs make a summary of a summary or cross each other, and
a second /clear meets what the first left. Lock: time 0, 1, 2 reaches the auto-lock (1), a code
running out (1) and a lockout both in force (1) and over (2); two codes are an old and a new one of
one conversation or one for each. Channels: two messages of a chat overwrite each other's artefacts and a third outbound message answers neither; three sends make,
update and replace an animation; three connections meet a limit of two, two of them in one session;
two losses put one into the end of the reconnect of the other; a mail, its answer and the reply to it
make a thread with a restart anywhere; two references share a file that a third may store again;
three units of text are cut twice. Where there is a proof (below) it removes the bounds altogether.

The run of `SessionHistory` checks no type invariant, only what relates its tables, caches and Sessions;
its types are a theorem (`HistoryTypeCorrect`).

The job file and the lockout file are replaced by a rename, so no state has half a file.

## Fairness

Weak fairness is given to the steps that the Go runtime takes by itself and to nothing else:

* bus: a publisher inside a call and a Close under way are scheduled whenever they can move; nobody
  must call, cancel, close or read. `CancelReleases` and `CloseCompletes` must hold with readers that
  have stopped for good.
* turns: a goroutine with a step to take takes it; a run whose context is done returns, since the
  model client and the tools receive the context. A run that nobody cancels may go on for ever.
* cron: the clock goes on, a due timer fires, ticks and Start go on. Runs need not end, users need
  not act, a process that is down need not come back.
* channels: the dispatch goroutine does what it has to do; each WebSocket connection's goroutine is
  scheduled, and so is Stop once it has begun, and a read with nothing left to keep the socket open
  fails (closed socket, or a deadline that no ping moves any more); on the client the reconnect loop
  goes on once Start has returned, Stop closes what it has found and read loops run. No peer must
  write, leave or answer, no channel must be stopped.

No property uses strong fairness: no Go select or mutex promises it.

## Proofs

All theorems hold for any values of the constants allowed by the modules' named assumptions
(`BusAssumption`, `TurnsAssumption`, `CronAssumption`, `HistoryAssumption`, `LockAssumption` and, for
the composition, `PartsAssumption` in `Channels`). These say that bounds are numbers and that there is
one of what the code always has (a slot to run jobs, an attempt, a character of an answer); TLC
evaluates each of them in the run of its module. Three theorems about cron have a hypothesis, which a
finding or the code explains (below). Every invariant that a passing run checks is proved, and every
action property and refinement. A theorem's proof has one step for every action.

**MessageBusProofs**: `TypeCorrect`, `EarlyPublisherSafe`, `AnswersAreTrue`, `BusImplementsContract`.
The invariant says that the WaitGroup counts exactly the publishers between Add and Done
(`GroupIsExact`), that Close goes through its phases in order (`CloseIsOrdered`), that a publisher
counted early is out of its select before the first channel is closed (`EarlyIsOut`) and that a
message is in its buffer only after its call got through (`InFlight`, `AcceptedIsPast`, `OkIsIn`).
Without the exact count nothing ties the end of the wait to publishers, and `EarlyPublisherNeverPanics`
alone is not preserved by `CloseWait`. The refinement proof maps each step to a step of the contract or
to a stutter.

**SessionTurnsProofs**: `TypeCorrect`, `NewestIsStoppable`, `NoTurnLeftBehind`, `NoClosedSessionFound`,
`StoppedStaysSilent`. The invariant is the discipline of `activeTurnSeq`: started turns hold numbers
their Session has handed out, no two hold the same, and the cancel function that is kept belongs to
the newest number. `finishTurn` compares numbers, and only their being distinct makes this comparison
one of turns.

**CronSchedulerProofs**: `TypeCorrect`; under `~MayForget`, `NeverTwiceAtOnce` and `OneShotStays`; under
`~StoreFails`, `NoJobIsStuck`. The invariant of the first three relates the file and the goroutines
(`RunsMatch`: who runs a job has its marker set and is of its generation; `QuietWhenEarly`: until the
restart has marked interrupted runs no goroutine claims) and records what was achieved (`FileOK`). The
assumption is needed: with `MayForget` TLC finds `OneShotNotLost` violated (see findings), because
disabling or removing a job forgets a run that goes on. `NoJobIsStuck` is the other direction, a marker
has a goroutine, and needs of the file only that a record which was removed has no marker
(`AbsentIsIdle`); a claim sets both in one step, a finish clears both, and users' operations set no
marker. It needs a store that works: a finish that cannot be saved leaves its marker until the next
start, as the code's early return does.

**SessionHistoryProofs**: `HistoryInvariance`, from which `HistoryTypeCorrect`, `TheHeadIsKnown`,
`WhatIsAnsweredIsKept`, `SessionsWorkOnTheActiveKey`, `TheCacheMatchesTheStore`,
`ClearedInputsStayCleared` and the refinement `HistoryImplementsConversation`. None of these is
inductive: what is stored under a key nobody reads may become the conversation two statements later.
The invariant therefore speaks of whatever may become it. *One writer*: as long as no turn begins on a
Session that /clear drops, at most one turn can get a statement through, it belongs to the registered
Session, and nobody clears meanwhile. *Faithful*: the rows of the active key, the cache of the Session's
memory and the memory about to be exchanged for it tell of all that is to be kept and of nothing that
was cleared. *In step*: unless the Session has diverged, its memory is on the active key and its cache
equals the rows. *The writer's progress*: how far a handoff has come, step by step - the transcript,
then the summary, tells of all that the conversation does; the lineage is written before the head.
*/clear is thorough*: the keys it has done with are empty, so when the head goes nothing is left under
the stable key. The cache equals the rows whether the memory is open or not, and the property says so.

The refinement maps `told` to the rows of the active key, `turn` to the turns whose statements get
through, `clearing` to the mutex being held, `settled` to `~ghost /\ ~diverged`. The input of a run is
`Tell`, startTurn `Begin`, `ClearRows` of the active key and `ClearHead` are `Forget`; a restart is `End`
or `EndClear`; SetHead, the only step that changes which rows are the conversation, is a stutter because
the new rows are the old ones.

**GatewayProofs** proves about the lock and the loop above it. `LockoutsSurvive`: the invariant `LInv`
relates the record in memory, the file and the latest lockout written, `CInv` the codes made, used and
current; without the file in it nothing ties a record after a restart to the lockout before.
`UnlocksAreEarned` is an action property from the same invariant. `GatewayImplementsLock` is the
refinement: a step of the gateway is a step of the lock or leaves it alone, so both hold in the
gateway as well. `LockedIsShutOut` uses `GateInv`: a message that is past the lock check was found
unlocked or is one of the lock's own commands. `AttemptsAreLimited` has the limit of wrong codes, which
is not inductive: what holds at every step is that a conversation that is not locked out has an attempt
left (`Sound`), since the last one locks out in the same step. `GatewayTypesHold` adds the loop's types.

**ManagerProofs** proves about a chat, on `Channels` itself: a step of the composition is a step of the
part or leaves it alone (`StepOfAPart`). `ArtefactsStayReachable` and `StopSilencesDispatch` from `DInv`
(who holds the handle of what is shown; the order of StopAll); `AnimationsStayTracked` from `FInv`
(entries are numbered as they are made and each made one is tracked or told to stop).
`AnswersAreShownOnce` of Telegram rests on one sentence, `BeginningAndRest`: there is a place in the text
up to which everything has been dealt with, and the queue is the rest of it, in order. Sending the first
chunk moves the place; cutting a chunk that is too long puts its pieces where it was; the fall-back to
plain text or to messages begins again only where nothing was shown (`NothingYet`).

**ConnectionProofs** has the other parts of `Channels`. `ConnectionsStayServed`: `ServerInv` (the indexes
agree and hold exactly the connections between registration and removal) and `ClientInv` (a connection
that is neither closed nor the current one has no read loop). `MailsAreNotLost`: `EInv`, every mail seen
has a fate or is in the running FETCH. `SessionsAreShared`: each mail of a session is linked below the
session's root (`KeysAreRoots`), links follow the headers, a mail is handled once, and the last mail of a
thread was handled in it. `OnlyHeadersMakeACircle`: if the poll is stuck in a climb, the headers of some
mail lead into a circle; that they may is a finding (`MCEmailCircle`). What a climb through the tree returns is an induction over data; `Email`
therefore defines `Ancestors` as the least set closed under the links, of which the proof needs
only that the root is in it and has no parent, and that links added elsewhere leave both
(`Rooted`). `StoredFilesStay`: the count of a path is the number of references that name it
(`CountsAreTrue`), a path is chosen for removal only when that is none, and one stored again between
the choice and the removal is remembered (`mRaced`). `StopLeavesNothing` and `LossesAreNoticed` of WhatsApp
speak of the goroutines Stop tracks, not of the message handlers, which may outlive it and still publish:
Stop goes on in one order and nothing joins the wait group after it has been found empty; each
reconnect goroutine has taken an event of its own, so that one is free for every event still to come
(`EventsAreTakenOnce`); a loss is seen by an event, a goroutine at work, or is one of those named
`ignored`, already while Start is showing the QR code.

**ChannelsProofs** carries what `GatewayProofs` and `SessionTurnsProofs` show to the composition, by
instances of these modules and the fact that they speak of the same steps (`GatewaySame`, ...):
`LockedStaysShut`, `CronSuccessStaysTrue` (an answer of success comes only after a publish that got
through, `OkIsDelivered`), and `TypesStayRight`, the types and limits of every part.

*Only model-checked* is what is true under fairness: `CloseCompletes`, `CancelReleases`,
`SupersededTurnEnds`, `DueJobIsClaimed`, `OutboundIsHandled`, `ConnectionsEnd`. The prover has no rules for
ENABLED and fairness. The six violations are TLC's counterexamples.

## Findings

* **A publish can panic** (`MCMessageBusPanic`). `publish` joins the WaitGroup after its checks; a
  Close in between does not wait for it, and the send meets a closed channel. bus.go:11 promises
  ErrBusClosed.
* **The earlier of two messages may win** (`MCSessionTurnsOrder`). Each message gets a goroutine; the
  goroutine of the first may start its turn last and cancel the second's.
* **Missed recurring runs are not caught up** (`MCCronSchedulerMissed`). NewScheduler recomputes
  schedules from the current time before runMissedJobs looks. docs/CRON.md:58 says otherwise.
* **A replaced one-shot job is disabled by the old run** (`MCCronSchedulerReplaced`). finishJob finds
  its job by name.
* **A cleared conversation can come back** (`MCSessionHistoryClear`). A message whose goroutine has
  found the Session before /clear and starts its turn after /clear has cancelled the turns is not
  cancelled. If it hands off, the summary is made from the messages cached in memory and becomes the
  active conversation: README.md:108 promises that /clear removes the history. The passing run shows
  that this is the only way.
* **Mails that name each other lock up the e-mail channel** (`MCEmailCircle`). The comment at
  threading.go:76 says "Guard against duplicate children and circular references", and
  TestThreadManager_CircularReferenceGuard (threading_test.go:67) tries a mail that names itself. The
  code excludes only that and a child linked twice: of two mails that name each other each becomes an
  ancestor of the other, and `ThreadID` climbs for ever with the tree's lock held (`stuck`), which
  stops the poll and every later registration of an answer.

Seen while modelling, with no document that promises otherwise: rows of a handoff that failed before
its lineage row are never deleted; a turn begun between the head's update and the exchange of the
memory works on the old one, and if it hands off too the older memory may come back last, so that the
Session answers from a conversation a restart would not open (`diverged` marks it).

Of the channels, noted without a run of their own:

* *Shared maps.* A second message of a chat overwrites the typing stop and the placeholder of the
  first; these then end by themselves or never (`lost`). When a publish fails they stay until the next
  delivery.
* *Tool feedback* messages are produced by nobody but the tests; reactions and streaming by no channel.
* *Lock.* A restart opens a conversation that was locked but not locked out: only lockouts are saved.
* *WhatsApp.* A disconnect event delivered after a reconnect succeeded and before it says so is
  ignored (`ignored`). A reconnect that passed its check before Stop disconnects leaves the connection
  open (`slipped`). Message handlers are not waited for. After Stop one of a media or a group message
  finds the client cleared, and whatsmeow recovers the panic; a direct text is still published if its
  handler had looked at the context before Stop ended it.
* *E-mail.* The FETCH without PEEK marks mails as seen when they are sent; a poll cut off by a lost
  connection, a crash or a stop loses those not yet handled, and skipped mails do not stay unseen.
  SendMedia and answers without a session look up the last mail by address, which is never a key, and
  so begin a thread. After a restart the reply to an older answer gets a session of its own; so does a
  thread whose root arrives late.
* *Telegram.* The comment at telegram.go:191 says that the Manager splits messages, which it does not;
  no property is about the length it would guarantee.
  `sendChunk` tries again as plain text after any error, which may show a chunk twice; `EditMessage` takes
  errors after the connection was made for success. Media of group messages that are then ignored
  stay stored until they are cleaned.
* *Splitting.* `SplitMessage` does not end when the opening line of a code fence is longer than a chunk.
* *Media.* The program uses Store and the cleaner only; nobody calls ReleaseAll.

## What is not modelled

In the modules above: contents and normalisation of messages; the agent run and the model client (any
outcome); more than one session key (sessions share only the map); activated skills; what a cron job
does; cron expressions (a period); time zones; mail delivery and parsing of commands in the lock;
formatting, markup, bodies, subjects, attachments and inline media in the channels; start-up of the
gateway and the order of its shutdown (every part is checked against a stop at any point). The
command line edits the job file while the gateway is not running (docs/CRON.md:137 asks for a restart
otherwise), so a second process is left out. The races on single words, `cleanupStop` and Telegram's
`chatIDs`, are listed as hazards with the reason why no property covers them.

Components without a module are listed in `PROJECT.json` with the reason: agent memory and progress
reports convert and format; `SplitMessage` works on single characters; the steering queue is used by
nobody; configuration, logging, tools, transcription, the model client and the terminal chat client
(internal/chat) wrap files, processes and services and keep no concurrent state of their own.

## Plan

The plan of modules is done but for the pure algorithms, and every safety property of the passing runs
is proved. What is left, in this order:

1. Theorems about `SessionTurns` and `MessageBus` beyond what the runs check: whether replies of one Session
   come in the order of its turn numbers; that what Close drains is what readers did not take.
2. The safety half of the liveness properties, as invariants that name who will move next: of Close
   (`CloseWait` is only blocked by publishers that can move), of a superseded turn, of a due job.
3. Message splitting and thread headers as pure operators, checked against reference definitions.
4. Two chats through one dispatch goroutine, to ask whether a slow channel holds up another.
