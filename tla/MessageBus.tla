------------------------------- MODULE MessageBus -------------------------------
(***************************************************************************)
(* pkg/bus/bus.go: the in-process bus every other part talks through.      *)
(*                                                                         *)
(* A publish call is the generic function publish (bus.go:62-85), split at *)
(* the points where another goroutine can run: the load of the closed      *)
(* flag, the non-blocking poll, wg.Add, the blocking select, wg.Done.      *)
(* Close (bus.go:155-178) is split the same way.  The readers (the gateway *)
(* loop, the channel manager's dispatcher, the REPL) may take a message    *)
(* whenever there is one and may stop reading for good at any time, when   *)
(* their context is cancelled.                                             *)
(*                                                                         *)
(* A message is the pair <<publisher, number of the call>>.  MaxCalls      *)
(* bounds the calls of one publisher.                                      *)
(***************************************************************************)
EXTENDS Naturals, Sequences

CONSTANTS
  Publishers,       (* goroutines that call a Publish method                  *)
  NumChannels,      (* the bus's Go channels, numbered in the order of Close  *)
  ContextChannels,  (* channels whose Publish method insists on a context     *)
  Cap,              (* Cap[c]: buffer size of channel c                       *)
  MaxCalls          (* bound: publish calls per publisher                     *)

Channels == 1..NumChannels

ASSUME BusAssumption ==
  /\ NumChannels \in Nat \ {0}
  /\ ContextChannels \subseteq Channels
  /\ Cap \in [Channels -> Nat \ {0}]
  /\ MaxCalls \in Nat

VARIABLES
  queue,      (* queue[c]: the buffer of Go channel c                         *)
  shut,       (* channels 1..shut have been closed with close()               *)
  drained,    (* channels 1..drained have been emptied by Close's range loops *)
  done,       (* mb.done is closed                                            *)
  closed,     (* the atomic flag mb.closed                                    *)
  group,      (* publishers counted in mb.wg                                  *)
  closer,     (* where the goroutine that runs Close is                       *)
  pc,         (* pc[p]: where publisher p is                                  *)
  calls,      (* calls[p]: calls p has made                                   *)
  target,     (* target[p]: the channel of p's call                           *)
  cancelled,  (* cancelled[p]: the context of p's call is done                *)
  result,     (* result[p]: what p's last call returned                       *)
  reading,    (* channels that still have a reader                            *)
  taken,      (* taken[c]: what the reader of c received, in order            *)
  accepted,   (* history: messages that have entered a buffer                 *)
  early       (* history: publishers whose call joined wg before Close got    *)
              (* past wg.Wait                                                 *)

vars == <<queue, shut, drained, done, closed, group, closer, pc, calls,
          target, cancelled, result, reading, taken, accepted, early>>

busVars == <<shut, drained, done, closed, closer>>
readVars == <<reading, taken>>
callVars == <<calls, target>>
history == <<accepted, early>>

Messages == Publishers \X (1..MaxCalls)
Message(p) == <<p, calls[p]>>
IsShut(c) == c <= shut
PastWait == {"shutting", "draining", "closed"}

(* A panic in any goroutine ends the process: nothing in src/ recovers. *)
Crashed == closer = "panic" \/ \E p \in Publishers : result[p] = "panic"

Init ==
  /\ queue = [c \in Channels |-> <<>>]
  /\ shut = 0
  /\ drained = 0
  /\ done = FALSE
  /\ closed = FALSE
  /\ group = {}
  /\ closer = "idle"
  /\ pc = [p \in Publishers |-> "idle"]
  /\ calls = [p \in Publishers |-> 0]
  /\ target = [p \in Publishers |-> 1]
  /\ cancelled = [p \in Publishers |-> FALSE]
  /\ result = [p \in Publishers |-> "none"]
  /\ reading = Channels
  /\ taken = [c \in Channels |-> <<>>]
  /\ accepted = {}
  /\ early = {}

--------------------------------------------------------------------------------
(* Publish calls *)

Goto(p, l) == pc' = [pc EXCEPT ![p] = l]

Return(p, r) ==
  /\ Goto(p, "idle")
  /\ result' = [result EXCEPT ![p] = r]

Call(p, c, hasContext) ==
  /\ pc[p] = "idle"
  /\ calls[p] < MaxCalls
  /\ calls' = [calls EXCEPT ![p] = @ + 1]
  /\ target' = [target EXCEPT ![p] = c]
  /\ cancelled' = [cancelled EXCEPT ![p] = FALSE]
  /\ \/ /\ ~hasContext /\ c \in ContextChannels
        /\ Return(p, "missingContext")
     \/ /\ hasContext \/ c \notin ContextChannels
        /\ Goto(p, "load")
        /\ result' = [result EXCEPT ![p] = "none"]
  /\ early' = early \ {p}
  /\ UNCHANGED <<queue, group, accepted, busVars, readVars>>

CancelContext(p) ==
  /\ pc[p] # "idle"
  /\ ~cancelled[p]
  /\ cancelled' = [cancelled EXCEPT ![p] = TRUE]
  /\ UNCHANGED <<queue, group, pc, result, busVars, readVars, callVars, history>>

LoadClosed(p) ==
  /\ pc[p] = "load"
  /\ \/ closed /\ Return(p, "busClosed")
     \/ ~closed /\ Goto(p, "poll") /\ UNCHANGED result
  /\ UNCHANGED <<queue, group, cancelled, busVars, readVars, callVars, history>>

Poll(p) ==
  /\ pc[p] = "poll"
  /\ \/ cancelled[p] /\ Return(p, "cancelled")
     \/ done /\ Return(p, "busClosed")
     \/ ~cancelled[p] /\ ~done /\ Goto(p, "add") /\ UNCHANGED result
  /\ UNCHANGED <<queue, group, cancelled, busVars, readVars, callVars, history>>

JoinGroup(p) ==
  /\ pc[p] = "add"
  /\ group' = group \union {p}
  /\ Goto(p, "select")
  /\ early' = IF closer \in PastWait THEN early ELSE early \union {p}
  /\ UNCHANGED <<queue, cancelled, result, accepted, busVars, readVars, callVars>>

(* The send case of the select is ready when the buffer has room, and also *)
(* when the channel has been closed: taking it then panics.                *)
SelectSend_NoCapacity(p) ==
  /\ pc[p] = "select"
  /\ queue' = [queue EXCEPT ![target[p]] = Append(@, Message(p))]
  /\ accepted' = accepted \union {Message(p)}
  /\ Return(p, "ok")
  /\ UNCHANGED <<group, cancelled, early, busVars, readVars, callVars>>

SelectSend_ContextWins(p) ==
  /\ pc[p] = "select"
  /\ Len(queue[target[p]]) < Cap[target[p]]
  /\ queue' = [queue EXCEPT ![target[p]] = Append(@, Message(p))]
  /\ accepted' = accepted \union {Message(p)}
  /\ result' = [result EXCEPT ![p] = IF cancelled[p] THEN "cancelled" ELSE "ok"]
  /\ Goto(p, "leave")
  /\ UNCHANGED <<group, cancelled, early, busVars, readVars, callVars>>

SelectSend(p) ==
  LET c == target[p] IN
  /\ pc[p] = "select"
  /\ \/ /\ ~IsShut(c)
        /\ Len(queue[c]) < Cap[c]
        /\ queue' = [queue EXCEPT ![c] = Append(@, Message(p))]
        /\ accepted' = accepted \union {Message(p)}
        /\ result' = [result EXCEPT ![p] = "ok"]
     \/ /\ IsShut(c)
        /\ result' = [result EXCEPT ![p] = "panic"]
        /\ UNCHANGED <<queue, accepted>>
  /\ Goto(p, "leave")
  /\ UNCHANGED <<group, cancelled, early, busVars, readVars, callVars>>

SelectCancelled_Missing(p) == FALSE

SelectCancelled(p) ==
  /\ pc[p] = "select"
  /\ cancelled[p]
  /\ result' = [result EXCEPT ![p] = "cancelled"]
  /\ Goto(p, "leave")
  /\ UNCHANGED <<queue, group, cancelled, busVars, readVars, callVars, history>>

SelectDone_Missing(p) == FALSE

SelectDone(p) ==
  /\ pc[p] = "select"
  /\ done
  /\ result' = [result EXCEPT ![p] = "busClosed"]
  /\ Goto(p, "leave")
  /\ UNCHANGED <<queue, group, cancelled, busVars, readVars, callVars, history>>

(* The deferred wg.Done; the last one out wakes a Close asleep in wg.Wait. *)
LeaveGroup(p) ==
  /\ pc[p] = "leave"
  /\ group' = group \ {p}
  /\ Goto(p, "idle")
  /\ closer' = IF closer = "asleep" /\ group' = {} THEN "woken" ELSE closer
  /\ UNCHANGED <<queue, shut, drained, done, closed, cancelled, result,
                 readVars, callVars, history>>
--------------------------------------------------------------------------------
(* Close.  Later calls of Close wait on closeOnce and do nothing. *)

CloseDone ==
  /\ closer = "idle"
  /\ done' = TRUE
  /\ closer' = "flag"
  /\ UNCHANGED <<queue, shut, drained, closed, group, pc, cancelled, result,
                 readVars, callVars, history>>

CloseFlag ==
  /\ closer = "flag"
  /\ closed' = TRUE
  /\ closer' = "wait"
  /\ UNCHANGED <<queue, shut, drained, done, group, pc, cancelled, result,
                 readVars, callVars, history>>

(* sync.WaitGroup.Wait: return at once on a zero counter, sleep otherwise. *)
CloseWait_Skipped ==
  /\ closer = "wait"
  /\ closer' = "shutting"
  /\ UNCHANGED <<queue, shut, drained, done, closed, group, pc, cancelled,
                 result, readVars, callVars, history>>

CloseWait ==
  /\ closer = "wait"
  /\ closer' = IF group = {} THEN "shutting" ELSE "asleep"
  /\ UNCHANGED <<queue, shut, drained, done, closed, group, pc, cancelled,
                 result, readVars, callVars, history>>

(* A waiter that wakes up to a counter that is no longer zero panics with  *)
(* "WaitGroup is reused before previous Wait has returned".                *)
CloseWake ==
  /\ closer = "woken"
  /\ closer' = IF group = {} THEN "shutting" ELSE "panic"
  /\ UNCHANGED <<queue, shut, drained, done, closed, group, pc, cancelled,
                 result, readVars, callVars, history>>

CloseNextChannel_OnlyFirst ==
  /\ closer = "shutting"
  /\ shut' = shut + 1
  /\ closer' = "draining"
  /\ UNCHANGED <<queue, drained, done, closed, group, pc, cancelled, result,
                 readVars, callVars, history>>

CloseNextChannel ==
  /\ closer = "shutting"
  /\ shut' = shut + 1
  /\ closer' = IF shut' = NumChannels THEN "draining" ELSE "shutting"
  /\ UNCHANGED <<queue, drained, done, closed, group, pc, cancelled, result,
                 readVars, callVars, history>>

DrainNext ==
  /\ closer = "draining"
  /\ LET c == drained + 1 IN
     \/ /\ queue[c] # <<>>
        /\ queue' = [queue EXCEPT ![c] = Tail(@)]
        /\ UNCHANGED <<drained, closer>>
     \/ /\ queue[c] = <<>>
        /\ drained' = c
        /\ closer' = IF c = NumChannels THEN "closed" ELSE "draining"
        /\ UNCHANGED queue
  /\ UNCHANGED <<shut, done, closed, group, pc, cancelled, result,
                 readVars, callVars, history>>
--------------------------------------------------------------------------------
(* Readers *)

Receive(c) ==
  /\ c \in reading
  /\ queue[c] # <<>>
  /\ queue' = [queue EXCEPT ![c] = Tail(@)]
  /\ taken' = [taken EXCEPT ![c] = Append(@, Head(queue[c]))]
  /\ UNCHANGED <<group, pc, cancelled, result, reading, busVars, callVars,
                 history>>

(* The reader's context is done, or it saw ok = false. *)
StopReading(c) ==
  /\ c \in reading
  /\ reading' = reading \ {c}
  /\ UNCHANGED <<queue, group, pc, cancelled, result, taken, busVars, callVars,
                 history>>

(* Nothing is left to run: the bus is closed and every call has returned,  *)
(* or the process has died.                                                *)
Stopped ==
  /\ Crashed \/ (closer = "closed" /\ \A p \in Publishers : pc[p] = "idle")
  /\ UNCHANGED vars

PublisherStep(p) ==
  \/ LoadClosed(p)
  \/ Poll(p)
  \/ JoinGroup(p)
  \/ SelectSend(p)
  \/ SelectCancelled(p)
  \/ SelectDone(p)
  \/ LeaveGroup(p)

CloserStep ==
  \/ CloseFlag
  \/ CloseWait
  \/ CloseWake
  \/ CloseNextChannel
  \/ DrainNext

Next ==
  \/ /\ ~Crashed
     /\ \/ \E p \in Publishers, c \in Channels, b \in BOOLEAN : Call(p, c, b)
        \/ \E p \in Publishers : CancelContext(p)
        \/ \E p \in Publishers : PublisherStep(p)
        \/ CloseDone
        \/ CloserStep
        \/ \E c \in Channels : Receive(c) \/ StopReading(c)
  \/ Stopped

Spec == Init /\ [][Next]_vars

(* Once a call is in, and once Close is in, the scheduler keeps running its *)
(* goroutine.  Nobody has to call, to close, to cancel or to read.          *)
Fairness ==
  /\ \A p \in Publishers : WF_vars(~Crashed /\ PublisherStep(p))
  /\ WF_vars(~Crashed /\ CloserStep)

FairSpec == Spec /\ Fairness
--------------------------------------------------------------------------------
(* The state is well typed; the buffers never exceed what make() gave them. *)
TypeOK ==
  /\ queue \in [Channels -> Seq(Messages)]
  /\ \A c \in Channels : Len(queue[c]) <= Cap[c]
  /\ shut \in 0..NumChannels
  /\ drained \in 0..NumChannels
  /\ done \in BOOLEAN
  /\ closed \in BOOLEAN
  /\ group \subseteq Publishers
  /\ closer \in {"idle", "flag", "wait", "asleep", "woken", "panic"} \union PastWait
  /\ pc \in [Publishers -> {"idle", "load", "poll", "add", "select", "leave"}]
  /\ calls \in [Publishers -> 0..MaxCalls]
  /\ target \in [Publishers -> Channels]
  /\ cancelled \in [Publishers -> BOOLEAN]
  /\ result \in [Publishers -> {"none", "ok", "cancelled", "busClosed",
                               "missingContext", "panic"}]
  /\ reading \subseteq Channels
  /\ taken \in [Channels -> Seq(Messages)]
  /\ accepted \subseteq Messages
  /\ early \subseteq Publishers

(* Close waits for the publishers it knows of: a publish call that reached *)
(* wg.Add before wg.Wait returned never sends on a closed channel, so only *)
(* a call that slips in between the checks and wg.Add can panic.           *)
EarlyPublisherNeverPanics ==
  \A p \in early : result[p] # "panic"

(* The answer of a publish call is true: nil means the message is in, an   *)
(* error means it is not, so a caller that retries on an error cannot      *)
(* publish its message twice.                                              *)
AnswerIsTrue ==
  \A p \in Publishers :
    /\ result[p] = "ok" => Message(p) \in accepted
    /\ result[p] \in {"cancelled", "busClosed", "missingContext", "panic"} =>
         Message(p) \notin accepted

(* What bus.go:11 says of the error: publishing to a closed bus returns    *)
(* ErrBusClosed.  It does not when the call slips past the checks first.   *)
PublishNeverPanics ==
  \A p \in Publishers : result[p] # "panic"

(* The bus keeps its promises: each channel is a bounded FIFO, each        *)
(* accepted message leaves once, in order, and is discarded only after its *)
(* channel was closed.                                                     *)
Contract ==
  INSTANCE BusContract WITH
    accepting <- [c \in Channels |-> ~IsShut(c)],
    pending <- queue,
    handed <- taken,
    seen <- accepted

ContractHolds == Contract!Spec

(* Shutdown is not held up: Close returns although readers have stopped    *)
(* and publishers are blocked on full buffers, unless the process dies.    *)
CloseCompletes ==
  closer # "idle" ~> (closer = "closed" \/ Crashed)

(* A caller that gives up gets its goroutine back: a publish call whose    *)
(* context is cancelled returns, whatever the state of the buffers.        *)
CancelReleases ==
  \A p \in Publishers :
    (pc[p] # "idle" /\ cancelled[p]) ~> (pc[p] = "idle" \/ Crashed)
================================================================================
