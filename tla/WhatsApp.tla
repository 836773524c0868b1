----------------------------------- MODULE WhatsApp -----------------------------------
(***************************************************************************)
(* pkg/channels/whatsapp_native/whatsapp_native.go: the life of the        *)
(* channel around a whatsmeow client: Start with its QR goroutine, the     *)
(* event handler, reconnecting with backoff, Send with retries, and Stop,  *)
(* which waits for the goroutines it tracks.                               *)
(*                                                                         *)
(* The client is external: its connection may drop at any time, it tells   *)
(* so by an event that a goroutine of its own delivers later, and it       *)
(* recovers from a handler that panics.  The steps under reconnectMu are   *)
(* atomic here as they are there.  The program starts the channel once.    *)
(*                                                                         *)
(* Bounds: MaxDrops lost connections, NumMessages incoming messages,       *)
(* MaxSends calls of Send; MaxRetries is waSendMaxRetries.                 *)
(***************************************************************************)
EXTENDS Naturals, FiniteSets

CONSTANTS MaxDrops, NumMessages, MaxSends, MaxRetries

VARIABLES
  start,         (* where Start is                                             *)
  stop,          (* where Stop is                                              *)
  stopping,      (* c.stopping                                                 *)
  runDone,       (* c.runCtx is done                                           *)
  client,        (* c.client and c.container are set, the container open       *)
  connected,     (* the client's connection                                    *)
  drops,         (* connections lost so far                                    *)
  events,        (* Disconnected events not yet delivered                      *)
  reconnecting,  (* c.reconnecting                                             *)
  tracked,       (* c.wg: the goroutines that have not called Done             *)
  worker,        (* worker[k]: where the k-th reconnect goroutine is           *)
  incoming,      (* incoming[m]: where the handler of message m is             *)
  sending,       (* where Send is: its attempt, or "rest"                      *)
  sends,         (* calls of Send so far                                       *)
  ignored,       (* history: an event was ignored for a reconnect at its end   *)
  slipped        (* history: a reconnect succeeded after Stop's Disconnect     *)

lifeVars == <<start, stop, stopping, runDone, client>>
linkVars == <<connected, drops, events>>
workVars == <<reconnecting, tracked, worker, ignored, slipped>>
trafficVars == <<incoming, sending, sends>>
avars == <<lifeVars, linkVars, workVars, trafficVars>>

Workers == 1..MaxDrops
QR == 0                 \* the goroutine that shows the codes
Incoming == 1..NumMessages
Rest == MaxRetries + 1

AInit ==
  /\ start = "no" /\ stop = "no"
  /\ stopping = FALSE /\ runDone = FALSE
  /\ client = FALSE /\ connected = FALSE
  /\ drops = 0 /\ events = 0
  /\ reconnecting = FALSE
  /\ tracked = {}
  /\ worker = [k \in Workers |-> "none"]
  /\ incoming = [m \in Incoming |-> "none"]
  /\ sending = Rest /\ sends = 0
  /\ ignored = FALSE /\ slipped = FALSE
--------------------------------------------------------------------------------
(* Start *)

(* The store is opened, the client made and the handler registered; an     *)
(* error before that leaves nothing behind.                                *)
Open ==
  /\ start = "no"
  /\ \/ start' = "failed" /\ UNCHANGED client
     \/ start' = "connect" /\ client' = TRUE
  /\ UNCHANGED <<stop, stopping, runDone, linkVars, workVars, trafficVars>>

(* cleanupOnError, when connecting fails. *)
ConnectFails ==
  /\ start = "connect"
  /\ start' = "failed"
  /\ runDone' = TRUE
  /\ client' = FALSE
  /\ UNCHANGED <<stop, stopping, linkVars, workVars, trafficVars>>

(* An unpaired device gets a goroutine for the QR codes. *)
ConnectSucceeds ==
  /\ start = "connect"
  /\ start' \in {"qr", "running"}
  /\ connected' = TRUE
  /\ UNCHANGED <<stop, stopping, runDone, client, drops, events, workVars, trafficVars>>

TrackQR ==
  /\ start = "qr"
  /\ ~stopping
  /\ tracked' = tracked \union {QR}
  /\ start' = "running"
  /\ UNCHANGED <<stop, stopping, runDone, client, linkVars, reconnecting, worker,
                 ignored, slipped, trafficVars>>

(* It ends with the pairing or with the context. *)
QRDone ==
  /\ QR \in tracked
  /\ tracked' = tracked \ {QR}
  /\ UNCHANGED <<lifeVars, linkVars, reconnecting, worker, ignored, slipped, trafficVars>>
--------------------------------------------------------------------------------
(* The connection drops, and the event handler hears of it. *)
Drop ==
  /\ connected /\ drops < MaxDrops
  /\ connected' = FALSE
  /\ drops' = drops + 1
  /\ events' = events + 1
  /\ UNCHANGED <<lifeVars, workVars, trafficVars>>

MayTrack_Unchecked == TRUE

MayTrack == ~stopping

FreeWorker == CHOOSE k \in Workers : worker[k] = "none"

Disconnected ==
  /\ events > 0
  /\ events' = events - 1
  /\ \/ /\ reconnecting
        /\ ignored' = (ignored \/ \A k \in Workers : worker[k] \notin {"check", "connect", "backoff"})
        /\ UNCHANGED <<reconnecting, tracked, worker>>
     \/ /\ ~reconnecting /\ MayTrack
        /\ reconnecting' = TRUE
        /\ tracked' = tracked \union {FreeWorker}
        /\ worker' = [worker EXCEPT ![FreeWorker] = "check"]
        /\ UNCHANGED ignored
     \/ /\ ~reconnecting /\ ~MayTrack
        /\ UNCHANGED <<reconnecting, tracked, worker, ignored>>
  /\ UNCHANGED <<lifeVars, connected, drops, slipped, trafficVars>>

(* reconnectWithBackoff, one round: the context, the client, the           *)
(* connection, an attempt, a wait.  Connect fails when already connected.  *)
Check(k) ==
  /\ worker[k] = "check"
  /\ worker' = [worker EXCEPT ![k] =
                  IF runDone \/ ~client \/ connected THEN "reset" ELSE "connect"]
  /\ UNCHANGED <<lifeVars, linkVars, reconnecting, tracked, ignored, slipped, trafficVars>>

AfterFailure_GivesUp == "reset"

AfterFailure == "backoff"

Connect(k) ==
  /\ worker[k] = "connect"
  /\ \/ /\ ~connected
        /\ connected' = TRUE
        /\ slipped' = (slipped \/ stop \notin {"no", "flagged"})
        /\ worker' = [worker EXCEPT ![k] = "reset"]
     \/ /\ worker' = [worker EXCEPT ![k] = AfterFailure]
        /\ UNCHANGED <<connected, slipped>>
  /\ UNCHANGED <<lifeVars, drops, events, reconnecting, tracked, ignored, trafficVars>>

Backoff(k) ==
  /\ worker[k] = "backoff"
  /\ worker' = [worker EXCEPT ![k] = IF runDone THEN "reset" ELSE "check"]
  /\ UNCHANGED <<lifeVars, linkVars, reconnecting, tracked, ignored, slipped, trafficVars>>

Reset(k) ==
  /\ worker[k] = "reset"
  /\ reconnecting' = FALSE
  /\ worker' = [worker EXCEPT ![k] = "done"]
  /\ UNCHANGED <<lifeVars, linkVars, tracked, ignored, slipped, trafficVars>>

Done(k) ==
  /\ worker[k] = "done" /\ k \in tracked
  /\ tracked' = tracked \ {k}
  /\ UNCHANGED <<lifeVars, linkVars, reconnecting, worker, ignored, slipped, trafficVars>>
--------------------------------------------------------------------------------
(* handleIncoming skips its own and old messages.  It is not tracked. *)
Receive(m) ==
  /\ incoming[m] = "none" /\ connected
  /\ \E at \in {"skipped", "handling"} : incoming' = [incoming EXCEPT ![m] = at]
  /\ UNCHANGED <<lifeVars, linkVars, workVars, sending, sends>>

(* Media are downloaded and a group's mention is looked for through        *)
(* c.client: a handler that needs it and finds it gone panics.  A direct   *)
(* text needs none.  The message may not be wanted, and publishing looks   *)
(* at the context first.                                                   *)
HandleIncoming(m) ==
  /\ incoming[m] = "handling"
  /\ \/ ~client /\ incoming' = [incoming EXCEPT ![m] = "panicked"]
     \/ incoming' = [incoming EXCEPT ![m] = "skipped"]
     \/ ~runDone /\ incoming' = [incoming EXCEPT ![m] = "publishing"]
  /\ UNCHANGED <<lifeVars, linkVars, workVars, sending, sends>>

(* A handler that has looked waits for room or for the context, also while *)
(* and after the channel is stopped.                                       *)
Publish(m) ==
  /\ incoming[m] = "publishing"
  /\ \/ incoming' = [incoming EXCEPT ![m] = "published"]
     \/ runDone /\ incoming' = [incoming EXCEPT ![m] = "skipped"]
  /\ UNCHANGED <<lifeVars, linkVars, workVars, sending, sends>>

(* Send needs a running channel, a connected and paired client, an address.*)
Send ==
  /\ sending = Rest
  /\ sends < MaxSends /\ sends' = sends + 1
  /\ sending' \in IF start = "running" /\ stop # "stopped" /\ client /\ connected
                  THEN {0, Rest} ELSE {Rest}
  /\ UNCHANGED <<lifeVars, linkVars, workVars, incoming>>

NextAttempt(a) == IF a = MaxRetries THEN Rest ELSE a + 1

(* retrySend: an attempt succeeds, or the next one comes after a wait that *)
(* the context may end.                                                    *)
RetrySend ==
  /\ sending # Rest
  /\ sending' \in {Rest, NextAttempt(sending)}
  /\ UNCHANGED <<lifeVars, linkVars, workVars, incoming, sends>>
--------------------------------------------------------------------------------
(* Stop: flag, cancel and disconnect, wait or give up, clear and close.    *)
FlagStopping ==
  /\ stop = "no" /\ start = "running"
  /\ stopping' = TRUE
  /\ stop' = "flagged"
  /\ UNCHANGED <<start, runDone, client, linkVars, workVars, trafficVars>>

Disconnect ==
  /\ stop = "flagged"
  /\ runDone' = TRUE
  /\ connected' = FALSE
  /\ stop' = "wait"
  /\ UNCHANGED <<start, stopping, client, drops, events, workVars, trafficVars>>

Wait ==
  /\ stop = "wait"
  /\ \/ tracked = {} /\ stop' = "waited"
     \/ stop' = "gaveUp"
  /\ UNCHANGED <<start, stopping, runDone, client, linkVars, workVars, trafficVars>>

ClearAndClose ==
  /\ stop \in {"waited", "gaveUp"}
  /\ client' = FALSE
  /\ stop' = IF stop = "waited" THEN "stopped" ELSE "forced"
  /\ UNCHANGED <<start, stopping, runDone, linkVars, workVars, trafficVars>>

Work(k) == Check(k) \/ Connect(k) \/ Backoff(k) \/ Reset(k) \/ Done(k)

ANext ==
  \/ Open \/ ConnectFails \/ ConnectSucceeds \/ TrackQR \/ QRDone
  \/ Drop \/ Disconnected
  \/ \E k \in Workers : Work(k)
  \/ \E m \in Incoming : Receive(m) \/ HandleIncoming(m) \/ Publish(m)
  \/ Send \/ RetrySend
  \/ FlagStopping \/ Disconnect \/ Wait \/ ClearAndClose
--------------------------------------------------------------------------------
ATypeOK ==
  /\ start \in {"no", "connect", "qr", "running", "failed"}
  /\ stop \in {"no", "flagged", "wait", "waited", "gaveUp", "stopped", "forced"}
  /\ {stopping, runDone, client, connected, reconnecting, ignored, slipped} \subseteq BOOLEAN
  /\ drops \in 0..MaxDrops /\ events \in 0..drops /\ sends \in 0..MaxSends
  /\ tracked \subseteq Workers \union {QR}
  /\ worker \in [Workers -> {"none", "check", "connect", "backoff", "reset", "done"}]
  /\ incoming \in [Incoming -> {"none", "skipped", "handling", "publishing", "published",
                              "panicked"}]
  /\ sending \in 0..Rest

(* A Stop that has waited for the tracked goroutines, those that show QR   *)
(* codes and those that reconnect, has waited for all of them: none is     *)
(* added to the wait group behind its back, none is still at work, and the *)
(* connection is down, except when a reconnect had passed its check before *)
(* Stop disconnected.  Message handlers are not tracked and may outlive    *)
(* it; one finds the client gone only once Stop has cleared it.            *)
StopIsClean ==
  /\ stop \in {"waited", "stopped"} =>
       /\ tracked = {}
       /\ \A k \in Workers : worker[k] \in {"none", "done"}
       /\ connected => slipped
  /\ \A m \in Incoming : incoming[m] = "panicked" => stop \in {"stopped", "forced"}

(* A lost connection is noticed: its event is on the way, a reconnect is   *)
(* still going to look, or the channel is being stopped; unless the event  *)
(* came while a reconnect that had just succeeded had not yet said so.     *)
LossIsNoticed ==
  (start = "running" /\ ~stopping /\ ~connected) =>
    \/ events > 0
    \/ \E k \in Workers : worker[k] \in {"check", "connect", "backoff"}
    \/ ignored
================================================================================
