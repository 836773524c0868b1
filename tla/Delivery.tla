--------------------------------- MODULE Delivery ---------------------------------
(***************************************************************************)
(* pkg/channels/manager.go and the inbound half of pkg/channels/base.go,   *)
(* for one chat: what a message leaves behind while its answer is awaited  *)
(* (a typing indicator and a placeholder message), the dispatch goroutine  *)
(* that clears it and delivers what is on the bus, and StopAll.            *)
(*                                                                         *)
(* No channel implements reactions, and nothing in the program asks for a  *)
(* streamer, so both stay out.  The bus keeps the order (MessageBus).  The *)
(* chat service is external: it may refuse any call.                       *)
(*                                                                         *)
(* Bounds: NumMessages messages, MaxExtras outbound messages that answer   *)
(* none of them (a cron job's, a debug line), MaxOut on the bus at once.   *)
(***************************************************************************)
EXTENDS Naturals, Sequences

CONSTANTS NumMessages, MaxExtras, MaxOut

VARIABLES
  handler,      (* handler[m]: where the goroutine of message m is             *)
  typing,       (* messages whose typing indicator is on                       *)
  waiting,      (* messages whose placeholder still says so                    *)
  typingStop,   (* m.typingStops of the chat: whose stop function it holds     *)
  placeholder,  (* m.placeholders of the chat: whose placeholder it holds      *)
  lost,         (* history: the artefacts nobody has a handle on any more      *)
  asked,        (* messages the agent has and has not answered                 *)
  out,          (* outbound messages on the bus                                *)
  dispatch,     (* where the dispatch goroutine is                             *)
  handed,       (* the placeholder it has taken out of the map                 *)
  stop,         (* where StopAll is                                            *)
  running,      (* the channel's running flag                                  *)
  extras        (* messages of others so far                                   *)

inbound == <<handler, asked>>
artefacts == <<typing, waiting, typingStop, placeholder, lost>>
dispatching == <<out, dispatch, handed>>
stopping == <<stop, running>>
dvars == <<inbound, artefacts, dispatching, stopping, extras>>

Inbox == 1..NumMessages
Nil == 0

DInit ==
  /\ handler = [m \in Inbox |-> "none"]
  /\ typing = {} /\ waiting = {} /\ lost = {}
  /\ typingStop = Nil /\ placeholder = Nil
  /\ asked = {}
  /\ out = 0
  /\ dispatch = "select"
  /\ handed = Nil
  /\ stop = "no" /\ running = TRUE
  /\ extras = 0
--------------------------------------------------------------------------------
(* HandleMessageWithContextAndSession *)

(* The allow list turns a message away before anything is shown. *)
Arrive(m) ==
  /\ running
  /\ handler[m] = "none"
  /\ \E pc \in {"typing", "refused"} : handler' = [handler EXCEPT ![m] = pc]
  /\ UNCHANGED <<asked, artefacts, dispatching, stopping, extras>>

StartTyping(m) ==
  /\ handler[m] = "typing"
  /\ \/ /\ typing' = typing \union {m}
        /\ handler' = [handler EXCEPT ![m] = "recordTyping"]
     \/ /\ UNCHANGED typing
        /\ handler' = [handler EXCEPT ![m] = "placeholder"]
  /\ UNCHANGED <<asked, waiting, typingStop, placeholder, lost, dispatching, stopping, extras>>

(* A stop function that was recorded before is forgotten, not called. *)
RecordTypingStop(m) ==
  /\ handler[m] = "recordTyping"
  /\ typingStop' = m
  /\ lost' = IF typingStop = Nil THEN lost ELSE lost \union {<<"typing", typingStop>>}
  /\ handler' = [handler EXCEPT ![m] = "placeholder"]
  /\ UNCHANGED <<asked, typing, waiting, placeholder, dispatching, stopping, extras>>

(* Voice messages get none; it may fail or be switched off. *)
SendPlaceholder(m) ==
  /\ handler[m] = "placeholder"
  /\ \/ /\ waiting' = waiting \union {m}
        /\ handler' = [handler EXCEPT ![m] = "recordPlaceholder"]
     \/ /\ UNCHANGED waiting
        /\ handler' = [handler EXCEPT ![m] = "publish"]
  /\ UNCHANGED <<asked, typing, typingStop, placeholder, lost, dispatching, stopping, extras>>

RecordPlaceholder(m) ==
  /\ handler[m] = "recordPlaceholder"
  /\ placeholder' = m
  /\ lost' = IF placeholder = Nil THEN lost
             ELSE lost \union {<<"placeholder", placeholder>>}
  /\ handler' = [handler EXCEPT ![m] = "publish"]
  /\ UNCHANGED <<asked, typing, waiting, typingStop, dispatching, stopping, extras>>

(* When PublishInbound fails, what was shown stays until another message   *)
(* is delivered to the chat.                                               *)
PublishInbound(m) ==
  /\ handler[m] = "publish"
  /\ handler' = [handler EXCEPT ![m] = "done"]
  /\ asked' = asked \union {m} \/ UNCHANGED asked
  /\ UNCHANGED <<artefacts, dispatching, stopping, extras>>
--------------------------------------------------------------------------------
(* Everything else that publishes to the chat.  A turn may also end with   *)
(* nothing to say.                                                         *)
PublishOutbound ==
  /\ \/ /\ \E m \in asked : asked' = asked \ {m}
        /\ (out < MaxOut /\ out' = out + 1) \/ UNCHANGED out
        /\ UNCHANGED extras
     \/ /\ extras < MaxExtras /\ extras' = extras + 1
        /\ out < MaxOut /\ out' = out + 1
        /\ UNCHANGED asked
  /\ UNCHANGED <<handler, artefacts, dispatch, handed, stopping>>
--------------------------------------------------------------------------------
(* runOutboundDispatch and handleOutbound *)

(* Media are sent at once and clear nothing. *)
Select ==
  /\ dispatch = "select"
  /\ \/ out > 0 /\ out' = out - 1 /\ dispatch' \in {"typing", "send"}
     \/ stop # "no" /\ dispatch' = "done" /\ UNCHANGED out
  /\ UNCHANGED <<inbound, artefacts, handed, stopping, extras>>

StopTyping_Forgets == UNCHANGED typing

StopTyping ==
  typing' = typing \ {typingStop}

TakeTypingStop ==
  /\ dispatch = "typing"
  /\ typingStop' = Nil
  /\ StopTyping
  /\ dispatch' = "placeholder"
  /\ UNCHANGED <<inbound, waiting, placeholder, lost, out, handed, stopping, extras>>

TakePlaceholder ==
  /\ dispatch = "placeholder"
  /\ placeholder' = Nil
  /\ handed' = placeholder
  /\ dispatch' = IF placeholder = Nil THEN "send" ELSE "edit"
  /\ UNCHANGED <<inbound, typing, waiting, typingStop, lost, out, stopping, extras>>

(* The answer takes the place of the placeholder, whichever message that   *)
(* was for.  After an edit that fails the placeholder stays for good.      *)
EditMessage ==
  /\ dispatch = "edit"
  /\ handed' = Nil
  /\ \/ /\ waiting' = waiting \ {handed}
        /\ dispatch' = "select"
        /\ UNCHANGED lost
     \/ /\ lost' = lost \union {<<"placeholder", handed>>}
        /\ dispatch' = "send"
        /\ UNCHANGED waiting
  /\ UNCHANGED <<inbound, typing, typingStop, placeholder, out, stopping, extras>>

AfterSend_GivesUp == {"select", "done"}

(* A failure is logged. *)
AfterSend == {"select"}

Send ==
  /\ dispatch = "send"
  /\ dispatch' \in AfterSend
  /\ UNCHANGED <<inbound, artefacts, out, handed, stopping, extras>>

(* StopAll: cancel the dispatch, wait for it or for the context, stop.     *)
StopAll ==
  /\ stop = "no"
  /\ stop' = "wait"
  /\ UNCHANGED <<inbound, artefacts, dispatching, running, extras>>

DispatchDone_Unchecked == TRUE

DispatchDone == dispatch = "done"

StopChannels ==
  /\ stop = "wait"
  /\ \/ DispatchDone /\ stop' = "stopped"
     \/ stop' = "gaveUp"
  /\ running' = FALSE
  /\ UNCHANGED <<inbound, artefacts, dispatching, extras>>

Dispatch == Select \/ TakeTypingStop \/ TakePlaceholder \/ EditMessage \/ Send

DNext ==
  \/ \E m \in Inbox :
       \/ Arrive(m) \/ StartTyping(m) \/ RecordTypingStop(m)
       \/ SendPlaceholder(m) \/ RecordPlaceholder(m) \/ PublishInbound(m)
  \/ PublishOutbound
  \/ Dispatch
  \/ StopAll
  \/ StopChannels
--------------------------------------------------------------------------------
DTypeOK ==
  /\ handler \in [Inbox -> {"none", "refused", "typing", "recordTyping", "placeholder",
                            "recordPlaceholder", "publish", "done"}]
  /\ typing \subseteq Inbox /\ waiting \subseteq Inbox /\ asked \subseteq Inbox
  /\ {typingStop, placeholder, handed} \subseteq Inbox \union {Nil}
  /\ lost \subseteq {"typing", "placeholder"} \X Inbox
  /\ out \in 0..MaxOut /\ extras \in 0..MaxExtras
  /\ dispatch \in {"select", "typing", "placeholder", "edit", "send", "done"}
  /\ stop \in {"no", "wait", "stopped", "gaveUp"} /\ running \in BOOLEAN

(* As long as a typing indicator or a placeholder is shown, the manager,   *)
(* the message's handler or the dispatch goroutine can still clear it,     *)
(* unless another message of the chat has taken its place in the map or    *)
(* the service refused the edit.                                           *)
ArtefactsAreReachable ==
  /\ \A m \in typing :
       typingStop = m \/ handler[m] = "recordTyping" \/ <<"typing", m>> \in lost
  /\ \A m \in waiting :
       \/ m \in {placeholder, handed}
       \/ handler[m] = "recordPlaceholder"
       \/ <<"placeholder", m>> \in lost

(* The dispatch goroutine calls a channel only while it runs, except after *)
(* StopAll has given up waiting for it.                                    *)
NoSendAfterStop == dispatch \in {"edit", "send"} => running \/ stop = "gaveUp"

(* A message on the bus is handled, whatever became of those before it,    *)
(* unless the channels are being stopped.                                  *)
OutboundIsHandled == (out > 0 /\ stop = "no") ~> (out = 0 \/ stop # "no")
================================================================================
