---------------------------------- MODULE WebSocket ----------------------------------
(***************************************************************************)
(* pkg/channels/websocket/websocket.go, the server: connections come in on *)
(* goroutines of the HTTP server, are registered in two indexes, and each  *)
(* is served by a read loop of its own until the peer leaves, its read     *)
(* deadline passes or the channel is stopped.                              *)
(*                                                                         *)
(* Peers and the network are external: a peer may write or leave at any    *)
(* time.  The read deadline is moved by messages and by answers to the     *)
(* pings of the ping loop, which ends with the channel's context.          *)
(*                                                                         *)
(* Bounds: Conns, the connections ever made.                               *)
(***************************************************************************)
EXTENDS Naturals, FiniteSets

CONSTANTS
  Conns, WsSessions,
  SessionOf,       (* SessionOf[c]: the session_id the peer of c gives          *)
  MaxConnections

VARIABLES
  pc,           (* pc[c]: where the goroutine that serves c is                 *)
  connections,  (* c.connections                                               *)
  bySession,    (* c.sessionConnections                                        *)
  closed,       (* connections whose socket this side has closed               *)
  taken,        (* connections Stop has taken and not yet closed               *)
  stop,         (* where Stop is                                               *)
  ctxDone       (* the channel's context is cancelled                          *)

wvars == <<pc, connections, bySession, closed, taken, stop, ctxDone>>
indexes == <<connections, bySession>>

IsRunning == stop = "no"

WInit ==
  /\ pc = [c \in Conns |-> "none"]
  /\ connections = {}
  /\ bySession = [s \in WsSessions |-> {}]
  /\ closed = {} /\ taken = {}
  /\ stop = "no"
  /\ ctxDone = FALSE
--------------------------------------------------------------------------------
Goto(c, label) == pc' = [pc EXCEPT ![c] = label]

(* handleWebSocket up to the upgrade: not running, no token or too many    *)
(* connections end it, as does an upgrade that fails.                      *)
Connect(c) ==
  /\ pc[c] = "none"
  /\ \/ IsRunning /\ Cardinality(connections) < MaxConnections /\ Goto(c, "upgraded")
     \/ Goto(c, "gone")
  /\ UNCHANGED <<indexes, closed, taken, stop, ctxDone>>

HasRoom_CheckedBefore == TRUE

(* The count may have changed since it was first looked at. *)
HasRoom == Cardinality(connections) < MaxConnections

CreateAndAddConnection(c) ==
  /\ pc[c] = "upgraded"
  /\ \/ /\ HasRoom
        /\ connections' = connections \union {c}
        /\ bySession' = [bySession EXCEPT ![SessionOf[c]] = @ \union {c}]
        /\ Goto(c, "loop")
        /\ UNCHANGED closed
     \/ /\ ~HasRoom
        /\ closed' = closed \union {c}
        /\ Goto(c, "gone")
        /\ UNCHANGED indexes
  /\ UNCHANGED <<taken, stop, ctxDone>>

(* The top of the read loop. *)
AfterContextCheck_None == {"reading"}

AfterContextCheck == IF ctxDone THEN {"closing"} ELSE {"reading"}

CheckContext(c) ==
  /\ pc[c] = "loop"
  /\ \E label \in AfterContextCheck : Goto(c, label)
  /\ UNCHANGED <<indexes, closed, taken, stop, ctxDone>>

(* A message, good or bad, is handled and the loop goes on; publishing it  *)
(* ends by itself once the context is done.                                *)
ReadMessage(c) ==
  /\ pc[c] = "reading" /\ c \notin closed
  /\ Goto(c, "handling")
  /\ UNCHANGED <<indexes, closed, taken, stop, ctxDone>>

HandleMessage(c) ==
  /\ pc[c] = "handling"
  /\ Goto(c, "loop")
  /\ UNCHANGED <<indexes, closed, taken, stop, ctxDone>>

(* The peer has left, the socket is closed or the deadline has passed. *)
ReadFails(c) ==
  /\ pc[c] = "reading"
  /\ Goto(c, "closing")
  /\ UNCHANGED <<indexes, closed, taken, stop, ctxDone>>

(* With the socket closed, or with no more pings to keep it open, a read   *)
(* that nothing else ends fails.                                           *)
ReadMustFail(c) == (c \in closed \/ ctxDone) /\ ReadFails(c)

(* The deferred part of the read loop: close, then removeConnection. *)
Close(c) ==
  /\ pc[c] = "closing"
  /\ closed' = closed \union {c}
  /\ Goto(c, "removing")
  /\ UNCHANGED <<indexes, taken, stop, ctxDone>>

RemoveConnection(c) ==
  /\ pc[c] = "removing"
  /\ connections' = connections \ {c}
  /\ bySession' = IF c \in connections THEN [bySession EXCEPT ![SessionOf[c]] = @ \ {c}]
                  ELSE bySession
  /\ Goto(c, "gone")
  /\ UNCHANGED <<closed, taken, stop, ctxDone>>
--------------------------------------------------------------------------------
(* Stop: no longer running, close what is registered, shut the server down *)
(* (it does not wait for upgraded connections), cancel the context.        *)
StopRunning ==
  /\ stop = "no"
  /\ stop' = "take"
  /\ UNCHANGED <<pc, indexes, closed, taken, ctxDone>>

TakeAllConnections ==
  /\ stop = "take"
  /\ taken' = connections
  /\ connections' = {}
  /\ bySession' = [s \in WsSessions |-> {}]
  /\ stop' = "close"
  /\ UNCHANGED <<pc, closed, ctxDone>>

CloseTaken ==
  /\ stop = "close"
  /\ \/ \E c \in taken : /\ closed' = closed \union {c}
                         /\ taken' = taken \ {c}
                         /\ UNCHANGED <<stop, ctxDone>>
     \/ /\ taken = {}
        /\ stop' = "stopped"
        /\ ctxDone' = TRUE
        /\ UNCHANGED <<closed, taken>>
  /\ UNCHANGED <<pc, indexes>>

Serve(c) ==
  CreateAndAddConnection(c) \/ CheckContext(c) \/ HandleMessage(c) \/ ReadMustFail(c)
    \/ Close(c) \/ RemoveConnection(c)

Stop == StopRunning \/ TakeAllConnections \/ CloseTaken

WNext ==
  \/ \E c \in Conns : Connect(c) \/ Serve(c) \/ ReadMessage(c) \/ ReadFails(c)
  \/ Stop

(* The goroutines run on; Stop, once called, goes on to its end. *)
WFairness ==
  /\ \A c \in Conns : WF_wvars(Serve(c))
  /\ WF_wvars(TakeAllConnections \/ CloseTaken)

WSpec == WInit /\ [][WNext]_wvars /\ WFairness
--------------------------------------------------------------------------------
WTypeOK ==
  /\ pc \in [Conns -> {"none", "upgraded", "loop", "reading", "handling", "closing",
                       "removing", "gone"}]
  /\ connections \subseteq Conns /\ bySession \in [WsSessions -> SUBSET Conns]
  /\ closed \subseteq Conns /\ taken \subseteq Conns
  /\ stop \in {"no", "take", "close", "stopped"} /\ ctxDone \in BOOLEAN

(* The two indexes hold the same connections, no more than the limit, and  *)
(* each has a read loop that will remove it; no socket is left open        *)
(* outside the indexes but those Stop is about to close and those on their *)
(* way in or out.                                                          *)
ConnectionsAreServed ==
  /\ \A c \in Conns, s \in WsSessions :
       c \in bySession[s] <=> c \in connections /\ SessionOf[c] = s
  /\ Cardinality(connections) <= MaxConnections
  /\ \A c \in connections : pc[c] \in {"loop", "reading", "handling", "closing", "removing"}
  /\ \A c \in Conns :
       (pc[c] \in {"loop", "reading", "handling"} /\ c \notin closed) =>
         c \in connections \union taken

(* Once the channel has been told to stop, every connection comes to its   *)
(* end, those too that were registered after Stop had taken the others and *)
(* those whose peer goes on writing.                                       *)
ConnectionsEnd ==
  \A c \in Conns : (stop # "no" /\ pc[c] # "none") ~> pc[c] = "gone"
================================================================================
