------------------------------- MODULE WebSocketClient -------------------------------
(***************************************************************************)
(* pkg/channels/websocket/client.go: the channel that dials a server,      *)
(* reads until the connection drops and dials again, and is stopped at any *)
(* time, also while a dial is under way.                                   *)
(*                                                                         *)
(* Connections are numbered as they are dialled.  The server is external:  *)
(* it may refuse, write or drop the connection at any time.                *)
(*                                                                         *)
(* Bound: MaxDials connections.                                            *)
(***************************************************************************)
EXTENDS Naturals

CONSTANT MaxDials

VARIABLES
  loop,      (* where Start, then the reconnect loop, is                       *)
  conn,      (* c.conn                                                         *)
  reader,    (* reader[k]: where the read loop of connection k is              *)
  closed,    (* closed[k]: pc.closed of connection k                           *)
  dialled,   (* connections made so far                                        *)
  ctxDone,   (* the channel's context is cancelled, connCtx with it            *)
  stop       (* where Stop is                                                  *)

cvars == <<loop, conn, reader, closed, dialled, ctxDone, stop>>

Dials == 1..MaxDials

CInit ==
  /\ loop = "start"
  /\ conn = 0 /\ dialled = 0
  /\ reader = [k \in Dials |-> "none"]
  /\ closed = [k \in Dials |-> FALSE]
  /\ ctxDone = FALSE
  /\ stop = "no"
--------------------------------------------------------------------------------
(* dial: DialContext ends without a connection once the context is done,   *)
(* but one it has made is kept.  The first dial that fails ends Start.     *)
DialFails ==
  /\ loop \in {"start", "dial"}
  /\ loop' = IF loop = "start" THEN "ended" ELSE "backoff"
  /\ UNCHANGED <<conn, reader, closed, dialled, ctxDone, stop>>

DialSucceeds ==
  /\ loop \in {"start", "dial"} /\ ~ctxDone
  /\ dialled < MaxDials
  /\ dialled' = dialled + 1
  /\ loop' = "dialled"
  /\ UNCHANGED <<conn, reader, closed, ctxDone, stop>>

(* The connection is stored and its read loop started. *)
Keep ==
  /\ loop = "dialled"
  /\ conn' = dialled
  /\ reader' = [reader EXCEPT ![dialled] = "loop"]
  /\ loop' = "check"
  /\ UNCHANGED <<closed, dialled, ctxDone, stop>>

(* A round of reconnectLoop; the waits between rounds end with the context.*)
Reconnect ==
  /\ loop \in {"check", "backoff"}
  /\ loop' = IF ctxDone THEN "ended"
             ELSE IF loop = "check" /\ (conn = 0 \/ ~closed[conn]) THEN "check"
             ELSE "dial"
  /\ loop' # loop
  /\ UNCHANGED <<conn, reader, closed, dialled, ctxDone, stop>>

AfterCheck(k) == IF ctxDone THEN "closing" ELSE "reading"

(* readLoop: the context, then a message.  A read fails when the server    *)
(* drops the connection, this side has closed it, or the deadline passes,  *)
(* which it does once the pings have ended with the context.               *)
CheckContext(k) ==
  /\ reader[k] = "loop"
  /\ reader' = [reader EXCEPT ![k] = AfterCheck(k)]
  /\ UNCHANGED <<loop, conn, closed, dialled, ctxDone, stop>>

ReadMessage(k) ==
  /\ reader[k] = "reading" /\ ~closed[k]
  /\ reader' = [reader EXCEPT ![k] = "loop"]
  /\ UNCHANGED <<loop, conn, closed, dialled, ctxDone, stop>>

ReadFails(k) ==
  /\ reader[k] = "reading"
  /\ reader' = [reader EXCEPT ![k] = "closing"]
  /\ UNCHANGED <<loop, conn, closed, dialled, ctxDone, stop>>

ReadMustFail(k) == (closed[k] \/ ctxDone) /\ ReadFails(k)

CloseConn(k) ==
  /\ reader[k] = "closing"
  /\ closed' = [closed EXCEPT ![k] = TRUE]
  /\ reader' = [reader EXCEPT ![k] = "gone"]
  /\ UNCHANGED <<loop, conn, dialled, ctxDone, stop>>

(* Stop cancels, then closes the connection it finds.  StopAll does not    *)
(* come before Start has returned.                                         *)
StopCancels ==
  /\ stop = "no" /\ loop # "start" /\ dialled > 0
  /\ loop = "dialled" => dialled > 1
  /\ ctxDone' = TRUE
  /\ stop' = "close"
  /\ UNCHANGED <<loop, conn, reader, closed, dialled>>

StopCloses ==
  /\ stop = "close"
  /\ closed' = IF conn = 0 THEN closed ELSE [closed EXCEPT ![conn] = TRUE]
  /\ stop' = "stopped"
  /\ UNCHANGED <<loop, conn, reader, dialled, ctxDone>>

CServe(k) == CheckContext(k) \/ ReadMustFail(k) \/ CloseConn(k)
Loop == DialFails \/ Keep \/ Reconnect

CNext ==
  \/ Loop \/ DialSucceeds \/ StopCancels \/ StopCloses
  \/ \E k \in Dials : CServe(k) \/ ReadMessage(k) \/ ReadFails(k)

CFairness ==
  /\ WF_cvars(loop # "start" /\ Loop) /\ WF_cvars(StopCloses)
  /\ \A k \in Dials : WF_cvars(CServe(k))

CSpec == CInit /\ [][CNext]_cvars /\ CFairness
--------------------------------------------------------------------------------
CTypeOK ==
  /\ loop \in {"start", "dialled", "check", "dial", "backoff", "ended"}
  /\ conn \in 0..MaxDials /\ dialled \in 0..MaxDials
  /\ reader \in [Dials -> {"none", "loop", "reading", "closing", "gone"}]
  /\ closed \in [Dials -> BOOLEAN] /\ ctxDone \in BOOLEAN
  /\ stop \in {"no", "close", "stopped"}

(* Only the connection that Send uses is open: another one is dialled only *)
(* when that one is closed.                                                *)
OneConnection ==
  \A k \in Dials : reader[k] \in {"loop", "reading"} /\ ~closed[k] => k = conn

(* After Stop the reconnect loop and every read loop come to their end,    *)
(* that too of a connection which a dial under way brings after Stop has   *)
(* closed the last one.                                                    *)
ClientConnectionsEnd ==
  (stop = "stopped") ~> (loop = "ended" /\ \A k \in Dials : reader[k] \in {"none", "gone"})
================================================================================
