---------------------------------- MODULE Gateway ----------------------------------
(***************************************************************************)
(* internal/gateway/gateway.go, the inbound loop: one message at a time is *)
(* filtered, checked against the conversation lock, executed when it is a  *)
(* command, or handed to the agent, with internal/commandfilter,           *)
(* pkg/commands and the debug switch of internal/gateway/debug.go.         *)
(*                                                                         *)
(* The lock is the module this one extends: its steps are the loop's calls *)
(* of the manager.  A text is a command name and what follows it; names    *)
(* that are handled alike are one value.  Messages of the channel "system" *)
(* come only from the program itself and nothing sends one.                *)
(*                                                                         *)
(* Bounds: those of ConversationLock, MaxTexts messages.                   *)
(***************************************************************************)
EXTENDS ConversationLock

CONSTANT MaxTexts

VARIABLES
  task,      (* the message in the loop, what became of it so far             *)
  debug,     (* dm.active                                                     *)
  report,    (* a turn's Progress: the chat whose switch it has found on      *)
  texts      (* messages taken so far                                         *)

gatewayVars == <<task, debug, report, texts>>
gvars == <<vars, gatewayVars>>

(* plain: no prefix, or a prefix and no name; unknown: not registered;     *)
(* show: registered without a handler; list: has subcommands; clear: and   *)
(* /stop, /use and every other command with a handler.                     *)
Names == {"plain", "unknown", "show", "list", "clear", "debug", "lock", "unlock"}
Texts ==
  [name: Names \ {"unlock", "debug"}, arg: {"none"}]
    \union [name: {"unlock"}, arg: {"none", "code", "more"}]
    \union [name: {"debug"}, arg: {"none", "on", "off", "more"}]

Idle == [session |-> Nobody, text |-> [name |-> "plain", arg |-> "none"],
         outcome |-> "none"]

(* The message as the lock sees it. *)
LockMessages(t) ==
  CASE t.name = "lock" -> [kind: {"lock"}, code: {None}]
    [] t.name = "unlock" /\ t.arg = "none" -> [kind: {"request"}, code: {None}]
    [] t.name = "unlock" /\ t.arg = "code" -> [kind: {"verify"}, code: 0..MaxCodes]
    [] t.name = "unlock" /\ t.arg = "more" -> [kind: {"usage"}, code: {None}]
    [] OTHER -> [kind: {"chat"}, code: {None}]

(* Filter: a prefix with a name that is not registered. *)
Blocked(t) == t.name = "unknown"

(* Execute passes on what has no handler; the rest is handled, if only by  *)
(* a line on how to use it.                                                *)
Passthrough_MalformedUnlock(t) == t.name \in {"plain", "show"} \/ t.arg = "more"

Passthrough(t) == t.name \in {"plain", "show"}

(* A handler that does something, or one that only says what it would take. *)
HandledAs(t) ==
  IF t.name \in {"clear", "debug"} /\ t.arg # "more" THEN "done" ELSE "handled"
--------------------------------------------------------------------------------
GInit ==
  /\ Init
  /\ task = Idle
  /\ debug = {}
  /\ report = Nobody
  /\ texts = 0

Take(s, t) ==
  /\ loop.step = "idle"
  /\ texts < MaxTexts
  /\ texts' = texts + 1
  /\ \/ /\ Blocked(t)
        /\ task' = [session |-> s, text |-> t, outcome |-> "blocked"]
        /\ UNCHANGED vars
     \/ /\ ~Blocked(t)
        /\ \E m \in LockMessages(t) : IsLocked(s, m)
        /\ task' = [session |-> s, text |-> t,
                    outcome |-> IF loop' = loop THEN "locked" ELSE "open"]
  /\ UNCHANGED <<debug, report>>

(* /lock and /unlock. *)
ExecuteLockCommand ==
  /\ Lock \/ RequestUnlock \/ VerifyUnlock
  /\ task' = [task EXCEPT !.outcome = "handled"]
  /\ UNCHANGED <<debug, report, texts>>

(* DebugManager.Set: "on" and "off" that change nothing answer so. *)
SetDebug(s, mode) ==
  debug' = CASE mode = "on" -> debug \union {s}
             [] mode = "off" -> debug \ {s}
             [] mode = "none" -> IF s \in debug THEN debug \ {s} ELSE debug \union {s}
             [] mode = "more" -> debug

(* Every other command, and the message that is none. *)
Execute ==
  /\ loop.step = "record"
  /\ task.outcome = "open"
  /\ \/ /\ Passthrough(task.text)
        /\ task' = [task EXCEPT !.outcome = "agent"]
        /\ UNCHANGED debug
     \/ /\ ~Passthrough(task.text)
        /\ task' = [task EXCEPT !.outcome = HandledAs(task.text)]
        /\ IF task.text.name = "debug" THEN SetDebug(task.session, task.text.arg)
           ELSE UNCHANGED debug
  /\ UNCHANGED <<vars, report, texts>>

(* RecordActivity is the last call for a handled command; for the agent it *)
(* comes before the goroutine that runs Dispatch.                          *)
Finish ==
  /\ task.outcome \in {"handled", "done", "agent"}
  /\ RecordActivity
  /\ UNCHANGED <<task, debug, report, texts>>

(* Progress and Summary, from the goroutines of the turns: the switch is   *)
(* read, then the text is published, whatever has been set meanwhile.      *)
Progress(s) ==
  \/ report = Nobody /\ s \in debug /\ report' = s /\ UNCHANGED <<vars, task, debug, texts>>
  \/ report = s /\ report' = Nobody /\ UNCHANGED <<vars, task, debug, texts>>

(* The process ends and starts again; only lockouts are remembered. *)
GRestart ==
  /\ Restart
  /\ task' = Idle
  /\ debug' = {}
  /\ report' = Nobody
  /\ UNCHANGED texts

Tick == ClockTicks /\ UNCHANGED gatewayVars

GNext ==
  \/ \E s \in Sessions, t \in Texts : Take(s, t)
  \/ ExecuteLockCommand
  \/ Execute
  \/ Finish
  \/ \E s \in Sessions : Progress(s)
  \/ GRestart
  \/ Tick
--------------------------------------------------------------------------------
GTypeOK ==
  /\ TypeOK
  /\ task \in [session: Sessions \union {Nobody}, text: Texts,
              outcome: {"none", "blocked", "locked", "open", "handled", "done", "agent"}]
  /\ debug \subseteq Sessions
  /\ report \in Sessions \union {Nobody}

(* A message of a locked conversation reaches neither the agent nor a      *)
(* command other than /lock and /unlock, whatever its spelling and however *)
(* long the loop takes between the check and the call.                     *)
LockedReachesNothing ==
  [][task.outcome = "open" /\ task'.outcome \in {"agent", "done"}
       => ~states[task.session].locked]_gvars
================================================================================
