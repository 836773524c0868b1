-------------------------------- MODULE ToolFeedback --------------------------------
(***************************************************************************)
(* pkg/channels/tool_feedback_animator.go and the WebSocket channel's Send *)
(* that drives it, for one chat: a progress message that a goroutine keeps *)
(* editing until it is updated, turned into the answer, dismissed, or      *)
(* stopped with the channel.                                               *)
(*                                                                         *)
(* The callers of Send are the dispatch goroutine, one message at a time,  *)
(* and the tests: no part of the program marks a message as tool feedback  *)
(* yet.  Stop comes from StopAll, beside a Send only when the manager has  *)
(* given up waiting for it.  An edit or a broadcast fails when the session *)
(* has no connection.  An animation is one entry with its goroutine.       *)
(*                                                                         *)
(* Bounds: MaxAnimations entries, MaxSends calls of Send.                  *)
(***************************************************************************)
EXTENDS Naturals

CONSTANTS MaxAnimations, MaxSends

VARIABLES
  entry,       (* a.entries of the chat, or 0                                  *)
  run,         (* run[e]: where the goroutine of e is                          *)
  stopped,     (* entries whose stop channel is closed                         *)
  made,        (* entries made so far                                          *)
  sender,      (* where Send is, with the entry it has taken and its message   *)
  stopper,     (* where StopAll is, with the entry it has taken                *)
  late,        (* history: entries recorded after StopAll took the others      *)
  sends        (* calls of Send so far                                         *)

fvars == <<entry, run, stopped, made, sender, stopper, late, sends>>

Animations == 1..MaxAnimations
NoEntry == 0
AtRest == [at |-> "rest", entry |-> NoEntry, kind |-> "answer", tracked |-> FALSE]

(* stopToolFeedbackAnimation returns when the goroutine has. *)
Ended(e) == IF e = NoEntry THEN TRUE ELSE run[e] = "done"

FInit ==
  /\ entry = NoEntry
  /\ run = [e \in Animations |-> "none"]
  /\ stopped = {}
  /\ made = 0
  /\ sender = AtRest
  /\ stopper = [at |-> "no", entry |-> NoEntry]
  /\ late = {}
  /\ sends = 0
--------------------------------------------------------------------------------
(* A message of the three kinds.  A thought goes straight to the session.  *)
Send(kind) ==
  /\ sender.at = "rest"
  /\ sends < MaxSends /\ sends' = sends + 1
  /\ sender' = [at |-> IF kind = "thought" THEN "broadcast" ELSE "take",
                entry |-> NoEntry, kind |-> kind, tracked |-> entry # NoEntry]
  /\ UNCHANGED <<entry, run, stopped, made, stopper, late>>

(* Update and FinalizeToolFeedbackMessage begin with Take: the entry is    *)
(* detached under the lock, then its goroutine is told to stop.            *)
Take ==
  /\ sender.at = "take"
  /\ entry' = NoEntry
  /\ IF entry = NoEntry
     THEN /\ sender' = [sender EXCEPT !.at = "broadcast"]
          /\ UNCHANGED stopped
     ELSE /\ sender' = [sender EXCEPT !.at = "edit", !.entry = entry]
          /\ stopped' = stopped \union {entry}
  /\ UNCHANGED <<run, made, stopper, late, sends>>

(* The wait for the goroutine, then the edit.  When it fails the message   *)
(* is recorded again as it was: feedback is given up with an error, an     *)
(* answer is sent as a message of its own.                                 *)
Edit ==
  /\ sender.at = "edit"
  /\ Ended(sender.entry)
  /\ \/ sender.kind = "feedback" /\ sender' = [sender EXCEPT !.at = "record"]
     \/ sender.kind = "answer" /\ sender' = AtRest
     \/ sender' = [sender EXCEPT !.at = "restore"]
  /\ UNCHANGED <<entry, run, stopped, made, stopper, late, sends>>

Broadcast ==
  /\ sender.at = "broadcast"
  /\ \/ sender' = AtRest   \* nobody is connected
     \/ sender' = CASE sender.kind = "feedback" -> [sender EXCEPT !.at = "record"]
                    [] sender.kind = "answer" /\ sender.tracked -> [sender EXCEPT !.at = "clear"]
                    [] OTHER -> AtRest
  /\ UNCHANGED <<entry, run, stopped, made, stopper, late, sends>>

Replaced_Forgotten(e) == stopped

Replaced(e) == IF e = NoEntry THEN stopped ELSE stopped \union {e}

(* Record: the new entry takes the place of the old one, which is stopped, *)
(* and its goroutine starts once the old one has ended.                    *)
Record ==
  /\ sender.at \in {"record", "restore"}
  /\ made < MaxAnimations
  /\ made' = made + 1
  /\ entry' = made'
  /\ stopped' = Replaced(entry)
  /\ late' = IF stopper.at = "no" THEN late ELSE late \union {made'}
  /\ sender' = [sender EXCEPT !.at = IF @ = "record" THEN "go" ELSE "goAgain", !.entry = entry]
  /\ UNCHANGED <<run, stopper, sends>>

Go ==
  /\ sender.at \in {"go", "goAgain"}
  /\ Ended(sender.entry)
  /\ run' = [run EXCEPT ![made] = "waiting"]
  /\ sender' = IF sender.at = "goAgain" /\ sender.kind = "answer"
               THEN [sender EXCEPT !.at = "broadcast", !.entry = NoEntry] ELSE AtRest
  /\ UNCHANGED <<entry, stopped, made, stopper, late, sends>>

(* dismissTrackedToolFeedbackMessage: whatever is tracked now is stopped,  *)
(* and the message is deleted.                                             *)
Clear ==
  /\ sender.at = "clear"
  /\ entry' = NoEntry
  /\ stopped' = Replaced(entry)
  /\ sender' = [sender EXCEPT !.at = "cleared", !.entry = entry]
  /\ UNCHANGED <<run, made, stopper, late, sends>>

Cleared ==
  /\ sender.at = "cleared"
  /\ Ended(sender.entry)
  /\ sender' = AtRest
  /\ UNCHANGED <<entry, run, stopped, made, stopper, late, sends>>

(* StopAll takes the entries under the lock and stops each of them.  Go    *)
(* may not have started one yet: it then ends at once.                     *)
StopAll ==
  /\ stopper.at = "no"
  /\ entry' = NoEntry
  /\ stopped' = IF entry = NoEntry THEN stopped ELSE stopped \union {entry}
  /\ stopper' = [at |-> "wait", entry |-> entry]
  /\ UNCHANGED <<run, made, sender, late, sends>>

StopAllDone ==
  /\ stopper.at = "wait"
  /\ Ended(stopper.entry)
  /\ stopper' = [stopper EXCEPT !.at = "done"]
  /\ UNCHANGED <<entry, run, stopped, made, sender, late, sends>>

(* The goroutine: between two edits it notices that it is to stop. *)
Run(e) ==
  /\ \/ run[e] = "waiting" /\ e \in stopped /\ run' = [run EXCEPT ![e] = "done"]
     \/ run[e] = "waiting" /\ run' = [run EXCEPT ![e] = "editing"]
     \/ run[e] = "editing" /\ run' = [run EXCEPT ![e] = "waiting"]
  /\ UNCHANGED <<entry, stopped, made, sender, stopper, late, sends>>

FNext ==
  \/ \E kind \in {"feedback", "answer", "thought"} : Send(kind)
  \/ Take \/ Edit \/ Broadcast \/ Record \/ Go \/ Clear \/ Cleared
  \/ StopAll \/ StopAllDone
  \/ \E e \in Animations : Run(e)
--------------------------------------------------------------------------------
FTypeOK ==
  /\ entry \in {NoEntry} \union Animations
  /\ run \in [Animations -> {"none", "waiting", "editing", "done"}]
  /\ stopped \subseteq Animations /\ late \subseteq Animations
  /\ made \in 0..MaxAnimations /\ sends \in 0..MaxSends
  /\ sender.at \in {"rest", "take", "edit", "broadcast", "record", "restore", "go",
                    "goAgain", "clear", "cleared"}
  /\ stopper.at \in {"no", "wait", "done"}

(* An animation that runs is the chat's tracked one or has been told to    *)
(* stop: none goes on editing a message nobody tracks.  The tracked one    *)
(* has not been told yet, so that its channel is never closed twice.       *)
(* After StopAll only one recorded by a Send beside it goes on.            *)
AnimationsAreTracked ==
  /\ entry \notin stopped
  /\ \A e \in Animations :
       (run[e] \in {"waiting", "editing"} /\ e \notin stopped) =>
         /\ e = entry
         /\ stopper.at = "no" \/ e \in late
================================================================================
