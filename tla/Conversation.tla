------------------------------ MODULE Conversation ------------------------------
(***************************************************************************)
(* What a conversation is to the user who talks to it, wherever its        *)
(* messages are kept: it tells of the inputs of one turn after another,    *)
(* loses nothing but by /clear, which takes all of it, and nothing is      *)
(* added while /clear is at work.  Keys, summaries, caches, statements     *)
(* that fail, evictions and restarts are SessionHistory's business, which  *)
(* implements this module.                                                 *)
(*                                                                         *)
(* A conversation that is not settled may become anything until it is      *)
(* settled again: SessionHistory says when that is.                        *)
(***************************************************************************)
CONSTANT Inputs

VARIABLES
  told,       (* the inputs the conversation tells of              *)
  turn,       (* the input of the turn at work, if there is one    *)
  clearing,   (* is /clear at work?                                *)
  settled     (* is everybody agreed on what the conversation is?  *)

vars == <<told, turn, clearing, settled>>

Init ==
  /\ told = {} /\ turn = {}
  /\ clearing = FALSE /\ settled = TRUE

(* A turn takes the place of the one before it. *)
Begin(i) ==
  /\ ~clearing
  /\ turn' = {i}
  /\ UNCHANGED <<told, clearing, settled>>

Tell ==
  /\ ~clearing
  /\ told' = told \union turn
  /\ UNCHANGED <<turn, clearing, settled>>

End ==
  /\ turn' = {}
  /\ UNCHANGED <<told, clearing, settled>>

BeginClear ==
  /\ ~clearing /\ clearing'
  /\ turn' = {}
  /\ UNCHANGED <<told, settled>>

Forget ==
  /\ clearing
  /\ told' = {}
  /\ UNCHANGED <<turn, clearing, settled>>

(* /clear ends, or the process does in the middle of it. *)
EndClear ==
  /\ clearing /\ ~clearing'
  /\ turn = {}
  /\ UNCHANGED <<told, turn, settled>>

(* What unsettles a conversation does not change it by itself. *)
Unsettle ==
  /\ ~settled'
  /\ turn' \in SUBSET Inputs /\ clearing' \in BOOLEAN
  /\ UNCHANGED told

Wander ==
  /\ ~settled /\ ~settled'
  /\ told' \in SUBSET Inputs
  /\ turn' \in SUBSET Inputs /\ clearing' \in BOOLEAN

(* A new Session is made from what is stored. *)
Settle ==
  /\ ~settled /\ settled'
  /\ turn' = {} /\ ~clearing'
  /\ UNCHANGED told

Next ==
  \/ settled /\ \/ \E i \in Inputs : Begin(i)
                \/ Tell \/ End
                \/ BeginClear \/ Forget \/ EndClear
                \/ Unsettle
  \/ Wander
  \/ Settle

Spec == Init /\ [][Next]_vars
================================================================================
