------------------------------ MODULE BusContract ------------------------------
(***************************************************************************)
(* What pkg/bus promises to the code on both sides of it: each of its Go   *)
(* channels is a bounded FIFO that takes a message at most once, hands it  *)
(* over at most once and in order, and throws messages away only after the *)
(* channel has been closed.  How a publish call interleaves with Close is  *)
(* MessageBus's business; MessageBus implements this module.               *)
(***************************************************************************)
EXTENDS Naturals, Sequences

CONSTANTS
  Channels,     (* the Go channels of one bus                  *)
  Messages,     (* every message any call may ever publish     *)
  Cap           (* Cap[c]: buffer size of channel c            *)

VARIABLES
  accepting,    (* accepting[c]: channel c is not closed yet   *)
  pending,      (* pending[c]: buffered messages, oldest first *)
  handed,       (* handed[c]: messages given to the reader     *)
  seen          (* messages accepted so far                    *)

vars == <<accepting, pending, handed, seen>>

Init ==
  /\ accepting = [c \in Channels |-> TRUE]
  /\ pending = [c \in Channels |-> <<>>]
  /\ handed = [c \in Channels |-> <<>>]
  /\ seen = {}

Accept(c, m) ==
  /\ accepting[c]
  /\ m \notin seen
  /\ Len(pending[c]) < Cap[c]
  /\ pending' = [pending EXCEPT ![c] = Append(@, m)]
  /\ seen' = seen \union {m}
  /\ UNCHANGED <<accepting, handed>>

HandOver(c) ==
  /\ pending[c] # <<>>
  /\ pending' = [pending EXCEPT ![c] = Tail(@)]
  /\ handed' = [handed EXCEPT ![c] = Append(@, Head(pending[c]))]
  /\ UNCHANGED <<accepting, seen>>

Discard(c) ==
  /\ ~accepting[c]
  /\ pending[c] # <<>>
  /\ pending' = [pending EXCEPT ![c] = Tail(@)]
  /\ UNCHANGED <<accepting, handed, seen>>

StopAccepting(c) ==
  /\ accepting[c]
  /\ accepting' = [accepting EXCEPT ![c] = FALSE]
  /\ UNCHANGED <<pending, handed, seen>>

Next ==
  \E c \in Channels :
    \/ \E m \in Messages : Accept(c, m)
    \/ HandOver(c)
    \/ Discard(c)
    \/ StopAccepting(c)

Spec == Init /\ [][Next]_vars
================================================================================
