------------------------------ MODULE MCMessageBus ------------------------------
(* Two publishers, two channels.  The first channel insists on a context and *)
(* holds one message, so that the other publisher finds it full; the second  *)
(* holds both messages, so that their order matters.  One call each: the     *)
(* publishers meet each other and Close at every point of a call.            *)
EXTENDS MessageBus

CONSTANTS p1, p2

MCPublishers == {p1, p2}
MCContextChannels == {1}
MCCap == [c \in Channels |-> c]
================================================================================
