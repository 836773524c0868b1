----------------------------- MODULE MCSessionTurns -----------------------------
(* Two messages of one chat: each turn makes at most one Session, so two     *)
(* objects are enough.                                                       *)
EXTENDS SessionTurns
================================================================================
