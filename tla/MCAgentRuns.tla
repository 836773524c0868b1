--------------------------------- MODULE MCAgentRuns ---------------------------------
(* Turns: two messages of one chat with a /stop or a /clear and an eviction   *)
(* between them; each turn makes at most one Session, so two objects are      *)
(* enough for a Session to be dropped under one turn and made again by the    *)
(* other.  Scheduler: one recurring job; a one-shot job that keeps failing is *)
(* due again at once and may keep another from being claimed.                 *)
EXTENDS AgentRuns

CONSTANT often

MCNames == {often}
MCKind == [n \in Names |-> "cron"]
MCDelay == [n \in Names |-> 2]
======================================================================================
