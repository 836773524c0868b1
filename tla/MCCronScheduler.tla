---------------------------- MODULE MCCronScheduler ----------------------------
(* A one-shot job and a recurring one with the shortest schedules: both can  *)
(* be missed while the process is down, come due together and come due again *)
(* while a run goes on.                                                      *)
EXTENDS CronScheduler

CONSTANTS once, often

MCNames == {once, often}
MCKind == [n \in Names |-> IF n = once THEN "at" ELSE "every"]
MCDelay == [n \in Names |-> 1]
MCLongDelay == [n \in Names |-> IF n = once THEN 1 ELSE 2]
================================================================================
