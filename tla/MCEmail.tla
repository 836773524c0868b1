----------------------------------- MODULE MCEmail -----------------------------------
(* Two mails that come in are enough to name each other. *)
EXTENDS Email

Spec == EInit /\ [][ENext]_evars
========================================================================================
