---------------------------- MODULE MCSessionHistory ----------------------------
(* Two inputs: one to be kept and one whose turn meets or makes a handoff. *)
EXTENDS SessionHistory
================================================================================
