---------------------------- MODULE MCConversationLock ----------------------------
(* Two conversations, so that one can be locked out while the file is written *)
(* for the other; two wrong codes make a lockout, and a code runs out before  *)
(* a lockout does.                                                            *)
EXTENDS ConversationLock, TLC

CONSTANTS chat1, chat2

MCSessions == {chat1, chat2}
SessionSymmetry == Permutations(MCSessions)
================================================================================
