---------------------------------- MODULE MCChannels ----------------------------------
(* Gateway: one chat, both timeouts and a restart, two wrong codes to a       *)
(* lockout that outlives a code.  Cron: two runs of a job and an eviction.    *)
(* Manager: two messages, their answers and a message nobody asked for.       *)
(* Feedback: one animation found by another send and replaced by a third.     *)
(* Server: one connection more than the limit, two of them in one session.    *)
(* Client: the first dial and two more.  Phone: two lost connections, so that *)
(* one can be lost while the other is restored; MaxRetries is the code's.     *)
(* Mail: a mail, its answer, and the answer to that.  Media: two references   *)
(* that share a file, and one of another file or of the same once it is gone. *)
(* Bot: three units, so that a chunk can be cut twice.                        *)
EXTENDS Channels

CONSTANTS c1, c2, c3, w1, w2

MCSessionOf == [c \in {c1, c2, c3} |-> IF c = c3 THEN w2 ELSE w1]
================================================================================
