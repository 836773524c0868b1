----------------------------------- MODULE Telegram -----------------------------------
(***************************************************************************)
(* pkg/channels/telegram: an answer put in place of its placeholder or     *)
(* sent in chunks, or media in parts; messages that come in, typing, the   *)
(* registration of the commands, and Start and Stop.                       *)
(*                                                                         *)
(* Telegram is external: a request may be refused, or carried out although *)
(* the caller sees an error.  A text is the interval of its units; a chunk *)
(* of more than one may turn out too long once it is formatted, whatever   *)
(* SplitMessage made of it.                                                *)
(*                                                                         *)
(* Bounds: Length units of text or parts of media, one answer, NumMessages *)
(* incoming messages, each handled in a goroutine of its own.              *)
(***************************************************************************)
EXTENDS Integers, Sequences

CONSTANTS Length, NumMessages

VARIABLES
  life,       (* "no", "running", "stopping" (waits for handlers), "stopped"  *)
  ctxDone,    (* c.ctx is done                                                *)
  register,   (* the registration: "no", "try", "backoff" or "over"           *)
  message,    (* message[m]: where the handler of message m is                *)
  stored,     (* messages whose media are in the media store                  *)
  typing,     (* typing[m]: "off", "on" or "over"                             *)
  answer,     (* where the answer is                                          *)
  queue,      (* Send: the chunks still to be sent                            *)
  replyTo,    (* Send: replyToID is set                                       *)
  unreadable, (* SendMedia: parts whose file it could not open                *)
  shown,      (* the chunks the user sees as messages, in order               *)
  replies,    (* how many of them are replies                                 *)
  edited,     (* the placeholder shows the answer                             *)
  doubtful    (* history: a request was carried out and reported as failed,   *)
              (* or reported as carried out and was not                       *)

lifeVars == <<life, ctxDone, register>>
inVars == <<message, stored, typing>>
outVars == <<answer, queue, replyTo, unreadable, shown, replies, edited, doubtful>>
tvars == <<lifeVars, inVars, outVars>>

Incoming == 1..NumMessages
Whole == <<1, Length>>

TInit ==
  /\ life = "no" /\ ctxDone = FALSE /\ register = "no"
  /\ message = [m \in Incoming |-> "none"]
  /\ stored = {}
  /\ typing = [m \in Incoming |-> "off"]
  /\ answer = "none" /\ queue = <<>>
  /\ replyTo = FALSE /\ unreadable = {}
  /\ shown = <<>> /\ replies = 0
  /\ edited = FALSE /\ doubtful = FALSE
--------------------------------------------------------------------------------
(* Start fails when polling cannot begin; then the context is cancelled.   *)
Start ==
  /\ life = "no" /\ ~ctxDone
  /\ \/ life' = "running" /\ register' = "try" /\ UNCHANGED ctxDone
     \/ ctxDone' = TRUE /\ UNCHANGED <<life, register>>
  /\ UNCHANGED <<inVars, outVars>>

(* startCommandRegistration: until it works, or the channel is stopped.    *)
TryRegister ==
  /\ register = "try"
  /\ register' \in {"over", "backoff"}
  /\ UNCHANGED <<life, ctxDone, inVars, outVars>>

RegisterAgain ==
  /\ register = "backoff"
  /\ register' \in {"try"} \union (IF ctxDone THEN {"over"} ELSE {})
  /\ UNCHANGED <<life, ctxDone, inVars, outVars>>

(* Stop waits for the handlers until its own context ends, then cancels.   *)
StopBegins ==
  /\ life = "running"
  /\ life' = "stopping"
  /\ UNCHANGED <<ctxDone, register, inVars, outVars>>

StopEnds ==
  /\ life = "stopping"
  /\ life' = "stopped"
  /\ ctxDone' = TRUE
  /\ UNCHANGED <<register, inVars, outVars>>
--------------------------------------------------------------------------------
(* handleMessage: the allow list, the media, an empty message, the group   *)
(* filter, the quoted message with its media, and the message is handed on.*)
Receive(m) ==
  /\ life = "running" /\ message[m] = "none"
  /\ \E at \in {"blocked", "media"} : message' = [message EXCEPT ![m] = at]
  /\ UNCHANGED <<lifeVars, stored, typing, outVars>>

(* A download that fails leaves nothing, the message goes on without it.   *)
Stored(m) == {stored, stored \union {m}}

StoreMedia(m) ==
  /\ message[m] = "media"
  /\ stored' \in Stored(m)
  /\ \E at \in {"ignored", "quoted"} : message' = [message EXCEPT ![m] = at]
  /\ UNCHANGED <<lifeVars, typing, outVars>>

(* The voice and audio of the message that is quoted come first. *)
Quote(m) ==
  /\ message[m] = "quoted"
  /\ stored' \in Stored(m)
  /\ message' = [message EXCEPT ![m] = "hand_on"]
  /\ UNCHANGED <<lifeVars, typing, outVars>>

(* The publish comes with the typing indicator, which every handled        *)
(* message starts; a publish may fail once the context is done.            *)
HandOn(m) ==
  /\ message[m] = "hand_on"
  /\ \E at \in {"published"} \union (IF ctxDone THEN {"failed"} ELSE {}) :
       message' = [message EXCEPT ![m] = at]
  /\ typing' = [typing EXCEPT ![m] = "on"]
  /\ UNCHANGED <<lifeVars, stored, outVars>>

(* The indicator ends when it is stopped, with the context, or after       *)
(* maxTypingDuration.                                                      *)
TypingEnds(m) ==
  /\ typing[m] = "on"
  /\ typing' = [typing EXCEPT ![m] = "over"]
  /\ UNCHANGED <<lifeVars, message, stored, outVars>>
--------------------------------------------------------------------------------
(* An answer comes: the Manager edits the placeholder if there is one, or  *)
(* the answer is a message of media, which clears nothing.                 *)
Answer ==
  /\ answer = "none"
  /\ answer' \in {"edit", "send", "media"}
  /\ replyTo' \in IF answer' = "media" THEN {FALSE} ELSE BOOLEAN
  /\ UNCHANGED <<lifeVars, inVars, queue, unreadable, shown, replies, edited, doubtful>>

(* EditMessage: what the request did and what is said of it.               *)
Outcomes ==
  {[done |-> TRUE, says |-> "ok"], [done |-> FALSE, says |-> "bad_request"]}
    \union [done : BOOLEAN, says : {"reset", "timeout", "other"}]

IsPostConnectError(says) == says = "reset"

EditEnds(o) == answer' = IF o.says = "ok" \/ IsPostConnectError(o.says) THEN "done" ELSE "send"

(* A text that Telegram cannot parse is edited in as plain text; a text    *)
(* already there is not modified and counts as done.                       *)
Edit(o) ==
  /\ answer \in {"edit", "edit_plain"}
  /\ edited' = (edited \/ o.done)
  /\ IF answer = "edit" /\ o.says = "bad_request" THEN answer' = "edit_plain" ELSE EditEnds(o)
  /\ doubtful' = (doubtful \/ (o.says \in {"timeout", "other"} /\ o.done) \/ (o.says = "reset" /\ ~o.done))
  /\ UNCHANGED <<lifeVars, inVars, queue, replyTo, unreadable, shown, replies>>

SendBegins ==
  /\ answer = "send"
  /\ IF life = "running" THEN answer' = "chunks" /\ queue' = <<Whole>>
                         ELSE answer' = "failed" /\ UNCHANGED queue
  /\ UNCHANGED <<lifeVars, inVars, replyTo, unreadable, shown, replies, edited, doubtful>>

Requeue_AtTheBack(rest, parts) == rest \o parts

Requeue(rest, parts) == parts \o rest

(* A chunk that is too long is cut and its parts are put back in front.    *)
Cut(k) ==
  LET chunk == Head(queue)
  IN /\ answer = "chunks" /\ queue # <<>>
     /\ chunk[1] <= k /\ k < chunk[2]
     /\ queue' = Requeue(Tail(queue), <<<<chunk[1], k>>, <<k + 1, chunk[2]>>>>)
     /\ UNCHANGED <<lifeVars, inVars, answer, replyTo, unreadable, shown, replies, edited, doubtful>>

Appear(n) ==
  /\ shown' = shown \o [i \in 1..n |-> Head(queue)]
  /\ replies' = IF replyTo THEN replies + n ELSE replies

(* sendChunk: formatted, and as plain text after any error; when that      *)
(* fails too Send gives up, and the chunks sent before stay.               *)
SendChunk(first, second) ==
  /\ answer = "chunks" /\ queue # <<>>
  /\ IF first.says = "ok" THEN Appear(1)
     ELSE Appear((IF first.done THEN 1 ELSE 0) + (IF second.done THEN 1 ELSE 0))
  /\ IF first.says = "ok" \/ second.says = "ok"
     THEN queue' = Tail(queue) /\ replyTo' = FALSE /\ UNCHANGED answer
     ELSE answer' = "failed" /\ UNCHANGED <<queue, replyTo>>
  /\ doubtful' = (doubtful \/ (first.says # "ok" /\ (first.done \/ (second.done /\ second.says # "ok"))))
  /\ UNCHANGED <<lifeVars, inVars, unreadable, edited>>

(* SendMedia: the parts one after the other. *)
SendMedia ==
  /\ answer = "media"
  /\ IF life = "running" THEN answer' = "parts" /\ queue' = [i \in 1..Length |-> <<i, i>>]
                         ELSE answer' = "failed" /\ UNCHANGED queue
  /\ UNCHANGED <<lifeVars, inVars, replyTo, unreadable, shown, replies, edited, doubtful>>

(* A part whose reference does not resolve, or whose file is gone, is left *)
(* out.                                                                    *)
SkipPart ==
  /\ answer = "parts" /\ queue # <<>>
  /\ unreadable' = unreadable \union {Head(queue)[1]}
  /\ queue' = Tail(queue)
  /\ UNCHANGED <<lifeVars, inVars, answer, replyTo, shown, replies, edited, doubtful>>

(* A photo that is refused for its dimensions is sent as a document, so    *)
(* the request that counts is the last.  An error ends the whole message.  *)
SendPart(o) ==
  /\ answer = "parts" /\ queue # <<>>
  /\ Appear(IF o.done THEN 1 ELSE 0)
  /\ IF o.says = "ok" THEN queue' = Tail(queue) /\ UNCHANGED answer
     ELSE answer' = "failed" /\ UNCHANGED queue
  /\ doubtful' = (doubtful \/ (o.done /\ o.says # "ok"))
  /\ UNCHANGED <<lifeVars, inVars, replyTo, unreadable, edited>>

SendEnds ==
  /\ answer \in {"chunks", "parts"} /\ queue = <<>>
  /\ answer' = "done"
  /\ UNCHANGED <<lifeVars, inVars, queue, replyTo, unreadable, shown, replies, edited, doubtful>>

TNext ==
  \/ Start \/ TryRegister \/ RegisterAgain \/ StopBegins \/ StopEnds
  \/ \E m \in Incoming : Receive(m) \/ StoreMedia(m) \/ Quote(m) \/ HandOn(m) \/ TypingEnds(m)
  \/ Answer \/ SendBegins \/ SendMedia \/ SkipPart \/ SendEnds
  \/ \E o \in Outcomes : Edit(o) \/ SendPart(o)
  \/ \E k \in 1..Length : Cut(k)
  \/ \E first, second \in Outcomes : SendChunk(first, second)
--------------------------------------------------------------------------------
Chunks == {c \in (1..Length) \X (1..Length) : c[1] <= c[2]}

TTypeOK ==
  /\ life \in {"no", "running", "stopping", "stopped"}
  /\ {ctxDone, replyTo, edited, doubtful} \subseteq BOOLEAN
  /\ register \in {"no", "try", "backoff", "over"}
  /\ message \in [Incoming -> {"none", "blocked", "media", "ignored", "quoted", "hand_on",
                             "published", "failed"}]
  /\ stored \subseteq Incoming
  /\ typing \in [Incoming -> {"off", "on", "over"}]
  /\ answer \in {"none", "edit", "edit_plain", "send", "chunks", "media", "parts", "done", "failed"}
  /\ unreadable \subseteq 1..Length
  /\ queue \in Seq(Chunks) /\ shown \in Seq(Chunks)
  /\ replies \in 0..Len(shown)

(* Unless a request was carried out and reported as failed, or the other   *)
(* way about, the user sees an answer that is done exactly once and whole, *)
(* in place of the placeholder or as messages in the order of the text or  *)
(* of the parts, but for parts that could not be read; what is seen of one *)
(* that failed is a beginning of it; and only the first chunk is a reply.  *)
AnswerShownOnce ==
  LET Dealt == unreadable \union UNION {shown[i][1]..shown[i][2] : i \in 1..Len(shown)}
  IN ~doubtful =>
       /\ \A i, j \in 1..Len(shown) : i < j => shown[i][2] < shown[j][1]
       /\ \E n \in 0..Length : Dealt = 1..n
       /\ edited => shown = <<>>
       /\ answer = "done" => (edited \/ Dealt = 1..Length)
       /\ replies <= 1
================================================================================
