------------------------------------- MODULE Email -------------------------------------
(***************************************************************************)
(* pkg/channels/email: the poll of the mailbox, the threads that mails are *)
(* put into, the session a mail is handled in, and the answers sent.       *)
(*                                                                         *)
(* A mail is its number; of its headers only the mail it answers matters,  *)
(* the last of References or In-Reply-To.  A thread is the number of its   *)
(* root.  The servers are external.  The body is fetched without PEEK, so  *)
(* the server sets \Seen on a mail as it sends it.                         *)
(*                                                                         *)
(* Bounds: NumMails incoming mails, MaxSent mails sent, MaxRestarts        *)
(* restarts of the process.                                                *)
(***************************************************************************)
EXTENDS Naturals

CONSTANTS NumMails, MaxSent, MaxRestarts

VARIABLES
  loop,      (* pollLoop: "no", "wait", "fetch", "stuck" in a circle, "over"  *)
  ctxDone,   (* c.ctx is done                                                *)
  mailbox,   (* mailbox[m]: "none", "unseen" or "seen" on the server         *)
  header,    (* header[i]: the mail that mail i answers, 0 for none          *)
  asked,     (* mails of the FETCH that the server has not sent yet          *)
  arrived,   (* mails it has sent that the poll has not come to              *)
  fate,      (* fate[m]: what became of mail m                               *)
  nodes,     (* c.tm.AllMessages                                             *)
  up,        (* up[i]: the parent of node i, 0 for none                      *)
  lastMsg,   (* c.lastMsgByThread: thread -> the mail handled last           *)
  sent,      (* mails sent so far                                            *)
  sending,   (* the mail delivered and not yet registered, 0 for none        *)
  key,       (* history: key[i]: the thread mail i was handled in or answers, *)
             (* 0 when it answers none or it was before a restart            *)
  moved,     (* history: a mail with answers was itself put under another    *)
  restarts

pollVars == <<loop, ctxDone, asked, arrived>>
threadVars == <<nodes, up, lastMsg, key, moved>>
evars == <<pollVars, mailbox, header, fate, threadVars, sent, sending, restarts>>

Mails == 1..NumMails
Ids == 1..(NumMails + MaxSent)
NoMail == 0

EInit ==
  /\ loop = "no" /\ ctxDone = FALSE
  /\ mailbox = [m \in Mails |-> "none"]
  /\ header = [i \in Ids |-> NoMail]
  /\ asked = {} /\ arrived = {}
  /\ fate = [m \in Mails |-> "none"]
  /\ nodes = {} /\ up = [i \in Ids |-> NoMail]
  /\ lastMsg = [i \in Ids |-> NoMail]
  /\ sent = 0 /\ sending = NoMail
  /\ key = [i \in Ids |-> NoMail]
  /\ moved = FALSE
  /\ restarts = 0
--------------------------------------------------------------------------------
(* threading.go *)

(* ProcessHeaders: the node, and a ghost for a parent not seen yet.        *)
LinksTo(m) == header[m] \notin {NoMail, m}

ProcessHeaders(m) ==
  /\ nodes' = nodes \union {m} \union (IF LinksTo(m) THEN {header[m]} ELSE {})
  /\ up' = IF LinksTo(m) THEN [up EXCEPT ![m] = header[m]] ELSE up
  /\ moved' = (moved \/ (LinksTo(m) /\ up[m] # header[m] /\ \E i \in Ids : up[i] = m))

(* The parents above a mail, with itself; in a circle they have no end.    *)
Ancestors(parent, i) ==
  {j \in Ids : \A S \in SUBSET Ids :
     (i \in S /\ \A k \in S : parent[k] \in S \union {NoMail}) => j \in S}

InCircle(parent, i) == \A j \in Ancestors(parent, i) : parent[j] # NoMail

(* ThreadID climbs to the one that has no parent.                          *)
ThreadID(parent, i) == CHOOSE j \in Ancestors(parent, i) : parent[j] = NoMail
--------------------------------------------------------------------------------
(* Someone writes a mail, an answer to a mail that was sent or to any      *)
(* other; only a broken client names the mail itself, or goes in circles.  *)
Arrive(m) ==
  /\ mailbox[m] = "none"
  /\ mailbox' = [mailbox EXCEPT ![m] = "unseen"]
  /\ \E p \in {NoMail} \union {i \in Ids : i <= NumMails + sent} : header' = [header EXCEPT ![m] = p]
  /\ UNCHANGED <<pollVars, fate, threadVars, sent, sending, restarts>>

Start ==
  /\ loop = "no"
  /\ loop' = "wait"
  /\ ctxDone' = FALSE
  /\ UNCHANGED <<asked, arrived, mailbox, header, fate, threadVars, sent, sending, restarts>>

(* Stop cancels the context and does not wait for a poll that is going on. *)
Stop ==
  /\ loop # "no" /\ ~ctxDone
  /\ ctxDone' = TRUE
  /\ UNCHANGED <<loop, asked, arrived, mailbox, header, fate, threadVars, sent, sending, restarts>>

LoopEnds ==
  /\ loop = "wait" /\ ctxDone
  /\ loop' = "over"
  /\ UNCHANGED <<ctxDone, asked, arrived, mailbox, header, fate, threadVars, sent, sending, restarts>>

(* pollIMAP: a poll that cannot connect, log in, select or search changes  *)
(* nothing; otherwise all unseen mails are asked for.  A tick that is due  *)
(* may win against a context that is done.                                 *)
Poll ==
  /\ loop = "wait"
  /\ \E m \in Mails : mailbox[m] = "unseen"
  /\ asked' = {m \in Mails : mailbox[m] = "unseen"}
  /\ loop' = "fetch"
  /\ UNCHANGED <<ctxDone, arrived, mailbox, header, fate, threadVars, sent, sending, restarts>>

ServerSends(m) ==
  /\ m \in asked
  /\ asked' = asked \ {m}
  /\ arrived' = arrived \union {m}
  /\ mailbox' = [mailbox EXCEPT ![m] = "seen"]
  /\ UNCHANGED <<loop, ctxDone, header, fate, threadVars, sent, sending, restarts>>

(* A mail without an envelope or body, a sender or a text is passed over,  *)
(* and so is the answer to an invitation.                                  *)
AfterSkip_Returns == "wait"

AfterSkip == "fetch"

Skip(m) ==
  /\ loop = "fetch" /\ m \in arrived
  /\ arrived' = arrived \ {m}
  /\ fate' = [fate EXCEPT ![m] = "skipped"]
  /\ loop' = AfterSkip
  /\ UNCHANGED <<ctxDone, asked, mailbox, header, threadVars, sent, sending, restarts>>

(* processEmail: the thread, the last mail of the thread, and the mail is  *)
(* handed on: the sender may be blocked, and a publish may fail once the   *)
(* context is done.  The mail is then marked \Seen, which it is already.   *)
Process(m) ==
  /\ loop = "fetch" /\ m \in arrived
  /\ arrived' = arrived \ {m}
  /\ ProcessHeaders(m)
  /\ IF InCircle(up', m)
     THEN loop' = "stuck" /\ UNCHANGED <<lastMsg, key, fate>>
     ELSE /\ lastMsg' = [lastMsg EXCEPT ![ThreadID(up', m)] = m]
          /\ key' = [key EXCEPT ![m] = ThreadID(up', m)]
          /\ \E f \in {"published", "blocked"} \union (IF ctxDone THEN {"failed"} ELSE {}) :
               fate' = [fate EXCEPT ![m] = f]
          /\ UNCHANGED loop
  /\ UNCHANGED <<ctxDone, asked, mailbox, header, sent, sending, restarts>>

(* The FETCH ends, or the connection does; what has arrived is dropped.    *)
FetchEnds ==
  /\ loop = "fetch"
  /\ asked = {} /\ arrived = {}
  /\ loop' = "wait"
  /\ UNCHANGED <<ctxDone, asked, arrived, mailbox, header, fate, threadVars, sent, sending, restarts>>

ConnectionLost ==
  /\ loop = "fetch"
  /\ asked \union arrived # {}
  /\ loop' = "wait"
  /\ asked' = {} /\ arrived' = {}
  /\ fate' = [m \in Mails |-> IF m \in arrived THEN "cut" ELSE fate[m]]
  /\ UNCHANGED <<ctxDone, mailbox, header, threadVars, sent, sending, restarts>>
--------------------------------------------------------------------------------
NextSent == NumMails + sent + 1

(* The last mail handled in the thread is the one to answer. *)
ReplyTarget(t) == IF t = NoMail THEN NoMail ELSE lastMsg[t]

(* A thread lock that is never released stops Send before it is delivered  *)
(* if there is a mail to answer, and after it otherwise.  A server may     *)
(* take the mail and Send still fail: the mail is then not registered.     *)
Deliver(t, ok) ==
  /\ loop # "no" /\ ~ctxDone
  /\ sent < MaxSent /\ sending = NoMail
  /\ loop = "stuck" => ReplyTarget(t) = NoMail
  /\ sent' = sent + 1
  /\ header' = [header EXCEPT ![NextSent] = ReplyTarget(t)]
  /\ sending' = IF ok THEN NextSent ELSE NoMail
  /\ key' = [key EXCEPT ![NextSent] = IF ok THEN t ELSE NoMail]
  /\ UNCHANGED <<pollVars, mailbox, fate, nodes, up, lastMsg, moved, restarts>>

Send(t, ok) == t \in {key[m] : m \in Mails} /\ Deliver(t, ok)

(* SendMedia looks for the mail to answer by the address, as Send does for *)
(* an answer without a session.  Threads are never kept by address, so     *)
(* these start a conversation.                                             *)
SendMedia(ok) == Deliver(NoMail, ok)

Registered_Not == FALSE

Registered == TRUE

Register ==
  /\ sending # NoMail /\ loop # "stuck"
  /\ IF Registered THEN ProcessHeaders(sending) ELSE UNCHANGED <<nodes, up, moved>>
  /\ sending' = NoMail
  /\ UNCHANGED <<pollVars, mailbox, header, fate, lastMsg, key, sent, restarts>>

(* The process ends at any point and is started again: threads are kept in *)
(* memory only.                                                            *)
Restart ==
  /\ loop # "no"
  /\ restarts < MaxRestarts /\ restarts' = restarts + 1
  /\ loop' = "no" /\ ctxDone' = FALSE
  /\ asked' = {} /\ arrived' = {}
  /\ fate' = [m \in Mails |-> IF m \in arrived \/ (mailbox[m] = "seen" /\ fate[m] = "none")
                              THEN "cut" ELSE fate[m]]
  /\ nodes' = {} /\ up' = [i \in Ids |-> NoMail]
  /\ lastMsg' = [i \in Ids |-> NoMail]
  /\ key' = [i \in Ids |-> NoMail]
  /\ moved' = FALSE
  /\ sending' = NoMail
  /\ UNCHANGED <<mailbox, header, sent>>

ENext ==
  \/ \E m \in Mails : Arrive(m) \/ ServerSends(m) \/ Skip(m) \/ Process(m)
  \/ Start \/ Stop \/ LoopEnds \/ Poll \/ FetchEnds \/ ConnectionLost
  \/ \E ok \in BOOLEAN : SendMedia(ok) \/ \E t \in Ids : Send(t, ok)
  \/ Register \/ Restart
--------------------------------------------------------------------------------
ETypeOK ==
  /\ loop \in {"no", "wait", "fetch", "stuck", "over"}
  /\ {ctxDone, moved} \subseteq BOOLEAN
  /\ mailbox \in [Mails -> {"none", "unseen", "seen"}]
  /\ header \in [Ids -> Ids \union {NoMail}]
  /\ asked \subseteq Mails /\ arrived \subseteq Mails \ asked
  /\ fate \in [Mails -> {"none", "published", "blocked", "failed", "skipped", "cut"}]
  /\ nodes \subseteq Ids /\ up \in [Ids -> nodes \union {NoMail}]
  /\ lastMsg \in [Ids -> Mails \union {NoMail}]
  /\ key \in [Ids -> Ids \union {NoMail}]
  /\ sent \in 0..MaxSent /\ sending \in Ids \union {NoMail}
  /\ restarts \in 0..MaxRestarts

(* A mail that the server has marked as seen, and will not show again, has *)
(* been dealt with or is about to be: only a poll cut off in the middle, a *)
(* stop, or a circle of headers loses one.                                 *)
MailIsNotLost ==
  \A m \in Mails :
    mailbox[m] = "seen" /\ fate[m] = "none" => (m \in arrived /\ loop = "fetch") \/ loop = "stuck"

(* A mail that answers another one is handled in the same session as that  *)
(* one was, be it a mail that came in or an answer that was sent for a     *)
(* session; unless a mail of the thread turned up after its answers.       *)
AnswersShareASession ==
  \A m \in Mails :
    (~moved /\ key[m] # NoMail /\ header[m] # NoMail /\ key[header[m]] # NoMail /\ sending = NoMail)
      => key[m] = key[header[m]]

(* threading.go:76, "Guard against duplicate children and circular         *)
(* references": whatever mails name each other as the one they answer, the *)
(* climb from a mail to the root of its thread ends.                       *)
CirclesAreGuarded == \A i \in nodes : ~InCircle(up, i)
================================================================================
