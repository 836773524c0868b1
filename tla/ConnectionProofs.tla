------------------------------- MODULE ConnectionProofs -------------------------------
(***************************************************************************)
(* What the channels promise of their connections and of what comes        *)
(* through them, for any number of connections, dials, mails, files and    *)
(* losses: both ends of the WebSocket, e-mail, the media store, WhatsApp.  *)
(* Each part has an invariant of its own, kept by the part's steps and     *)
(* left alone by those of the others.                                      *)
(***************************************************************************)
EXTENDS Channels, FiniteSetTheorems, TLAPS

(* A step of the composition is one of a part or leaves the part alone. *)
LEMMA StepOfAConnection ==
  [Next]_chVars =>
    /\ Server!WNext \/ UNCHANGED wVars
    /\ Client!CNext \/ UNCHANGED cVars
    /\ Mail!ENext \/ UNCHANGED eVars
    /\ Media!MNext \/ UNCHANGED mVars
    /\ Phone!ANext \/ UNCHANGED aVars
  BY DEF Next, chVars, GatewayStep, CronStep, ManagerStep, FeedbackStep, ServerStep,
         ClientStep, PhoneStep, MailStep, MediaStep, BotStep

--------------------------------------------------------------------------------
(* Both ends of the WebSocket *)

(* What is known of the server's sets. *)
ServerKinds ==
  /\ wConnections \subseteq Conns /\ IsFiniteSet(wConnections)
  /\ wPc \in [Conns -> {"none", "upgraded", "loop", "reading", "handling", "closing",
                       "removing", "gone"}]
  /\ wBySession \in [WsSessions -> SUBSET Conns]

(* Stop takes the connections once. *)
TakenOnce == wStop \in {"no", "take"} => wTaken = {}

ServerInv == ServerKinds /\ TakenOnce /\ Server!ConnectionsAreServed

(* The instance counts as the theorems on finite sets do. *)
LEMMA ServerCounts == ASSUME NEW S PROVE Server!Cardinality(S) = Cardinality(S)
  BY DEF Server!Cardinality, Cardinality

(* The invariant holds before the first connection. *)
LEMMA InitServer == WsAssumption /\ Server!WInit => ServerInv
  BY FS_EmptySet, ServerCounts
  DEF WsAssumption, Server!WInit, ServerInv, ServerKinds, TakenOnce,
      Server!ConnectionsAreServed

(* A connection comes in: the limit is looked at again under the lock.     *)
LEMMA ComingIn ==
  ASSUME WsAssumption, ServerInv, NEW c \in Conns,
         Server!Connect(c) \/ Server!CreateAndAddConnection(c)
  PROVE  ServerInv'
<1> USE DEF WsAssumption, ServerInv, ServerKinds, TakenOnce, Server!ConnectionsAreServed,
            Server!Goto, Server!indexes
<1>1. CASE Server!Connect(c)
  BY <1>1 DEF Server!Connect
<1>2. CASE Server!CreateAndAddConnection(c) /\ wConnections' = wConnections \union {c}
  <2>1. /\ wPc[c] = "upgraded" /\ Server!Cardinality(wConnections) < MaxConnections
        /\ wBySession' = [wBySession EXCEPT ![SessionOf[c]] = @ \union {c}]
        /\ wPc' = [wPc EXCEPT ![c] = "loop"]
        /\ UNCHANGED <<wClosed, wTaken, wStop>>
    BY <1>2 DEF Server!CreateAndAddConnection, Server!HasRoom
  <2>2. /\ IsFiniteSet(wConnections')
        /\ Server!Cardinality(wConnections') <= MaxConnections
    <3> DEFINE n == Cardinality(wConnections)
               m == Cardinality(wConnections \union {c})
    <3>1. /\ n \in Nat /\ n < MaxConnections
          /\ IsFiniteSet(wConnections \union {c}) /\ (m = n \/ m = n + 1)
      BY <2>1, FS_AddElement, FS_CardinalityType, ServerCounts
    <3> HIDE DEF n
    <3>2. m <= MaxConnections
      BY <3>1
    <3>q. QED BY <1>2, <3>1, <3>2, ServerCounts
  <2>3. ServerKinds' /\ TakenOnce'
    BY <1>2, <2>1, <2>2
  <2>4. \A d \in Conns, s \in WsSessions :
          d \in wBySession'[s] <=> d \in wConnections' /\ SessionOf[d] = s
    BY <1>2, <2>1
  <2>5. \A d \in wConnections' : 
          wPc'[d] \in {"loop", "reading", "handling", "closing", "removing"}
    BY <1>2, <2>1
  <2>6. \A d \in Conns :
          (wPc'[d] \in {"loop", "reading", "handling"} /\ d \notin wClosed') =>
            d \in wConnections' \union wTaken'
    BY <1>2, <2>1
  <2>q. QED BY <2>2, <2>3, <2>4, <2>5, <2>6
<1>3. CASE Server!CreateAndAddConnection(c) /\ UNCHANGED <<wConnections, wBySession>>
  BY <1>3 DEF Server!CreateAndAddConnection
<1>q. QED BY <1>1, <1>2, <1>3 DEF Server!CreateAndAddConnection

(* The read loop, and its end: close, then leave the indexes.              *)
LEMMA Serving ==
  ASSUME WsAssumption, ServerInv, NEW c \in Conns,
         \/ Server!CheckContext(c) \/ Server!ReadMessage(c) \/ Server!HandleMessage(c)
         \/ Server!ReadFails(c) \/ Server!Close(c) \/ Server!RemoveConnection(c)
  PROVE  ServerInv'
<1> USE DEF WsAssumption, ServerInv, ServerKinds, TakenOnce, Server!ConnectionsAreServed,
            Server!Goto, Server!indexes
<1>1. CASE Server!CheckContext(c)
  BY <1>1 DEF Server!CheckContext, Server!AfterContextCheck
<1>2. CASE Server!ReadMessage(c)
  BY <1>2 DEF Server!ReadMessage
<1>3. CASE Server!HandleMessage(c)
  BY <1>3 DEF Server!HandleMessage
<1>4. CASE Server!ReadFails(c)
  BY <1>4 DEF Server!ReadFails
<1>5. CASE Server!Close(c)
  BY <1>5 DEF Server!Close
<1>6. CASE Server!RemoveConnection(c)
  <2>1. /\ wPc[c] = "removing" /\ wPc' = [wPc EXCEPT ![c] = "gone"]
        /\ wConnections' = wConnections \ {c}
        /\ wBySession' = IF c \in wConnections
                         THEN [wBySession EXCEPT ![SessionOf[c]] = @ \ {c}] ELSE wBySession
        /\ UNCHANGED <<wClosed, wTaken, wStop>>
    BY <1>6 DEF Server!RemoveConnection
  <2>2. /\ IsFiniteSet(wConnections')
        /\ Server!Cardinality(wConnections') <= MaxConnections
    <3> DEFINE n == Cardinality(wConnections)
               m == Cardinality(wConnections \ {c})
    <3>1. /\ n \in Nat /\ n <= MaxConnections
          /\ IsFiniteSet(wConnections \ {c}) /\ (m = n \/ m = n - 1)
      BY FS_RemoveElement, FS_CardinalityType, ServerCounts
    <3> HIDE DEF n
    <3>2. m <= MaxConnections
      BY <3>1
    <3>q. QED BY <2>1, <3>1, <3>2, ServerCounts
  <2>3. ServerKinds' /\ TakenOnce'
    BY <2>1, <2>2
  <2>4. \A d \in Conns, s \in WsSessions :
          d \in wBySession'[s] <=> d \in wConnections' /\ SessionOf[d] = s
    BY <2>1
  <2>5. \A d \in wConnections' : 
          wPc'[d] \in {"loop", "reading", "handling", "closing", "removing"}
    BY <2>1
  <2>6. \A d \in Conns :
          (wPc'[d] \in {"loop", "reading", "handling"} /\ d \notin wClosed') =>
            d \in wConnections' \union wTaken'
    BY <2>1
  <2>q. QED BY <2>2, <2>3, <2>4, <2>5, <2>6
<1>q. QED BY <1>1, <1>2, <1>3, <1>4, <1>5, <1>6

(* Stop empties both indexes and owes a close to each that it has taken.   *)
LEMMA ServerStops == WsAssumption /\ ServerInv /\ Server!Stop => ServerInv'
<1> SUFFICES ASSUME WsAssumption, ServerInv, Server!Stop PROVE ServerInv'
  OBVIOUS
<1> USE DEF WsAssumption, ServerInv, ServerKinds, TakenOnce, Server!ConnectionsAreServed,
            Server!indexes
<1>1. CASE Server!StopRunning
  BY <1>1 DEF Server!StopRunning
<1>2. CASE Server!TakeAllConnections
  <2>1. IsFiniteSet(wConnections') /\ Server!Cardinality(wConnections') <= MaxConnections
    BY <1>2, FS_EmptySet, ServerCounts DEF Server!TakeAllConnections
  <2>q. QED BY <1>2, <2>1 DEF Server!TakeAllConnections
<1>3. CASE Server!CloseTaken
  BY <1>3 DEF Server!CloseTaken
<1>q. QED BY <1>1, <1>2, <1>3 DEF Server!Stop

(* Every step of the server keeps its invariant. *)
LEMMA NextServer ==
  ASSUME WsAssumption, ServerInv, Server!WNext \/ UNCHANGED wVars
  PROVE  ServerInv'
<1>1. CASE UNCHANGED wVars
  BY <1>1 DEF wVars, ServerInv, ServerKinds, TakenOnce, Server!ConnectionsAreServed
<1>2. CASE Server!WNext
  BY <1>2, ComingIn, Serving, ServerStops DEF Server!WNext, Server!Serve, Server!ReadMustFail
<1>q. QED BY <1>1, <1>2

(* The client dials again only when its connection is closed. *)
ClientInv ==
  /\ cReader \in [Client!Dials -> {"none", "loop", "reading", "closing", "gone"}]
  /\ cClosed \in [Client!Dials -> BOOLEAN]
  /\ cLoop \in {"start", "dialled", "dial", "backoff"} =>
       \A k \in Client!Dials : cReader[k] \in {"loop", "reading"} => cClosed[k]
  /\ Client!OneConnection

(* The invariant holds before the first dial. *)
LEMMA InitClient == Client!CInit => ClientInv
  BY DEF Client!CInit, ClientInv, Client!OneConnection

(* The steps of the reconnect loop, of Stop and of the read loops. *)
LEMMA NextClient ==
  ASSUME ClientInv, Client!CNext \/ UNCHANGED cVars
  PROVE  ClientInv'
<1> USE DEF ClientInv, Client!OneConnection
<1>1. CASE UNCHANGED cVars
  BY <1>1 DEF cVars
<1>2. CASE Client!DialFails
  BY <1>2 DEF Client!DialFails
<1>3. CASE Client!DialSucceeds
  BY <1>3 DEF Client!DialSucceeds
<1>4. CASE Client!Keep
  BY <1>4 DEF Client!Keep
<1>5. CASE Client!Reconnect
  BY <1>5 DEF Client!Reconnect
<1>6. CASE Client!StopCancels \/ Client!StopCloses
  BY <1>6 DEF Client!StopCancels, Client!StopCloses
<1>7. ASSUME NEW k \in Client!Dials,
             \/ Client!CheckContext(k) \/ Client!ReadMessage(k)
             \/ Client!ReadFails(k) \/ Client!CloseConn(k)
      PROVE  ClientInv'
  BY <1>7 DEF Client!CheckContext, Client!AfterCheck, Client!ReadMessage, Client!ReadFails,
              Client!CloseConn
<1>q. QED BY <1>1, <1>2, <1>3, <1>4, <1>5, <1>6, <1>7
          DEF Client!CNext, Client!Loop, Client!CServe, Client!ReadMustFail

(* Of the server's connections each is known, counted and served; of the   *)
(* client's only one is open.                                              *)
THEOREM ConnectionsStayServed == Spec => []ConnectionsAreServed
<1>0. WsAssumption
  BY PartsAssumption
<1>1. Init => ServerInv /\ ClientInv
  BY <1>0, InitServer, InitClient DEF Init
<1>2. ServerInv /\ ClientInv /\ [Next]_chVars => ServerInv' /\ ClientInv'
  BY <1>0, StepOfAConnection, NextServer, NextClient
<1>3. ServerInv /\ ClientInv => ConnectionsAreServed
  BY DEF ServerInv, ClientInv, ConnectionsAreServed
<1>q. QED BY <1>1, <1>2, <1>3, PTL DEF Spec

--------------------------------------------------------------------------------
(* E-mail *)

(* What is known of the mails of a poll. *)
MailKinds ==
  /\ eMailbox \in [Mail!Mails -> {"none", "unseen", "seen"}]
  /\ eFate \in [Mail!Mails -> {"none", "published", "blocked", "failed", "skipped", "cut"}]
  /\ eAsked \subseteq Mail!Mails /\ eArrived \subseteq Mail!Mails

(* Mails are on their way only while a poll is going on. *)
PollHasBegun == eAsked \union eArrived # {} => eLoop \in {"fetch", "stuck"}

EInv == MailKinds /\ PollHasBegun /\ Mail!MailIsNotLost

(* The invariant holds before the first poll. *)
LEMMA InitEInv == Mail!EInit => EInv
  BY DEF Mail!EInit, EInv, MailKinds, PollHasBegun, Mail!MailIsNotLost

(* The steps of the poll for one mail: it arrives, and then it is passed   *)
(* over or processed.                                                      *)
LEMMA OneMailStep ==
  ASSUME EInv, NEW m \in Mail!Mails,
         Mail!Arrive(m) \/ Mail!ServerSends(m) \/ Mail!Skip(m) \/ Mail!Process(m)
  PROVE  EInv'
<1> USE DEF EInv, MailKinds, PollHasBegun, Mail!MailIsNotLost, Mail!pollVars,
            Mail!threadVars
<1>1. CASE Mail!Arrive(m)
  BY <1>1 DEF Mail!Arrive
<1>2. CASE Mail!ServerSends(m)
  BY <1>2 DEF Mail!ServerSends
<1>3. CASE Mail!Skip(m)
  BY <1>3 DEF Mail!Skip, Mail!AfterSkip
<1>4. CASE Mail!Process(m)
  <2>1. /\ eLoop = "fetch" /\ m \in eArrived
        /\ eArrived' = eArrived \ {m}
        /\ UNCHANGED <<eAsked, eMailbox>>
    BY <1>4 DEF Mail!Process
  <2>2. CASE eLoop' = "stuck" /\ UNCHANGED eFate
    BY <2>1, <2>2
  <2>3. CASE /\ \E f \in {"published", "blocked", "failed"} :
                  eFate' = [eFate EXCEPT ![m] = f]
             /\ UNCHANGED eLoop
    BY <2>1, <2>3
  <2>q. QED BY <1>4, <2>2, <2>3 DEF Mail!Process
<1>q. QED BY <1>1, <1>2, <1>3, <1>4

(* The steps of the poll as a whole, of Start and of Stop. *)
LEMMA PollStep ==
  ASSUME EInv,
         \/ Mail!Start \/ Mail!Stop \/ Mail!LoopEnds
         \/ Mail!Poll \/ Mail!FetchEnds \/ Mail!ConnectionLost
  PROVE  EInv'
<1> USE DEF EInv, MailKinds, PollHasBegun, Mail!MailIsNotLost, Mail!pollVars,
            Mail!threadVars
<1>1. CASE Mail!Start
  BY <1>1 DEF Mail!Start
<1>2. CASE Mail!Stop
  BY <1>2 DEF Mail!Stop
<1>3. CASE Mail!LoopEnds
  BY <1>3 DEF Mail!LoopEnds
<1>4. CASE Mail!Poll
  BY <1>4 DEF Mail!Poll
<1>5. CASE Mail!FetchEnds
  BY <1>5 DEF Mail!FetchEnds
<1>6. CASE Mail!ConnectionLost
  BY <1>6 DEF Mail!ConnectionLost
<1>q. QED BY <1>1, <1>2, <1>3, <1>4, <1>5, <1>6

(* Answers leave the poll alone. *)
LEMMA MailAnswerStep ==
  ASSUME EInv,
         \/ Mail!Register
         \/ \E ok \in BOOLEAN : \/ Mail!SendMedia(ok)
                               \/ \E t \in Mail!Ids : Mail!Send(t, ok)
  PROVE  EInv'
<1>1. UNCHANGED <<eMailbox, eFate, eAsked, eArrived, eLoop>>
  BY DEF Mail!Register, Mail!SendMedia, Mail!Send, Mail!Deliver, Mail!pollVars
<1>q. QED BY <1>1 DEF EInv, MailKinds, PollHasBegun, Mail!MailIsNotLost

(* What a restart cuts off is counted as cut off. *)
LEMMA MailRestartStep == EInv /\ Mail!Restart => EInv'
  BY DEF Mail!Restart, EInv, MailKinds, PollHasBegun, Mail!MailIsNotLost

(* Every step keeps the invariant. *)
LEMMA NextEInv == EInv /\ (Mail!ENext \/ UNCHANGED eVars) => EInv'
<1>1. ASSUME EInv, UNCHANGED eVars PROVE EInv'
  BY <1>1 DEF eVars, EInv, MailKinds, PollHasBegun, Mail!MailIsNotLost
<1>q. QED BY <1>1, OneMailStep, PollStep, MailAnswerStep, MailRestartStep DEF Mail!ENext

(* A mail that is marked as seen has been dealt with or is about to be,    *)
(* unless a poll was cut off or the headers go in a circle.                *)
THEOREM MailsAreNotLost == Spec => []MailIsNotLost
<1>1. Init => EInv
  BY InitEInv DEF Init
<1>2. EInv /\ [Next]_chVars => EInv'
  BY StepOfAConnection, NextEInv
<1>3. EInv => MailIsNotLost
  BY DEF EInv, MailIsNotLost
<1>q. QED BY <1>1, <1>2, <1>3, PTL DEF Spec

--------------------------------------------------------------------------------
(* The threads of mails *)

Parents == [Mail!Ids -> Mail!Ids \union {Mail!NoMail}]

(* The root of a mail's thread is above it. *)
Rooted(parent, i, r) == r \in Mail!Ancestors(parent, i) /\ parent[r] = Mail!NoMail

(* A mail that has not arrived or has not been sent has no headers yet. *)
HeadersCome ==
  /\ \A m \in Mail!Mails : eMailbox[m] = "none" => eHeader[m] = Mail!NoMail
  /\ \A i \in Mail!Ids : i > NumMails + eSent => eHeader[i] = Mail!NoMail

(* The links follow the headers. *)
LinksAreHeaders == \A i \in Mail!Ids : eUp[i] # Mail!NoMail => eUp[i] = eHeader[i] /\ eHeader[i] # i

(* A mail is handled once it has been sent by the server, and once only. *)
HandledOnce ==
  /\ \A m \in Mail!Mails : eKey[m] # Mail!NoMail => eMailbox[m] = "seen" /\ m \notin eAsked \union eArrived
  /\ \A m \in eAsked : eMailbox[m] = "unseen"
  /\ \A m \in eArrived : eMailbox[m] = "seen"

(* The last mail of a thread was handled in it. *)
LastOfThread ==
  /\ \A t \in Mail!Ids : eLastMsg[t] # Mail!NoMail => eKey[eLastMsg[t]] = t
  /\ \A m \in Mail!Mails : eKey[m] # Mail!NoMail => eLastMsg[eKey[m]] # Mail!NoMail

(* A mail being sent for a session answers one of that session. *)
SendingAnswers ==
  eSending # Mail!NoMail =>
    /\ eSending > NumMails
    /\ eKey[eSending] # Mail!NoMail => eHeader[eSending] \in Mail!Mails /\ eKey[eHeader[eSending]] = eKey[eSending]

(* Each mail of a session is linked, and the session is its root. *)
KeysAreRoots ==
  eMoved \/ \A i \in Mail!Ids : (eKey[i] # Mail!NoMail /\ i # eSending) =>
              Rooted(eUp, i, eKey[i]) /\ (Mail!LinksTo(i) => eUp[i] = eHeader[i])

(* A poll that does not end has met a circle of headers. *)
StuckInCircle == eLoop = "stuck" => \E m \in Mail!Mails : eHeader[m] # m /\ Mail!InCircle(eHeader, m)

ThreadInv ==
  /\ Mail!ETypeOK /\ HeadersCome /\ LinksAreHeaders /\ HandledOnce /\ LastOfThread
  /\ SendingAnswers /\ KeysAreRoots /\ StuckInCircle

(* A mail is among its ancestors.                                          *)
LEMMA Selves == ASSUME NEW p \in Parents, NEW i \in Mail!Ids PROVE i \in Mail!Ancestors(p, i)
  BY DEF Mail!Ancestors

(* Who an ancestor answers is an ancestor.                                 *)
LEMMA Upwards ==
  ASSUME NEW p \in Parents, NEW i \in Mail!Ids, NEW j \in Mail!Ancestors(p, i), p[j] # Mail!NoMail
  PROVE  j \in Mail!Ids /\ p[j] \in Mail!Ancestors(p, i)
<1>1. j \in Mail!Ids /\ p[j] \in Mail!Ids
  BY DEF Mail!Ancestors, Parents
<1>2. ASSUME NEW S \in SUBSET Mail!Ids, i \in S, \A k \in S : p[k] \in S \union {Mail!NoMail}
      PROVE  p[j] \in S
  <2>1. j \in S
    BY <1>2 DEF Mail!Ancestors
  <2>q. QED BY <1>2, <2>1
<1>q. QED BY <1>1, <1>2 DEF Mail!Ancestors

(* There are no other ancestors than those that can be reached.            *)
LEMMA Least ==
  ASSUME NEW p \in Parents, NEW i \in Mail!Ids, NEW S \in SUBSET Mail!Ids, i \in S,
         \A k \in S : p[k] # Mail!NoMail => p[k] \in S
  PROVE  Mail!Ancestors(p, i) \subseteq S
<1>1. \A k \in S : p[k] \in S \union {Mail!NoMail}
  OBVIOUS
<1>q. QED BY <1>1 DEF Mail!Ancestors

(* Ancestors of an ancestor are ancestors.                                 *)
LEMMA AboveAbove ==
  ASSUME NEW p \in Parents, NEW i \in Mail!Ids, NEW h \in Mail!Ancestors(p, i)
  PROVE  h \in Mail!Ids /\ Mail!Ancestors(p, h) \subseteq Mail!Ancestors(p, i)
<1>1. Mail!Ancestors(p, i) \in SUBSET Mail!Ids
  BY DEF Mail!Ancestors
<1>2. \A k \in Mail!Ancestors(p, i) : p[k] # Mail!NoMail => p[k] \in Mail!Ancestors(p, i)
  BY Upwards
<1>q. QED BY <1>1, <1>2, Least

(* A thread has one root.                                                  *)
LEMMA OneRoot ==
  ASSUME NEW p \in Parents, NEW i \in Mail!Ids, NEW r, NEW s, Rooted(p, i, r), Rooted(p, i, s)
  PROVE  r = s
<1>0. r \in Mail!Ids /\ s \in Mail!Ids /\ p[r] = Mail!NoMail /\ p[s] = Mail!NoMail /\ Mail!Ancestors(p, i) \subseteq Mail!Ids
  BY DEF Rooted, Mail!Ancestors
<1>1. PICK S \in SUBSET Mail!Ids : S = {j \in Mail!Ancestors(p, i) : r \in Mail!Ancestors(p, j)}
  BY <1>0
<1>2. ASSUME NEW j \in S, p[j] # Mail!NoMail PROVE p[j] \in S
  <2>1. j \in Mail!Ids /\ p[j] \in Mail!Ids /\ p[j] \in Mail!Ancestors(p, i)
    BY <1>1, <1>2, Upwards DEF Parents
  <2>2. PICK T \in SUBSET Mail!Ids : T = {j} \union Mail!Ancestors(p, p[j])
    <3>1. Mail!Ancestors(p, p[j]) \subseteq Mail!Ids
      BY DEF Mail!Ancestors
    <3>q. QED BY <2>1, <3>1
  <2>3. \A k \in T : p[k] # Mail!NoMail => p[k] \in T
    <3>1. p[j] \in T
      BY <2>1, <2>2, Selves
    <3>2. \A k \in Mail!Ancestors(p, p[j]) : p[k] # Mail!NoMail => p[k] \in Mail!Ancestors(p, p[j])
      BY <2>1, Upwards
    <3>q. QED BY <2>2, <3>1, <3>2
  <2>4. Mail!Ancestors(p, j) \subseteq T
    BY <2>1, <2>2, <2>3, Least
  <2>q. QED BY <1>0, <1>1, <1>2, <2>1, <2>2, <2>4
<1>3. i \in S
  BY <1>1, Selves DEF Rooted
<1>4. s \in S
  BY <1>2, <1>3, Least DEF Rooted
<1>5. Mail!Ancestors(p, s) \subseteq {s}
  <2>1. {s} \in SUBSET Mail!Ids /\ \A k \in {s} : p[k] # Mail!NoMail => p[k] \in {s}
    BY <1>0
  <2>q. QED BY <1>0, <2>1, Least
<1>q. QED BY <1>1, <1>4, <1>5

(* Links elsewhere change nothing about the ancestors of a mail.           *)
LEMMA SameAbove ==
  ASSUME NEW p \in Parents, NEW q \in Parents, NEW i \in Mail!Ids,
         \A j \in Mail!Ancestors(p, i) : q[j] = p[j]
  PROVE  Mail!Ancestors(q, i) = Mail!Ancestors(p, i)
<1>1. Mail!Ancestors(p, i) \in SUBSET Mail!Ids /\ Mail!Ancestors(q, i) \in SUBSET Mail!Ids
  BY DEF Mail!Ancestors
<1>2. Mail!Ancestors(q, i) \subseteq Mail!Ancestors(p, i)
  <2>1. \A k \in Mail!Ancestors(p, i) : q[k] # Mail!NoMail => q[k] \in Mail!Ancestors(p, i)
    BY Upwards
  <2>q. QED BY <1>1, <2>1, Least, Selves
<1>3. Mail!Ancestors(p, i) \subseteq Mail!Ancestors(q, i)
  <2>1. \A k \in Mail!Ancestors(q, i) : p[k] # Mail!NoMail => p[k] \in Mail!Ancestors(q, i)
    BY <1>2, Upwards
  <2>q. QED BY <1>1, <2>1, Least, Selves
<1>q. QED BY <1>2, <1>3

(* A mail that nothing is linked to is above itself only. *)
LEMMA LeafIsAbove ==
  ASSUME NEW p \in Parents, NEW m \in Mail!Ids, NEW i \in Mail!Ids, i # m, \A k \in Mail!Ids : p[k] # m
  PROVE  m \notin Mail!Ancestors(p, i)
<1>1. PICK S \in SUBSET Mail!Ids : S = Mail!Ancestors(p, i) \ {m}
  BY DEF Mail!Ancestors
<1>2. \A k \in S : p[k] # Mail!NoMail => p[k] \in S
  BY <1>1, Upwards
<1>3. i \in S
  BY <1>1, Selves
<1>q. QED BY <1>1, <1>2, <1>3, Least

(* ThreadID is the root, unless the links go in a circle.                  *)
LEMMA ThreadIDIsRoot ==
  ASSUME NEW p \in Parents, NEW i \in Mail!Ids, ~Mail!InCircle(p, i)
  PROVE  Rooted(p, i, Mail!ThreadID(p, i)) /\ Mail!ThreadID(p, i) \in Mail!Ids
<1>1. \E j \in Mail!Ancestors(p, i) : p[j] = Mail!NoMail
  BY DEF Mail!InCircle
<1>2. Mail!ThreadID(p, i) \in Mail!Ancestors(p, i) /\ p[Mail!ThreadID(p, i)] = Mail!NoMail
  BY <1>1 DEF Mail!ThreadID
<1>q. QED BY <1>2 DEF Rooted, Mail!Ancestors

(* The numbers of the mails, and those of the answers after them.          *)
LEMMA MailTypes ==
  ASSUME MailAssumption
  PROVE  /\ Mail!Mails \subseteq Mail!Ids /\ Mail!NoMail \notin Mail!Ids
         /\ \A i \in Mail!Ids : i \in Nat /\ i > 0
         /\ \A s \in 0..MaxSent : s < MaxSent => (NumMails + s) + 1 \in Mail!Ids
         /\ \A s \in Nat : (NumMails + s) + 1 \notin Mail!Mails
<1> USE DEF MailAssumption, Mail!Mails, Mail!Ids, Mail!NoMail
<1>1. Mail!Mails \subseteq Mail!Ids /\ Mail!NoMail \notin Mail!Ids
  OBVIOUS
<1>2. \A i \in Mail!Ids : i \in Nat /\ i > 0
  OBVIOUS
<1>3. ASSUME NEW s \in 0..MaxSent, s < MaxSent PROVE (NumMails + s) + 1 \in Mail!Ids
  BY <1>3
<1>4. ASSUME NEW s \in Nat PROVE (NumMails + s) + 1 \notin Mail!Mails
  BY <1>4
<1>q. QED BY <1>1, <1>2, <1>3, <1>4

(* The invariant says what it is for.                                      *)
LEMMA ThreadGoal == MailAssumption /\ ThreadInv => Mail!AnswersShareASession
<1> SUFFICES ASSUME MailAssumption, ThreadInv PROVE Mail!AnswersShareASession
  OBVIOUS
<1>1. eUp \in Parents /\ eKey \in [Mail!Ids -> Mail!Ids \union {Mail!NoMail}] /\ eHeader \in Parents
      /\ Mail!Mails \subseteq Mail!Ids /\ Mail!NoMail \notin Mail!Ids
  <2>1. eNodes \subseteq Mail!Ids /\ eUp \in [Mail!Ids -> eNodes \union {Mail!NoMail}]
    BY DEF ThreadInv, Mail!ETypeOK
  <2>2. eUp \in Parents
    BY <2>1 DEF Parents
  <2>q. QED BY <2>2, MailTypes DEF ThreadInv, Mail!ETypeOK, Parents
<1>2. ASSUME NEW m \in Mail!Mails, ~eMoved, eKey[m] # Mail!NoMail, eHeader[m] # Mail!NoMail,
             eKey[eHeader[m]] # Mail!NoMail, eSending = Mail!NoMail
      PROVE  eKey[m] = eKey[eHeader[m]]
  <2>1. m \in Mail!Ids /\ eHeader[m] \in Mail!Ids /\ m # eSending /\ eHeader[m] # eSending
    BY <1>1, <1>2 DEF Parents
  <2>2. Rooted(eUp, m, eKey[m]) /\ Rooted(eUp, eHeader[m], eKey[eHeader[m]])
        /\ (Mail!LinksTo(m) => eUp[m] = eHeader[m])
    BY <1>2, <2>1 DEF ThreadInv, KeysAreRoots
  <2>3. CASE eHeader[m] = m
    BY <2>3
  <2>4. CASE eHeader[m] # m
    <3>1. eUp[m] = eHeader[m]
      BY <1>2, <2>2, <2>4 DEF Mail!LinksTo
    <3>2. eHeader[m] \in Mail!Ancestors(eUp, m)
      BY <1>1, <1>2, <2>1, <3>1, Selves, Upwards
    <3>3. Rooted(eUp, m, eKey[eHeader[m]])
      BY <1>1, <2>1, <2>2, <3>2, AboveAbove DEF Rooted
    <3>q. QED BY <1>1, <2>1, <2>2, <3>3, OneRoot
  <2>q. QED BY <2>3, <2>4
<1>q. QED BY <1>2 DEF Mail!AnswersShareASession

(* The invariant holds when nothing has come in.                           *)
LEMMA InitThreads == MailAssumption /\ Mail!EInit => ThreadInv
<1> SUFFICES ASSUME MailAssumption, Mail!EInit PROVE ThreadInv
  OBVIOUS
<1>1. Mail!ETypeOK
  <2>1. {eCtxDone, eMoved} \subseteq BOOLEAN
    BY DEF Mail!EInit
  <2>2. eSent \in 0..MaxSent /\ eRestarts \in 0..eMaxRestarts
    BY DEF Mail!EInit, MailAssumption
  <2>q. QED BY <2>1, <2>2 DEF Mail!EInit, Mail!ETypeOK
<1>2. \A i \in Mail!Ids : eHeader[i] = Mail!NoMail /\ eUp[i] = Mail!NoMail /\ eKey[i] = Mail!NoMail /\ eLastMsg[i] = Mail!NoMail
  BY DEF Mail!EInit
<1>3. Mail!Mails \subseteq Mail!Ids /\ eAsked = {} /\ eArrived = {} /\ eSending = Mail!NoMail /\ eLoop = "no"
  BY MailTypes DEF Mail!EInit
<1>4. HeadersCome /\ LinksAreHeaders /\ HandledOnce
  BY <1>2, <1>3 DEF HeadersCome, LinksAreHeaders, HandledOnce
<1>5. LastOfThread /\ SendingAnswers /\ KeysAreRoots /\ StuckInCircle
  BY <1>2, <1>3 DEF LastOfThread, SendingAnswers, KeysAreRoots, StuckInCircle
<1>q. QED BY <1>1, <1>4, <1>5 DEF ThreadInv

(* What every step needs of the types. *)
LEMMA ThreadTypes ==
  ASSUME MailAssumption, Mail!ETypeOK
  PROVE  /\ eUp \in Parents /\ eHeader \in Parents /\ eKey \in [Mail!Ids -> Mail!Ids \union {Mail!NoMail}]
         /\ Mail!Mails \subseteq Mail!Ids /\ Mail!NoMail \notin Mail!Ids
<1>1. eUp \in Parents
  <2>1. eNodes \subseteq Mail!Ids /\ eUp \in [Mail!Ids -> eNodes \union {Mail!NoMail}]
    BY DEF Mail!ETypeOK
  <2>q. QED BY <2>1 DEF Parents
<1>q. QED BY <1>1, MailTypes DEF Mail!ETypeOK, Parents

(* The steps that touch neither threads nor headers. *)
LEMMA QuietStep ==
  ASSUME MailAssumption, ThreadInv,
         \/ Mail!Start \/ Mail!Stop \/ Mail!LoopEnds \/ Mail!Poll \/ Mail!FetchEnds \/ Mail!ConnectionLost
         \/ \E m \in Mail!Mails : Mail!ServerSends(m) \/ Mail!Skip(m)
         \/ UNCHANGED Mail!evars
  PROVE  ThreadInv'
<1> USE DEF Mail!pollVars, Mail!threadVars
<1>1. UNCHANGED <<Mail!threadVars, eHeader, eSent, eSending>>
  BY DEF Mail!Start, Mail!Stop, Mail!LoopEnds, Mail!Poll, Mail!FetchEnds,
         Mail!ConnectionLost, Mail!ServerSends, Mail!Skip, Mail!evars
<1>2. Mail!ETypeOK' /\ HandledOnce' /\ HeadersCome' /\ (eLoop' = "stuck" => eLoop = "stuck")
  <2> USE <1>1 DEF ThreadInv, Mail!ETypeOK, HandledOnce, HeadersCome
  <2>1. CASE Mail!Start \/ Mail!Stop \/ Mail!LoopEnds \/ Mail!FetchEnds \/ UNCHANGED Mail!evars
    BY <2>1 DEF Mail!Start, Mail!Stop, Mail!LoopEnds, Mail!FetchEnds, Mail!evars
  <2>2. CASE Mail!Poll
    <3>1. eAsked' \subseteq Mail!Mails /\ eArrived' = eArrived /\ eLoop' = "fetch"
          /\ \A m \in eAsked' : eMailbox[m] = "unseen"
      BY <2>2 DEF Mail!Poll
    <3>2. eArrived \subseteq Mail!Mails \ eAsked'
      BY <3>1
    <3>q. QED BY <2>2, <3>1, <3>2 DEF Mail!Poll
  <2>3. CASE Mail!ConnectionLost
    <3>1. eFate' \in [Mail!Mails -> {"none", "published", "blocked", "failed", "skipped", "cut"}]
      BY <2>3 DEF Mail!ConnectionLost
    <3>q. QED BY <2>3, <3>1 DEF Mail!ConnectionLost
  <2>4. ASSUME NEW m \in Mail!Mails, Mail!ServerSends(m)
        PROVE  Mail!ETypeOK' /\ HandledOnce' /\ HeadersCome' /\ (eLoop' = "stuck" => eLoop = "stuck")
    <3>1. /\ eAsked' = eAsked \ {m} /\ eArrived' = eArrived \union {m} /\ m \in eAsked
          /\ eMailbox' = [eMailbox EXCEPT ![m] = "seen"] /\ UNCHANGED <<eLoop, eCtxDone, eFate, eRestarts>>
      BY <2>4 DEF Mail!ServerSends
    <3>2. eKey[m] = Mail!NoMail
      BY <3>1
    <3>q. QED BY <3>1, <3>2
  <2>5. ASSUME NEW m \in Mail!Mails, Mail!Skip(m)
        PROVE  Mail!ETypeOK' /\ HandledOnce' /\ HeadersCome' /\ (eLoop' = "stuck" => eLoop = "stuck")
    BY <2>5 DEF Mail!Skip, Mail!AfterSkip
  <2>q. QED BY <2>1, <2>2, <2>3, <2>4, <2>5
<1>3. KeysAreRoots'
  <2>1. KeysAreRoots
    BY DEF ThreadInv
  <2>q. QED BY <1>1, <2>1 DEF KeysAreRoots, Mail!LinksTo
<1>q. QED
  BY <1>1, <1>2, <1>3
  DEF ThreadInv, LinksAreHeaders, LastOfThread, SendingAnswers, StuckInCircle

(* Headers of mails above are set: a new header leads nobody elsewhere. *)
LEMMA HeaderStep ==
  ASSUME MailAssumption, ThreadInv, NEW n \in Mail!Ids, eHeader[n] = Mail!NoMail,
         NEW h \in Mail!Ids \union {Mail!NoMail}, eHeader' = [eHeader EXCEPT ![n] = h],
         UNCHANGED <<eUp, eLoop>>
  PROVE  /\ LinksAreHeaders' /\ StuckInCircle'
         /\ \A i \in Mail!Ids : i # n => eHeader'[i] = eHeader[i]
<1>1. eHeader \in Parents /\ eHeader' \in Parents
  <2>1. eHeader \in Parents
    BY ThreadTypes DEF ThreadInv
  <2>q. QED BY <2>1 DEF Parents
<1>2. \A i \in Mail!Ids : i # n => eHeader'[i] = eHeader[i]
  BY <1>1 DEF Parents
<1>3. LinksAreHeaders'
  BY <1>2 DEF ThreadInv, LinksAreHeaders
<1>4. StuckInCircle'
  <2> SUFFICES ASSUME eLoop = "stuck" PROVE \E m \in Mail!Mails : eHeader'[m] # m /\ Mail!InCircle(eHeader', m)
    BY DEF StuckInCircle
  <2>1. PICK m \in Mail!Mails : eHeader[m] # m /\ Mail!InCircle(eHeader, m)
    BY DEF ThreadInv, StuckInCircle
  <2>2. m \in Mail!Ids
    BY MailTypes
  <2>3. m # n /\ n \notin Mail!Ancestors(eHeader, m)
    BY <1>1, <2>1, <2>2, Selves DEF Mail!InCircle
  <2>4. Mail!Ancestors(eHeader, m) \subseteq Mail!Ids
    BY DEF Mail!Ancestors
  <2>5. Mail!Ancestors(eHeader', m) = Mail!Ancestors(eHeader, m)
    BY <1>1, <1>2, <2>2, <2>3, <2>4, SameAbove
  <2>q. QED BY <1>2, <2>1, <2>2, <2>3, <2>4, <2>5 DEF Mail!InCircle
<1>q. QED BY <1>2, <1>3, <1>4

(* A mail comes in, with a header that names any other or none.            *)
LEMMA ArriveStep ==
  ASSUME MailAssumption, ThreadInv, NEW m \in Mail!Mails, Mail!Arrive(m) PROVE ThreadInv'
<1> USE DEF Mail!pollVars, Mail!threadVars
<1>1. /\ eMailbox[m] = "none" /\ eMailbox' = [eMailbox EXCEPT ![m] = "unseen"]
      /\ UNCHANGED <<Mail!pollVars, eFate, Mail!threadVars, eSent, eSending, eRestarts>>
  BY DEF Mail!Arrive
<1>2. PICK h \in Mail!Ids \union {Mail!NoMail} : eHeader' = [eHeader EXCEPT ![m] = h]
  BY DEF Mail!Arrive
<1>3. m \in Mail!Ids /\ eHeader[m] = Mail!NoMail /\ ~(m > NumMails + eSent)
  <2>1. m \in Mail!Ids /\ eSent \in Nat
    BY MailTypes DEF ThreadInv, Mail!ETypeOK
  <2>2. ~(m > NumMails + eSent)
    BY <2>1 DEF MailAssumption, Mail!Mails
  <2>q. QED BY <1>1, <2>1, <2>2 DEF ThreadInv, HeadersCome
<1>4. /\ LinksAreHeaders' /\ StuckInCircle'
      /\ \A i \in Mail!Ids : i # m => eHeader'[i] = eHeader[i]
  BY <1>1, <1>2, <1>3, HeaderStep
<1>5. eKey[m] = Mail!NoMail /\ m \notin eAsked /\ m \notin eArrived
  BY <1>1 DEF ThreadInv, HandledOnce
<1>6. Mail!ETypeOK'
  <2>1. eHeader' \in [Mail!Ids -> Mail!Ids \union {Mail!NoMail}]
    BY <1>2, <1>3 DEF ThreadInv, Mail!ETypeOK
  <2>2. eMailbox' \in [Mail!Mails -> {"none", "unseen", "seen"}]
    BY <1>1 DEF ThreadInv, Mail!ETypeOK
  <2>q. QED BY <1>1, <2>1, <2>2 DEF ThreadInv, Mail!ETypeOK
<1>7. HeadersCome' /\ HandledOnce'
  <2>1. \A k \in Mail!Mails : k # m => eMailbox'[k] = eMailbox[k]
    BY <1>1 DEF ThreadInv, Mail!ETypeOK
  <2>2. eMailbox'[m] = "unseen" /\ Mail!Mails \subseteq Mail!Ids /\ eAsked \subseteq Mail!Mails /\ eArrived \subseteq Mail!Mails
    BY <1>1, MailTypes DEF ThreadInv, Mail!ETypeOK
  <2>3. HeadersCome'
    BY <1>1, <1>3, <1>4, <2>1, <2>2 DEF ThreadInv, HeadersCome
  <2>4. HandledOnce'
    BY <1>1, <1>5, <2>1, <2>2 DEF ThreadInv, HandledOnce
  <2>q. QED BY <2>3, <2>4
<1>8. KeysAreRoots'
  BY <1>1, <1>4, <1>5 DEF ThreadInv, KeysAreRoots, Mail!LinksTo
<1>9. LastOfThread' /\ SendingAnswers'
  <2>1. LastOfThread'
    BY <1>1 DEF ThreadInv, LastOfThread
  <2>2. eSending # Mail!NoMail => eSending \in Mail!Ids /\ eSending # m
    BY <1>3 DEF ThreadInv, Mail!ETypeOK, SendingAnswers, MailAssumption, Mail!Mails
  <2>3. SendingAnswers'
    BY <1>1, <1>4, <2>2 DEF ThreadInv, SendingAnswers
  <2>q. QED BY <2>1, <2>3
<1>q. QED BY <1>4, <1>6, <1>7, <1>8, <1>9 DEF ThreadInv

(* An answer is delivered: its header is the last mail of its session. *)
LEMMA DeliverStep ==
  ASSUME MailAssumption, ThreadInv, NEW t, NEW ok \in BOOLEAN, Mail!Deliver(t, ok),
         t = Mail!NoMail \/ t \in {eKey[m] : m \in Mail!Mails}
  PROVE  ThreadInv'
<1> USE DEF Mail!pollVars, Mail!threadVars
<1>1. PICK n : n = Mail!NextSent
  OBVIOUS
<1>2. PICK h : h = Mail!ReplyTarget(t)
  OBVIOUS
<1>3. /\ eSent < MaxSent /\ eSending = Mail!NoMail /\ eSent' = eSent + 1
      /\ eHeader' = [eHeader EXCEPT ![n] = h]
      /\ eSending' = IF ok THEN n ELSE Mail!NoMail
      /\ eKey' = [eKey EXCEPT ![n] = IF ok THEN t ELSE Mail!NoMail]
      /\ UNCHANGED <<Mail!pollVars, eMailbox, eFate, eNodes, eUp, eLastMsg, eMoved, eRestarts>>
  BY <1>1, <1>2 DEF Mail!Deliver
<1>4. eSent \in 0..MaxSent /\ eSent \in Nat /\ n = (NumMails + eSent) + 1
  BY <1>1 DEF Mail!NextSent, ThreadInv, Mail!ETypeOK, MailAssumption
<1>5. n \in Mail!Ids /\ n \notin Mail!Mails /\ Mail!Mails \subseteq Mail!Ids /\ Mail!NoMail \notin Mail!Ids
  BY <1>3, <1>4, MailTypes
<1>6. n > NumMails + eSent /\ n > NumMails /\ eSent + 1 \in 0..MaxSent
      /\ \A i \in Mail!Ids : i > NumMails + (eSent + 1) => i > NumMails + eSent /\ i # n
  BY <1>3, <1>4, MailTypes DEF MailAssumption
<1>7. eHeader[n] = Mail!NoMail
  BY <1>5, <1>6 DEF ThreadInv, HeadersCome
<1>8. /\ t \in Mail!Ids \union {Mail!NoMail} /\ h \in Mail!Mails \union {Mail!NoMail}
      /\ t # Mail!NoMail => h \in Mail!Mails /\ eKey[h] = t
  <2>1. CASE t = Mail!NoMail
    BY <1>2, <2>1 DEF Mail!ReplyTarget
  <2>2. CASE t # Mail!NoMail
    <3>1. PICK m \in Mail!Mails : t = eKey[m]
      BY <2>2
    <3>2. t \in Mail!Ids
      BY <1>5, <2>2, <3>1 DEF ThreadInv, Mail!ETypeOK
    <3>3. h = eLastMsg[t] /\ h \in Mail!Mails \union {Mail!NoMail}
      BY <1>2, <2>2, <3>2 DEF Mail!ReplyTarget, ThreadInv, Mail!ETypeOK
    <3>4. h # Mail!NoMail /\ eKey[h] = t
      BY <2>2, <3>1, <3>2, <3>3 DEF ThreadInv, LastOfThread
    <3>q. QED BY <3>2, <3>3, <3>4
  <2>q. QED BY <2>1, <2>2
<1>9. /\ LinksAreHeaders' /\ StuckInCircle'
      /\ \A i \in Mail!Ids : i # n => eHeader'[i] = eHeader[i]
  BY <1>3, <1>5, <1>7, <1>8, HeaderStep
<1>10. /\ \A i \in Mail!Ids : i # n => eKey'[i] = eKey[i]
       /\ eKey'[n] = IF ok THEN t ELSE Mail!NoMail
       /\ eHeader'[n] = h
  BY <1>3, <1>5 DEF ThreadInv, Mail!ETypeOK
<1>11. Mail!ETypeOK'
  <2>1. eHeader' \in [Mail!Ids -> Mail!Ids \union {Mail!NoMail}] /\ eKey' \in [Mail!Ids -> Mail!Ids \union {Mail!NoMail}]
    BY <1>3, <1>5, <1>8 DEF ThreadInv, Mail!ETypeOK
  <2>2. eSending' \in Mail!Ids \union {Mail!NoMail} /\ eSent' \in 0..MaxSent
    BY <1>3, <1>5, <1>6
  <2>q. QED BY <1>3, <2>1, <2>2 DEF ThreadInv, Mail!ETypeOK
<1>12. HeadersCome'
  BY <1>3, <1>5, <1>6, <1>9 DEF ThreadInv, HeadersCome
<1>13. HandledOnce' /\ LastOfThread'
  <2>1. \A m \in Mail!Mails : eKey'[m] = eKey[m]
    BY <1>5, <1>10
  <2>2. HandledOnce'
    BY <1>3, <2>1 DEF ThreadInv, HandledOnce
  <2>3. \A u \in Mail!Ids : eLastMsg[u] # Mail!NoMail => eLastMsg[u] \in Mail!Mails
    BY DEF ThreadInv, Mail!ETypeOK
  <2>4. LastOfThread'
    BY <1>3, <2>1, <2>3 DEF ThreadInv, LastOfThread
  <2>q. QED BY <2>2, <2>4
<1>14. SendingAnswers'
  <2>1. eSending' # Mail!NoMail => eSending' = n /\ eKey'[n] = t
    BY <1>3, <1>10
  <2>2. t # Mail!NoMail => h \in Mail!Mails /\ eKey'[h] = t
    BY <1>5, <1>8, <1>10
  <2>q. QED BY <1>6, <1>10, <2>1, <2>2 DEF SendingAnswers
<1>15. KeysAreRoots'
  <2> SUFFICES ASSUME ~eMoved, NEW i \in Mail!Ids, eKey'[i] # Mail!NoMail, i # eSending'
               PROVE  Rooted(eUp, i, eKey'[i]) /\ (Mail!LinksTo(i)' => eUp[i] = eHeader'[i])
    BY <1>3 DEF KeysAreRoots
  <2>1. i # n
    BY <1>3, <1>10
  <2>2. eKey'[i] = eKey[i] /\ eHeader'[i] = eHeader[i] /\ i # eSending
    BY <1>3, <1>5, <1>9, <1>10, <2>1
  <2>q. QED BY <2>2 DEF ThreadInv, KeysAreRoots, Mail!LinksTo
<1>q. QED BY <1>9, <1>11, <1>12, <1>13, <1>14, <1>15 DEF ThreadInv

(* A mail is put into the forest: the roots above the others stay. *)
LEMMA LinkEffect ==
  ASSUME MailAssumption, ThreadInv, NEW m \in Mail!Ids, Mail!ProcessHeaders(m), eHeader' = eHeader
  PROVE  /\ eUp' \in Parents /\ eNodes' \subseteq Mail!Ids /\ eMoved' \in BOOLEAN
         /\ eUp' \in [Mail!Ids -> eNodes' \union {Mail!NoMail}]
         /\ eMoved => eMoved'
         /\ LinksAreHeaders'
         /\ Mail!LinksTo(m) => eUp'[m] = eHeader[m]
         /\ \A i \in Mail!Ids : i # m => eUp'[i] = eUp[i]
         /\ ~eMoved' => \A i \in Mail!Ids : \A r :
                         i # m /\ Rooted(eUp, i, r) => Rooted(eUp', i, r)
<1>1. eUp \in Parents /\ eHeader \in Parents /\ Mail!NoMail \notin Mail!Ids
  BY ThreadTypes DEF ThreadInv
<1>2. /\ eNodes \subseteq Mail!Ids /\ eUp \in [Mail!Ids -> eNodes \union {Mail!NoMail}] /\ eMoved \in BOOLEAN
  BY DEF ThreadInv, Mail!ETypeOK
<1>3. Mail!LinksTo(m) => eHeader[m] \in Mail!Ids /\ eHeader[m] # m
  BY <1>1 DEF Mail!LinksTo, Parents
<1>4. eNodes' \subseteq Mail!Ids /\ eUp' \in [Mail!Ids -> eNodes' \union {Mail!NoMail}]
  <2>1. CASE Mail!LinksTo(m)
    <3>1. eNodes' = (eNodes \union {m}) \union {eHeader[m]} /\ eUp' = [eUp EXCEPT ![m] = eHeader[m]]
      BY <2>1 DEF Mail!ProcessHeaders
    <3>q. QED BY <1>2, <1>3, <2>1, <3>1
  <2>2. CASE ~Mail!LinksTo(m)
    <3>1. eNodes' = eNodes \union {m} /\ eUp' = eUp
      BY <2>2 DEF Mail!ProcessHeaders
    <3>q. QED BY <1>2, <3>1
  <2>q. QED BY <2>1, <2>2
<1>5. eUp' \in Parents
  BY <1>4 DEF Parents
<1>6. /\ Mail!LinksTo(m) => eUp'[m] = eHeader[m]
      /\ \A i \in Mail!Ids : i # m => eUp'[i] = eUp[i]
      /\ ~Mail!LinksTo(m) => eUp' = eUp
  BY <1>2 DEF Mail!ProcessHeaders
<1>7. /\ eMoved' \in BOOLEAN /\ (eMoved => eMoved')
      /\ ~eMoved' => ~Mail!LinksTo(m) \/ eUp[m] = eHeader[m] \/ \A k \in Mail!Ids : eUp[k] # m
  BY <1>2 DEF Mail!ProcessHeaders
<1>8. LinksAreHeaders'
  <2> SUFFICES ASSUME NEW i \in Mail!Ids, eUp'[i] # Mail!NoMail PROVE eUp'[i] = eHeader[i] /\ eHeader[i] # i
    BY DEF LinksAreHeaders
  <2>1. CASE i = m /\ Mail!LinksTo(m)
    BY <1>3, <1>6, <2>1
  <2>2. CASE i # m \/ ~Mail!LinksTo(m)
    BY <1>6, <2>2 DEF ThreadInv, LinksAreHeaders
  <2>q. QED BY <2>1, <2>2
<1>9. ASSUME ~eMoved', NEW i \in Mail!Ids, NEW r, i # m, Rooted(eUp, i, r) PROVE Rooted(eUp', i, r)
  <2>0. Mail!Ancestors(eUp, i) \subseteq Mail!Ids
    BY DEF Mail!Ancestors
  <2>1. \A j \in Mail!Ancestors(eUp, i) : eUp'[j] = eUp[j]
    <3>1. CASE ~Mail!LinksTo(m) \/ eUp[m] = eHeader[m]
      BY <1>6, <2>0, <3>1
    <3>2. CASE \A k \in Mail!Ids : eUp[k] # m
      <4>1. m \notin Mail!Ancestors(eUp, i)
        BY <1>1, <1>9, <3>2, LeafIsAbove
      <4>q. QED BY <1>6, <2>0, <4>1
    <3>q. QED BY <1>7, <1>9, <3>1, <3>2
  <2>2. Mail!Ancestors(eUp', i) = Mail!Ancestors(eUp, i)
    BY <1>1, <1>5, <2>1, SameAbove
  <2>q. QED BY <1>9, <2>1, <2>2 DEF Rooted
<1>q. QED BY <1>4, <1>5, <1>6, <1>7, <1>8, <1>9

(* A mail is handled in the thread it was put into, or meets a circle. *)
LEMMA ProcessStep ==
  ASSUME MailAssumption, ThreadInv, NEW m \in Mail!Mails, Mail!Process(m) PROVE ThreadInv'
<1> USE DEF Mail!pollVars, Mail!threadVars
<1>0. /\ eLoop = "fetch" /\ m \in eArrived /\ eArrived' = eArrived \ {m} /\ Mail!ProcessHeaders(m)
      /\ UNCHANGED <<eCtxDone, eAsked, eMailbox, eHeader, eSent, eSending, eRestarts>>
  BY DEF Mail!Process
<1>1. m \in Mail!Ids /\ Mail!Mails \subseteq Mail!Ids /\ Mail!NoMail \notin Mail!Ids
  BY MailTypes
<1>2. /\ eUp' \in Parents /\ eNodes' \subseteq Mail!Ids /\ eMoved' \in BOOLEAN
      /\ eUp' \in [Mail!Ids -> eNodes' \union {Mail!NoMail}]
      /\ eMoved => eMoved'
      /\ LinksAreHeaders'
      /\ Mail!LinksTo(m) => eUp'[m] = eHeader[m]
      /\ \A i \in Mail!Ids : i # m => eUp'[i] = eUp[i]
      /\ ~eMoved' => \A i \in Mail!Ids : \A r :
                      i # m /\ Rooted(eUp, i, r) => Rooted(eUp', i, r)
  BY <1>0, <1>1, LinkEffect
<1>3. eKey[m] = Mail!NoMail /\ eMailbox[m] = "seen" /\ m \notin eAsked
  BY <1>0 DEF ThreadInv, Mail!ETypeOK, HandledOnce
<1>4. eSending # Mail!NoMail => eSending \in Mail!Ids /\ eSending # m
  BY DEF ThreadInv, Mail!ETypeOK, SendingAnswers, MailAssumption, Mail!Mails
<1>5. HeadersCome'
  BY <1>0 DEF ThreadInv, HeadersCome
<1>6. CASE Mail!InCircle(eUp', m)
  <2>1. eLoop' = "stuck" /\ UNCHANGED <<eLastMsg, eKey, eFate>>
    BY <1>6 DEF Mail!Process
  <2>2. Mail!ETypeOK'
    BY <1>0, <1>2, <2>1 DEF ThreadInv, Mail!ETypeOK
  <2>3. HandledOnce' /\ LastOfThread' /\ SendingAnswers'
    BY <1>0, <2>1 DEF ThreadInv, HandledOnce, LastOfThread, SendingAnswers
  <2>4. KeysAreRoots'
    BY <1>0, <1>2, <1>3, <2>1 DEF ThreadInv, KeysAreRoots, Mail!LinksTo
  <2>5. StuckInCircle'
    <3>1. \A j \in Mail!Ancestors(eUp', m) : j \in Mail!Ids /\ eUp'[j] # Mail!NoMail /\ eHeader[j] = eUp'[j]
      BY <1>0, <1>2, <1>6 DEF Mail!InCircle, Mail!Ancestors, LinksAreHeaders
    <3>2. eHeader \in Parents
      BY ThreadTypes DEF ThreadInv
    <3>3. Mail!Ancestors(eHeader, m) = Mail!Ancestors(eUp', m)
      BY <1>1, <1>2, <3>1, <3>2, SameAbove
    <3>4. m \in Mail!Ancestors(eUp', m)
      BY <1>1, <1>2, Selves
    <3>5. eHeader[m] # m
      BY <1>0, <1>1, <1>2, <3>1, <3>4 DEF LinksAreHeaders
    <3>6. Mail!InCircle(eHeader, m)
      BY <3>1, <3>3 DEF Mail!InCircle
    <3>q. QED BY <1>0, <3>5, <3>6 DEF StuckInCircle
  <2>q. QED BY <1>2, <1>5, <2>2, <2>3, <2>4, <2>5 DEF ThreadInv
<1>7. CASE ~Mail!InCircle(eUp', m)
  <2>1. PICK r : r = Mail!ThreadID(eUp', m)
    OBVIOUS
  <2>2. Rooted(eUp', m, r) /\ r \in Mail!Ids
    BY <1>1, <1>2, <1>7, <2>1, ThreadIDIsRoot
  <2>3. /\ eLastMsg' = [eLastMsg EXCEPT ![r] = m] /\ eKey' = [eKey EXCEPT ![m] = r]
        /\ eLoop' = eLoop
    BY <1>7, <2>1 DEF Mail!Process
  <2>4. eFate' \in [Mail!Mails -> {"none", "published", "blocked", "failed", "skipped", "cut"}]
    <3>1. PICK f \in {"published", "blocked"} \union (IF eCtxDone THEN {"failed"} ELSE {}) :
            eFate' = [eFate EXCEPT ![m] = f]
      BY <1>7 DEF Mail!Process
    <3>2. f \in {"published", "blocked", "failed"}
      BY <3>1
    <3>q. QED BY <3>1, <3>2 DEF ThreadInv, Mail!ETypeOK
  <2>5. Mail!ETypeOK'
    <3>1. eLastMsg' \in [Mail!Ids -> Mail!Mails \union {Mail!NoMail}] /\ eKey' \in [Mail!Ids -> Mail!Ids \union {Mail!NoMail}]
      BY <1>1, <2>2, <2>3 DEF ThreadInv, Mail!ETypeOK
    <3>q. QED BY <1>0, <1>2, <2>3, <2>4, <3>1 DEF ThreadInv, Mail!ETypeOK
  <2>6. /\ \A i \in Mail!Ids : i # m => eKey'[i] = eKey[i]
        /\ eKey'[m] = r /\ eLastMsg'[r] = m
        /\ \A t \in Mail!Ids : t # r => eLastMsg'[t] = eLastMsg[t]
    BY <1>1, <2>2, <2>3 DEF ThreadInv, Mail!ETypeOK
  <2>7. HandledOnce'
    BY <1>0, <1>1, <1>3, <2>6 DEF ThreadInv, HandledOnce
  <2>8. LastOfThread'
    <3>1. ASSUME NEW t \in Mail!Ids, eLastMsg'[t] # Mail!NoMail PROVE eKey'[eLastMsg'[t]] = t
      <4>1. CASE t = r
        BY <2>6, <4>1
      <4>2. CASE t # r
        <5>1. eLastMsg[t] \in Mail!Mails /\ eKey[eLastMsg[t]] = t /\ eLastMsg'[t] = eLastMsg[t]
          BY <2>6, <3>1, <4>2 DEF ThreadInv, Mail!ETypeOK, LastOfThread
        <5>2. eLastMsg[t] # m
          BY <1>1, <1>3, <5>1
        <5>q. QED BY <1>1, <2>6, <5>1, <5>2
      <4>q. QED BY <4>1, <4>2
    <3>2. ASSUME NEW k \in Mail!Mails, eKey'[k] # Mail!NoMail PROVE eLastMsg'[eKey'[k]] # Mail!NoMail
      <4>1. CASE k = m \/ eKey[k] = r
        BY <1>1, <2>6, <4>1
      <4>2. CASE k # m /\ eKey[k] # r
        <5>1. eKey'[k] = eKey[k] /\ eKey[k] \in Mail!Ids /\ eLastMsg[eKey[k]] # Mail!NoMail
          BY <1>1, <2>6, <3>2, <4>2 DEF ThreadInv, Mail!ETypeOK, LastOfThread
        <5>q. QED BY <2>6, <4>2, <5>1
      <4>q. QED BY <4>1, <4>2
    <3>q. QED BY <3>1, <3>2 DEF LastOfThread
  <2>9. SendingAnswers'
    <3> SUFFICES ASSUME eSending # Mail!NoMail, eKey'[eSending] # Mail!NoMail
                 PROVE  eHeader[eSending] \in Mail!Mails /\ eKey'[eHeader[eSending]] = eKey'[eSending]
      BY <1>0 DEF SendingAnswers, ThreadInv
    <3>1. eKey'[eSending] = eKey[eSending]
      BY <1>4, <2>6
    <3>2. eHeader[eSending] \in Mail!Mails /\ eKey[eHeader[eSending]] = eKey[eSending]
      BY <3>1 DEF ThreadInv, SendingAnswers
    <3>3. eHeader[eSending] # m
      BY <1>3, <3>1, <3>2
    <3>q. QED BY <1>1, <2>6, <3>1, <3>2, <3>3
  <2>10. KeysAreRoots'
    <3> SUFFICES ASSUME ~eMoved', NEW i \in Mail!Ids, eKey'[i] # Mail!NoMail, i # eSending
                 PROVE  Rooted(eUp', i, eKey'[i]) /\ (Mail!LinksTo(i) => eUp'[i] = eHeader[i])
      BY <1>0 DEF KeysAreRoots, Mail!LinksTo
    <3>1. CASE i = m
      BY <1>2, <2>2, <2>6, <3>1
    <3>2. CASE i # m
      <4>1. eKey'[i] = eKey[i] /\ eUp'[i] = eUp[i] /\ ~eMoved
        BY <1>2, <2>6, <3>2
      <4>2. Rooted(eUp, i, eKey[i]) /\ (Mail!LinksTo(i) => eUp[i] = eHeader[i])
        BY <4>1 DEF ThreadInv, KeysAreRoots
      <4>q. QED BY <1>2, <3>2, <4>1, <4>2
    <3>q. QED BY <3>1, <3>2
  <2>11. StuckInCircle'
    BY <1>0, <2>3 DEF StuckInCircle
  <2>q. QED BY <1>2, <1>5, <2>5, <2>7, <2>8, <2>9, <2>10, <2>11 DEF ThreadInv
<1>q. QED BY <1>6, <1>7

(* An answer is registered under the mail it answers. *)
LEMMA AnswerIsLinked ==
  ASSUME MailAssumption, ThreadInv, Mail!Register PROVE ThreadInv'
<1> USE DEF Mail!pollVars, Mail!threadVars
<1>0. PICK s : s = eSending
  OBVIOUS
<1>1. /\ s # Mail!NoMail /\ Mail!ProcessHeaders(s) /\ eSending' = Mail!NoMail
      /\ UNCHANGED <<Mail!pollVars, eMailbox, eHeader, eFate, eLastMsg, eKey, eSent, eRestarts>>
  BY <1>0 DEF Mail!Register, Mail!Registered
<1>2. s \in Mail!Ids /\ s > NumMails /\ Mail!Mails \subseteq Mail!Ids /\ Mail!NoMail \notin Mail!Ids
  BY <1>0, <1>1, MailTypes DEF ThreadInv, Mail!ETypeOK, SendingAnswers
<1>3. /\ eUp' \in Parents /\ eNodes' \subseteq Mail!Ids /\ eMoved' \in BOOLEAN
      /\ eUp' \in [Mail!Ids -> eNodes' \union {Mail!NoMail}]
      /\ eMoved => eMoved'
      /\ LinksAreHeaders'
      /\ Mail!LinksTo(s) => eUp'[s] = eHeader[s]
      /\ \A i \in Mail!Ids : i # s => eUp'[i] = eUp[i]
      /\ ~eMoved' => \A i \in Mail!Ids : \A r :
                      i # s /\ Rooted(eUp, i, r) => Rooted(eUp', i, r)
  BY <1>1, <1>2, LinkEffect
<1>4. Mail!ETypeOK'
  BY <1>1, <1>3 DEF ThreadInv, Mail!ETypeOK
<1>5. HeadersCome' /\ HandledOnce' /\ LastOfThread' /\ SendingAnswers' /\ StuckInCircle'
  <2>1. HeadersCome' /\ HandledOnce'
    BY <1>1 DEF ThreadInv, HeadersCome, HandledOnce
  <2>2. LastOfThread' /\ SendingAnswers' /\ StuckInCircle'
    BY <1>1 DEF ThreadInv, LastOfThread, SendingAnswers, StuckInCircle
  <2>q. QED BY <2>1, <2>2
<1>6. KeysAreRoots'
  <2> SUFFICES ASSUME ~eMoved', NEW i \in Mail!Ids, eKey[i] # Mail!NoMail
               PROVE  Rooted(eUp', i, eKey[i]) /\ (Mail!LinksTo(i) => eUp'[i] = eHeader[i])
    BY <1>1 DEF KeysAreRoots, Mail!LinksTo
  <2>1. ASSUME NEW j \in Mail!Ids, eKey[j] # Mail!NoMail, j # s
        PROVE  Rooted(eUp', j, eKey[j]) /\ (Mail!LinksTo(j) => eUp'[j] = eHeader[j])
    <3>1. Rooted(eUp, j, eKey[j]) /\ (Mail!LinksTo(j) => eUp[j] = eHeader[j])
      BY <1>0, <1>3, <2>1 DEF ThreadInv, KeysAreRoots
    <3>q. QED BY <1>3, <2>1, <3>1
  <2>2. CASE i = s
    <3>1. PICK h \in Mail!Mails : h = eHeader[s] /\ eKey[h] = eKey[s]
      BY <1>0, <1>1, <2>2 DEF ThreadInv, SendingAnswers
    <3>2. h \in Mail!Ids /\ h # s /\ h # Mail!NoMail
      BY <1>2, <3>1 DEF Mail!Mails, MailAssumption
    <3>3. Rooted(eUp', h, eKey[h])
      BY <2>1, <2>2, <3>1, <3>2
    <3>4. eUp'[s] = h
      BY <1>3, <3>1, <3>2 DEF Mail!LinksTo
    <3>5. h \in Mail!Ancestors(eUp', s)
      BY <1>2, <1>3, <3>2, <3>4, Selves, Upwards
    <3>6. Rooted(eUp', s, eKey[h])
      BY <1>2, <1>3, <3>3, <3>5, AboveAbove DEF Rooted
    <3>q. QED BY <1>3, <2>2, <3>1, <3>6
  <2>q. QED BY <2>1, <2>2
<1>q. QED BY <1>3, <1>4, <1>5, <1>6 DEF ThreadInv

(* After a restart no thread is known. *)
LEMMA RestartThreads == ASSUME MailAssumption, ThreadInv, Mail!Restart PROVE ThreadInv'
<1>1. /\ \A i \in Mail!Ids : eUp'[i] = Mail!NoMail /\ eKey'[i] = Mail!NoMail /\ eLastMsg'[i] = Mail!NoMail
      /\ eAsked' = {} /\ eArrived' = {} /\ eSending' = Mail!NoMail /\ eLoop' = "no"
      /\ UNCHANGED <<eMailbox, eHeader, eSent>>
  BY DEF Mail!Restart
<1>2. Mail!ETypeOK'
  <2>1. eFate' \in [Mail!Mails -> {"none", "published", "blocked", "failed", "skipped", "cut"}]
    BY DEF Mail!Restart, ThreadInv, Mail!ETypeOK
  <2>2. eRestarts' \in 0..eMaxRestarts
    BY DEF Mail!Restart, ThreadInv, Mail!ETypeOK, MailAssumption
  <2>3. {eCtxDone', eMoved'} \subseteq BOOLEAN /\ eNodes' = {}
        /\ eUp' \in [Mail!Ids -> {} \union {Mail!NoMail}]
        /\ eLastMsg' \in [Mail!Ids -> Mail!Mails \union {Mail!NoMail}] /\ eKey' \in [Mail!Ids -> Mail!Ids \union {Mail!NoMail}]
    BY DEF Mail!Restart
  <2>q. QED BY <1>1, <2>1, <2>2, <2>3 DEF ThreadInv, Mail!ETypeOK
<1>3. HeadersCome' /\ LinksAreHeaders'
  BY <1>1 DEF ThreadInv, HeadersCome, LinksAreHeaders
<1>4. HandledOnce' /\ LastOfThread' /\ SendingAnswers' /\ KeysAreRoots' /\ StuckInCircle'
  <2>1. Mail!Mails \subseteq Mail!Ids
    BY MailTypes
  <2>q. QED
    BY <1>1, <2>1
    DEF HandledOnce, LastOfThread, SendingAnswers, KeysAreRoots, StuckInCircle
<1>q. QED BY <1>2, <1>3, <1>4 DEF ThreadInv

(* Every step of the channel keeps the invariant.                          *)
LEMMA NextThreads ==
  ASSUME MailAssumption, ThreadInv, Mail!ENext \/ UNCHANGED Mail!evars PROVE ThreadInv'
<1>1. CASE \E m \in Mail!Mails : Mail!Arrive(m)
  BY <1>1, ArriveStep
<1>2. CASE \E m \in Mail!Mails : Mail!Process(m)
  BY <1>2, ProcessStep
<1>3. CASE \/ Mail!Start \/ Mail!Stop \/ Mail!LoopEnds \/ Mail!Poll \/ Mail!FetchEnds \/ Mail!ConnectionLost
           \/ \E m \in Mail!Mails : Mail!ServerSends(m) \/ Mail!Skip(m)
           \/ UNCHANGED Mail!evars
  BY <1>3, QuietStep
<1>4. CASE \E ok \in BOOLEAN : Mail!SendMedia(ok) \/ \E t \in Mail!Ids : Mail!Send(t, ok)
  BY <1>4, DeliverStep DEF Mail!Send, Mail!SendMedia
<1>5. CASE Mail!Register
  BY <1>5, AnswerIsLinked
<1>6. CASE Mail!Restart
  BY <1>6, RestartThreads
<1>q. QED BY <1>1, <1>2, <1>3, <1>4, <1>5, <1>6 DEF Mail!ENext

(* The invariant, of the composition. *)
LEMMA ThreadInvariance == Spec => []ThreadInv
<1>0. MailAssumption
  BY PartsAssumption
<1>1. Init => ThreadInv
  BY <1>0, InitThreads DEF Init
<1>2. ThreadInv /\ [Next]_chVars => ThreadInv'
  BY <1>0, NextThreads, StepOfAConnection
  DEF eVars, Mail!evars, Mail!pollVars, Mail!threadVars
<1>q. QED BY <1>1, <1>2, PTL DEF Spec

(* A mail that answers another is handled in the same session, unless a    *)
(* mail was linked after its answers: for any number of mails, answers and *)
(* restarts.                                                               *)
THEOREM SessionsAreShared == Spec => []AnswersShareASession
<1>1. ThreadInv => AnswersShareASession
  BY PartsAssumption, ThreadGoal DEF AnswersShareASession
<1>q. QED BY <1>1, ThreadInvariance, PTL

(* The thread manager climbs for ever, with its lock held, only if there   *)
(* is a mail, not one that names itself, whose headers lead into a circle: *)
(* the links the manager keeps make none of their own.                     *)
THEOREM OnlyHeadersMakeACircle == Spec => []StuckInCircle
<1>1. ThreadInv => StuckInCircle
  BY DEF ThreadInv
<1>q. QED BY <1>1, ThreadInvariance, PTL

--------------------------------------------------------------------------------
(* The media store *)

(* The references that resolve to a path, and those of R among them. *)
HeldBy(p) == {r \in mRefs : mEntry[r].path = p}
Among(R, p) == {r \in R : mEntry[r].path = p}

(* What is known of the store's tables. *)
MediaKinds ==
  /\ mRefs \subseteq Media!Refs /\ IsFiniteSet(mRefs)
  /\ mCall \in [Media!Refs -> {"no", "stat", "refused", "done"}]
  /\ DOMAIN mEntry = Media!Refs
  /\ \A r \in Media!Refs : mCall[r] # "no" => mEntry[r] \in Media!Entries
  /\ \A r \in mRefs : mCall[r] = "done"
  /\ mStates \in [Paths -> [refCount : Nat, deleteEligible : BOOLEAN]]
  /\ mLife \in [Paths -> SUBSET Media!Refs]

(* The count of a path is the number of references that resolve to it. *)
CountsAreTrue == \A p \in Paths : mStates[p].refCount = Cardinality(HeldBy(p))

(* A path may be deleted only if all references since its count was zero   *)
(* asked for it.                                                           *)
OwnedByAll ==
  \A p \in Paths :
    /\ HeldBy(p) \subseteq mLife[p]
    /\ mStates[p].refCount = 0 => mLife[p] = {}
    /\ \A r \in mLife[p] :
         /\ mCall[r] = "done"
         /\ mStates[p].deleteEligible => mEntry[r].owned

(* A path chosen for removal has been let go by all, and what is stored    *)
(* for it afterwards is remembered.                                        *)
DoomedAreFree ==
  \A d \in mDoomed :
    /\ d.path \in Paths /\ d.refs \subseteq Media!Refs
    /\ \A r \in d.refs : mCall[r] = "done" /\ mEntry[r].owned
    /\ HeldBy(d.path) # {} => d.path \in mRaced

HeldAreThere == \A p \in Paths : HeldBy(p) # {} => p \in mFiles \union mRaced

MediaInv ==
  MediaKinds /\ CountsAreTrue /\ OwnedByAll /\ DoomedAreFree /\ HeldAreThere

(* The instance counts as the theorems on finite sets do. *)
LEMMA MediaCounts == ASSUME NEW S PROVE Media!Cardinality(S) = Cardinality(S)
  BY DEF Media!Cardinality, Cardinality

(* The invariant says what it is for. *)
LEMMA MediaGoal == MediaInv => Media!RefsHaveFiles
<1> SUFFICES ASSUME MediaInv PROVE Media!RefsHaveFiles
  OBVIOUS
<1>1. ASSUME NEW r \in mRefs PROVE mEntry[r].path \in mFiles \union mRaced
  <2>1. mEntry[r].path \in Paths
    BY DEF MediaInv, MediaKinds, Media!Entries
  <2>2. r \in HeldBy(mEntry[r].path)
    BY DEF HeldBy
  <2>q. QED BY <2>1, <2>2 DEF MediaInv, HeldAreThere
<1>2. \A d \in mDoomed : \A r \in d.refs : mEntry[r].owned
  BY DEF MediaInv, DoomedAreFree
<1>q. QED BY <1>1, <1>2 DEF Media!RefsHaveFiles

(* The invariant holds when nothing is stored. *)
LEMMA InitMedia == Media!MInit => MediaInv
<1> SUFFICES ASSUME Media!MInit PROVE MediaInv
  OBVIOUS
<1> USE DEF Media!MInit
<1>1. \A p : HeldBy(p) = {}
  BY DEF HeldBy
<1>2. MediaKinds
  BY FS_EmptySet DEF MediaKinds, Media!NoState
<1>3. CountsAreTrue
  BY <1>1, FS_EmptySet DEF CountsAreTrue, Media!NoState
<1>4. OwnedByAll /\ DoomedAreFree /\ HeldAreThere
  BY <1>1 DEF OwnedByAll, DoomedAreFree, HeldAreThere
<1>q. QED BY <1>2, <1>3, <1>4 DEF MediaInv

(* Store looks at the file: the entry of a call that has not been made yet *)
(* is what it is going to register.                                        *)
LEMMA StatStep ==
  ASSUME MediaInv, NEW r \in Media!Refs, NEW e \in Media!Entries, Media!Stat(r, e)
  PROVE  MediaInv'
<1>1. /\ mCall[r] = "no"
      /\ \E at \in {"stat", "refused"} : mCall' = [mCall EXCEPT ![r] = at]
      /\ mEntry' = [mEntry EXCEPT ![r] = e]
      /\ UNCHANGED <<mFiles, mRefs, mStates, mDoomed, mLife, mRaced>>
  BY DEF Media!Stat
<1>2. \A q \in Media!Refs : mCall[q] = "done" => mCall'[q] = "done" /\ mEntry'[q] = mEntry[q]
  BY <1>1 DEF MediaInv, MediaKinds
<1>3. MediaKinds'
  BY <1>1, <1>2 DEF MediaInv, MediaKinds
<1>4. \A p : HeldBy(p)' = HeldBy(p)
  BY <1>1, <1>2 DEF HeldBy, MediaInv, MediaKinds
<1>5. CountsAreTrue'
  BY <1>1, <1>4 DEF MediaInv, CountsAreTrue
<1>6. OwnedByAll'
  BY <1>1, <1>2, <1>4 DEF MediaInv, MediaKinds, OwnedByAll
<1>7. DoomedAreFree'
  BY <1>1, <1>2, <1>4 DEF MediaInv, DoomedAreFree
<1>8. HeldAreThere'
  BY <1>1, <1>4 DEF MediaInv, HeldAreThere
<1>q. QED BY <1>3, <1>5, <1>6, <1>7, <1>8 DEF MediaInv

(* Store registers: one reference more, and a race is remembered.          *)
LEMMA RegisterStep ==
  ASSUME MediaInv, NEW r \in Media!Refs, Media!Register(r)
  PROVE  MediaInv'
<1>0. PICK p : p = mEntry[r].path
  OBVIOUS
<1>1. /\ mCall[r] = "stat"
      /\ mCall' = [mCall EXCEPT ![r] = "done"]
      /\ mRefs' = mRefs \union {r}
      /\ mStates' = [mStates EXCEPT ![p] =
                       [refCount |-> @.refCount + 1,
                        deleteEligible |-> Media!Eligible(@, mEntry[r].owned)]]
      /\ mLife' = [mLife EXCEPT ![p] = @ \union {r}]
      /\ mRaced' = IF p \notin mFiles \/ \E d \in mDoomed : d.path = p
                   THEN mRaced \union {p} ELSE mRaced
      /\ UNCHANGED <<mFiles, mEntry, mDoomed>>
  BY <1>0 DEF Media!Register
<1>2. p \in Paths /\ mEntry[r].owned \in BOOLEAN
  BY <1>0, <1>1 DEF MediaInv, MediaKinds, Media!Entries
<1>3. r \notin mRefs
  BY <1>1 DEF MediaInv, MediaKinds
<1>4. \A q \in Media!Refs : mCall[q] = "done" => mCall'[q] = "done"
  BY <1>1 DEF MediaInv, MediaKinds
<1>5. mCall'[r] = "done"
  BY <1>1 DEF MediaInv, MediaKinds
<1>6. /\ mStates'[p].refCount = mStates[p].refCount + 1
      /\ mStates'[p].deleteEligible = Media!Eligible(mStates[p], mEntry[r].owned)
      /\ mLife'[p] = mLife[p] \union {r}
  BY <1>1, <1>2 DEF MediaInv, MediaKinds
<1>7. \A q \in Paths : q # p => mStates'[q] = mStates[q] /\ mLife'[q] = mLife[q]
  BY <1>1, <1>2 DEF MediaInv, MediaKinds
<1>8. HeldBy(p)' = HeldBy(p) \union {r} /\ r \notin HeldBy(p)
  BY <1>0, <1>1, <1>3 DEF HeldBy
<1>9. \A q : q # p => HeldBy(q)' = HeldBy(q)
  BY <1>0, <1>1 DEF HeldBy
<1>10. mRaced \subseteq mRaced'
  BY <1>1
<1>11. \A q \in Paths : mStates[q].refCount \in Nat /\ mStates[q].deleteEligible \in BOOLEAN
  BY DEF MediaInv, MediaKinds
<1>12. Media!Eligible(mStates[p], mEntry[r].owned) \in BOOLEAN
  BY <1>2, <1>11 DEF Media!Eligible
<1>13. MediaKinds'
  <2>1. IsFiniteSet(mRefs') /\ mRefs' \subseteq Media!Refs
    BY <1>1, FS_AddElement DEF MediaInv, MediaKinds
  <2>2. mStates' \in [Paths -> [refCount : Nat, deleteEligible : BOOLEAN]]
    <3>1. mStates[p].refCount + 1 \in Nat
      BY <1>2, <1>11
    <3>q. QED BY <1>1, <1>12, <3>1 DEF MediaInv, MediaKinds
  <2>3. mLife' \in [Paths -> SUBSET Media!Refs]
    BY <1>1 DEF MediaInv, MediaKinds
  <2>q. QED BY <1>1, <1>5, <2>1, <2>2, <2>3 DEF MediaInv, MediaKinds
<1>14. CountsAreTrue'
  <2>1. IsFiniteSet(HeldBy(p))
    BY FS_Subset DEF HeldBy, MediaInv, MediaKinds
  <2>2. Cardinality(HeldBy(p)') = Cardinality(HeldBy(p)) + 1
    BY <1>8, <2>1, FS_AddElement
  <2>q. QED BY <1>2, <1>6, <1>7, <1>9, <2>2 DEF MediaInv, CountsAreTrue
<1>15. OwnedByAll'
  <2>1. ASSUME NEW q \in Paths, q # p
        PROVE  /\ HeldBy(q)' \subseteq mLife'[q]
               /\ mStates'[q].refCount = 0 => mLife'[q] = {}
               /\ \A s \in mLife'[q] : /\ mCall'[s] = "done"
                                       /\ mStates'[q].deleteEligible => mEntry'[s].owned
    BY <1>1, <1>4, <1>7, <1>9, <2>1 DEF MediaInv, MediaKinds, OwnedByAll
  <2>2. HeldBy(p)' \subseteq mLife'[p]
    BY <1>2, <1>6, <1>8 DEF MediaInv, OwnedByAll
  <2>3. mStates'[p].refCount # 0
    BY <1>2, <1>6, <1>11
  <2>4. \A s \in mLife'[p] : mCall'[s] = "done"
    BY <1>2, <1>4, <1>5, <1>6 DEF MediaInv, MediaKinds, OwnedByAll
  <2>5. ASSUME mStates'[p].deleteEligible, NEW s \in mLife'[p] PROVE mEntry'[s].owned
    <3>1. mEntry[r].owned
      BY <1>6, <2>5 DEF Media!Eligible
    <3>2. CASE s = r
      BY <1>1, <3>1, <3>2
    <3>3. CASE s # r
      <4>1. s \in mLife[p]
        BY <1>6, <3>3
      <4>2. mStates[p].refCount # 0
        BY <1>2, <4>1 DEF MediaInv, OwnedByAll
      <4>3. mStates[p].deleteEligible
        BY <1>6, <2>5, <4>2 DEF Media!Eligible
      <4>q. QED BY <1>1, <1>2, <4>1, <4>3 DEF MediaInv, OwnedByAll
    <3>q. QED BY <3>2, <3>3
  <2>6. /\ HeldBy(p)' \subseteq mLife'[p]
        /\ mStates'[p].refCount = 0 => mLife'[p] = {}
        /\ \A s \in mLife'[p] : /\ mCall'[s] = "done"
                                /\ mStates'[p].deleteEligible => mEntry'[s].owned
    BY <2>2, <2>3, <2>4, <2>5
  <2>q. QED BY <2>1, <2>6 DEF OwnedByAll
<1>16. DoomedAreFree'
  <2> SUFFICES ASSUME NEW d \in mDoomed
               PROVE  /\ d.path \in Paths /\ d.refs \subseteq Media!Refs
                      /\ \A s \in d.refs : mCall'[s] = "done" /\ mEntry'[s].owned
                      /\ HeldBy(d.path)' # {} => d.path \in mRaced'
    BY <1>1 DEF DoomedAreFree
  <2>1. /\ d.path \in Paths /\ d.refs \subseteq Media!Refs
        /\ \A s \in d.refs : mCall'[s] = "done" /\ mEntry'[s].owned
    BY <1>1, <1>4 DEF MediaInv, DoomedAreFree
  <2>2. CASE d.path = p
    BY <1>1, <2>1, <2>2
  <2>3. CASE d.path # p
    BY <1>9, <1>10, <2>1, <2>3 DEF MediaInv, DoomedAreFree
  <2>q. QED BY <2>1, <2>2, <2>3
<1>17. HeldAreThere'
  BY <1>1, <1>9, <1>10 DEF MediaInv, HeldAreThere
<1>q. QED BY <1>13, <1>14, <1>15, <1>16, <1>17 DEF MediaInv

(* References are released together: a path loses its last one when the   *)
(* count falls to zero, and it is then free.                               *)
LEMMA ReleaseStep ==
  ASSUME MediaInv, NEW R \in SUBSET mRefs, Media!Release(R)
  PROVE  MediaInv'
<1> DEFINE Last == {p \in Paths : /\ Among(R, p) # {}
                                   /\ Media!LastRef(mStates[p], Cardinality(Among(R, p)))}
<1>1. /\ mRefs' = mRefs \ R
      /\ mStates' = [p \in Paths |->
                       IF p \in Last THEN Media!NoState
                       ELSE [mStates[p] EXCEPT !.refCount = @ - Cardinality(Among(R, p))]]
      /\ mDoomed' = mDoomed \union {[path |-> p, refs |-> mLife[p]] :
                                      p \in {q \in Last : mStates[q].deleteEligible}}
      /\ mLife' = [p \in Paths |-> IF p \in Last THEN {} ELSE mLife[p]]
      /\ UNCHANGED <<mFiles, mCall, mEntry, mRaced>>
  BY MediaCounts DEF Media!Release, Among
<1>2. \A p : HeldBy(p)' = HeldBy(p) \ Among(R, p) /\ Among(R, p) \subseteq HeldBy(p)
  BY <1>1 DEF HeldBy, Among
<1>3. ASSUME NEW p \in Paths
      PROVE  /\ IsFiniteSet(HeldBy(p)) /\ Cardinality(HeldBy(p)) \in Nat
             /\ Cardinality(Among(R, p)) \in Nat
             /\ Cardinality(Among(R, p)) <= Cardinality(HeldBy(p))
             /\ Cardinality(Among(R, p)) = Cardinality(HeldBy(p)) => Among(R, p) = HeldBy(p)
             /\ Cardinality(HeldBy(p)') = Cardinality(HeldBy(p)) - Cardinality(Among(R, p))
             /\ mStates[p].refCount = Cardinality(HeldBy(p))
  <2>1. IsFiniteSet(HeldBy(p))
    BY FS_Subset DEF HeldBy, MediaInv, MediaKinds
  <2>2. /\ IsFiniteSet(Among(R, p))
        /\ Cardinality(Among(R, p)) <= Cardinality(HeldBy(p))
        /\ Cardinality(Among(R, p)) = Cardinality(HeldBy(p)) => Among(R, p) = HeldBy(p)
    BY <1>2, <2>1, FS_Subset
  <2>3. HeldBy(p) \intersect Among(R, p) = Among(R, p)
    BY <1>2
  <2>4. Cardinality(HeldBy(p) \ Among(R, p)) = Cardinality(HeldBy(p)) - Cardinality(Among(R, p))
    BY <2>1, <2>3, FS_Difference
  <2>q. QED BY <1>2, <2>1, <2>2, <2>4, FS_CardinalityType DEF MediaInv, CountsAreTrue
<1>4. ASSUME NEW p \in Last
      PROVE  p \in Paths /\ HeldBy(p)' = {} /\ mStates'[p] = Media!NoState /\ mLife'[p] = {}
  <2>1. p \in Paths /\ mStates[p].refCount <= Cardinality(Among(R, p))
    BY DEF Media!LastRef
  <2>2. Among(R, p) = HeldBy(p)
    BY <1>3, <2>1
  <2>q. QED BY <1>1, <1>2, <2>1, <2>2
<1>5. ASSUME NEW p \in Paths, p \notin Last
      PROVE  /\ mStates'[p].refCount = mStates[p].refCount - Cardinality(Among(R, p))
             /\ mStates'[p].deleteEligible = mStates[p].deleteEligible
             /\ mStates'[p] \in [refCount : Nat, deleteEligible : BOOLEAN]
             /\ mStates'[p].refCount = 0 => mStates[p].refCount = 0
             /\ mLife'[p] = mLife[p]
  <2>1. mStates[p] \in [refCount : Nat, deleteEligible : BOOLEAN]
    BY DEF MediaInv, MediaKinds
  <2>2. mStates'[p] = [mStates[p] EXCEPT
                         !.refCount = mStates[p].refCount - Cardinality(Among(R, p))]
    BY <1>1, <1>5
  <2>3. Among(R, p) = {} \/ mStates[p].refCount > Cardinality(Among(R, p))
    BY <1>3, <1>5 DEF Media!LastRef
  <2>4. Among(R, p) = {} => Cardinality(Among(R, p)) = 0
    BY FS_EmptySet
  <2>5. mStates[p].refCount - Cardinality(Among(R, p)) \in Nat
    BY <1>3, <2>3, <2>4
  <2>6. mStates[p].refCount - Cardinality(Among(R, p)) = 0 => mStates[p].refCount = 0
    BY <1>3, <2>3, <2>4
  <2>q. QED BY <1>1, <1>5, <2>1, <2>2, <2>5, <2>6
<1>6. ASSUME NEW d \in mDoomed', d \notin mDoomed
      PROVE  \E p \in Last : mStates[p].deleteEligible /\ d.path = p /\ d.refs = mLife[p]
  BY <1>1, <1>6
<1>7. DOMAIN mStates' = Paths /\ DOMAIN mLife' = Paths
      /\ mStates' = [p \in Paths |-> mStates'[p]] /\ mLife' = [p \in Paths |-> mLife'[p]]
  BY <1>1
<1> HIDE DEF Last
<1>8. MediaKinds'
  <2>1. IsFiniteSet(mRefs') /\ mRefs' \subseteq mRefs
    BY <1>1, FS_Difference DEF MediaInv, MediaKinds
  <2>2. \A p \in Paths : mStates'[p] \in [refCount : Nat, deleteEligible : BOOLEAN]
    <3>1. Media!NoState \in [refCount : Nat, deleteEligible : BOOLEAN]
      BY DEF Media!NoState
    <3>q. QED BY <1>4, <1>5, <3>1
  <2>3. \A p \in Paths : mLife'[p] \subseteq Media!Refs
    BY <1>4, <1>5 DEF MediaInv, MediaKinds
  <2>4. mStates' \in [Paths -> [refCount : Nat, deleteEligible : BOOLEAN]]
    BY <1>7, <2>2
  <2>5. mLife' \in [Paths -> SUBSET Media!Refs]
    BY <1>7, <2>3
  <2>q. QED BY <1>1, <2>1, <2>4, <2>5 DEF MediaInv, MediaKinds
<1>9. CountsAreTrue'
  <2> SUFFICES ASSUME NEW p \in Paths PROVE mStates'[p].refCount = Cardinality(HeldBy(p)')
    BY DEF CountsAreTrue
  <2>1. CASE p \in Last
    <3>1. mStates'[p] = Media!NoState /\ HeldBy(p)' = {}
      BY <1>4, <2>1
    <3>q. QED BY <3>1, FS_EmptySet DEF Media!NoState
  <2>2. CASE p \notin Last
    BY <1>3, <1>5, <2>2
  <2>q. QED BY <2>1, <2>2
<1>10. OwnedByAll'
  <2>1. \A p \in Paths : p \in Last => HeldBy(p)' = {} /\ mLife'[p] = {}
    BY <1>4
  <2>q. QED BY <1>1, <1>2, <1>5, <2>1 DEF MediaInv, OwnedByAll
<1>11. DoomedAreFree'
  <2> SUFFICES ASSUME NEW d \in mDoomed'
               PROVE  /\ d.path \in Paths /\ d.refs \subseteq Media!Refs
                      /\ \A s \in d.refs : mCall'[s] = "done" /\ mEntry'[s].owned
                      /\ HeldBy(d.path)' # {} => d.path \in mRaced'
    BY DEF DoomedAreFree
  <2>1. CASE d \in mDoomed
    BY <1>1, <1>2, <2>1 DEF MediaInv, DoomedAreFree
  <2>2. CASE d \notin mDoomed
    <3>1. PICK p \in Last : mStates[p].deleteEligible /\ d.path = p /\ d.refs = mLife[p]
      BY <1>6, <2>2
    <3>2. p \in Paths /\ HeldBy(p)' = {}
      BY <1>4
    <3>q. QED BY <1>1, <3>1, <3>2 DEF MediaInv, MediaKinds, OwnedByAll
  <2>q. QED BY <2>1, <2>2
<1>12. HeldAreThere'
  BY <1>1, <1>2 DEF MediaInv, HeldAreThere
<1>q. QED BY <1>8, <1>9, <1>10, <1>11, <1>12 DEF MediaInv

(* A file is removed: nobody holds it, or the race for it is remembered.   *)
LEMMA RemoveStep ==
  ASSUME MediaInv, NEW d \in mDoomed, Media!Remove(d)
  PROVE  MediaInv'
<1>1. /\ mDoomed' = mDoomed \ {d}
      /\ mFiles' = mFiles \/ mFiles' = mFiles \ {d.path}
      /\ UNCHANGED <<mCall, mEntry, mRefs, mStates, mLife, mRaced>>
  BY DEF Media!Remove
<1>2. \A p : HeldBy(p)' = HeldBy(p)
  BY <1>1 DEF HeldBy
<1>3. MediaKinds' /\ CountsAreTrue' /\ OwnedByAll'
  BY <1>1, <1>2 DEF MediaInv, MediaKinds, CountsAreTrue, OwnedByAll
<1>4. DoomedAreFree'
  BY <1>1, <1>2 DEF MediaInv, DoomedAreFree
<1>5. HeldAreThere'
  BY <1>1, <1>2 DEF MediaInv, DoomedAreFree, HeldAreThere
<1>q. QED BY <1>3, <1>4, <1>5 DEF MediaInv

(* Every step of the store keeps its invariant. *)
LEMMA NextMedia ==
  ASSUME MediaInv, Media!MNext \/ UNCHANGED mVars
  PROVE  MediaInv'
<1>1. CASE UNCHANGED mVars
  BY <1>1 DEF mVars, MediaInv, MediaKinds, CountsAreTrue, OwnedByAll, DoomedAreFree,
              HeldAreThere, HeldBy
<1>2. ASSUME NEW r \in Media!Refs, Media!Age(r) PROVE MediaInv'
  BY <1>2 DEF Media!Age, MediaInv, MediaKinds, CountsAreTrue, OwnedByAll, DoomedAreFree,
              HeldAreThere, HeldBy
<1>3. ASSUME NEW s \in Scopes, Media!ReleaseAll(s) PROVE MediaInv'
  <2>1. \E R \in SUBSET mRefs : Media!Release(R)
    BY <1>3 DEF Media!ReleaseAll
  <2>q. QED BY <2>1, ReleaseStep
<1>4. CASE Media!CleanExpired
  <2>1. \E R \in SUBSET mRefs : Media!Release(R)
    BY <1>4 DEF Media!CleanExpired
  <2>q. QED BY <2>1, ReleaseStep
<1>q. QED BY <1>1, <1>2, <1>3, <1>4, StatStep, RegisterStep, RemoveStep DEF Media!MNext

(* A reference that resolves has its file, unless it was stored while a    *)
(* removal of the file was under way, and a file that somebody asked to be *)
(* kept is never removed.                                                  *)
THEOREM StoredFilesStay == Spec => []RefsHaveFiles
<1>1. Init => MediaInv
  BY InitMedia DEF Init
<1>2. MediaInv /\ [Next]_chVars => MediaInv'
  BY StepOfAConnection, NextMedia
<1>3. MediaInv => RefsHaveFiles
  BY MediaGoal DEF RefsHaveFiles
<1>q. QED BY <1>1, <1>2, <1>3, PTL DEF Spec

--------------------------------------------------------------------------------
(* WhatsApp *)

Begun == {k \in Phone!Workers : aWorker[k] # "none"}
Active == {"check", "connect", "backoff", "reset"}

(* What is known of the goroutines and the handlers. *)
PhoneKinds ==
  /\ aStart \in {"no", "connect", "qr", "running", "failed"}
  /\ aStop \in {"no", "flagged", "wait", "waited", "gaveUp", "stopped", "forced"}
  /\ aWorker \in [Phone!Workers -> {"none", "check", "connect", "backoff", "reset", "done"}]
  /\ aIncoming \in [Phone!Incoming -> {"none", "skipped", "handling", "publishing", "published",
                                        "panicked"}]
  /\ {aStopping, aRunDone, aClient, aConnected} \subseteq BOOLEAN
  /\ aDrops \in Nat /\ aEvents \in Nat

(* Start comes before everything else, and Stop goes on in one order.      *)
LifeIsOrdered ==
  /\ aStop # "no" => aStart = "running"
  /\ aStopping <=> aStop # "no"
  /\ aStart # "failed" => (aRunDone <=> aStop \notin {"no", "flagged"})
  /\ aStart \notin {"no", "failed"} => (aClient <=> aStop \notin {"stopped", "forced"})
  /\ aStart \in {"no", "connect", "failed"} =>
       /\ ~aConnected /\ aEvents = 0
       /\ \A k \in Phone!Workers : aWorker[k] = "none"
       /\ \A m \in Phone!Incoming : aIncoming[m] = "none"

(* Each reconnect goroutine has taken an event of its own, so one that has *)
(* not begun is there for each event to come.                              *)
EventsAreTakenOnce ==
  /\ aDrops <= MaxDrops
  /\ Cardinality(Begun) + aEvents <= aDrops

(* A reconnect goroutine at work is in the wait group. *)
WorkIsTracked == \A k \in Phone!Workers : aWorker[k] \in Active => k \in aTracked

(* A Stop that has waited has found the wait group empty, and nothing is   *)
(* added to it afterwards; a connection that is up after Disconnect has    *)
(* slipped through.                                                        *)
StopHasWaited ==
  /\ aStop \in {"waited", "stopped"} => aTracked = {}
  /\ aStop \notin {"no", "flagged"} => (aConnected => aSlipped)
  /\ \A m \in Phone!Incoming :
       aIncoming[m] = "panicked" => aStop \in {"stopped", "forced"}

(* From the connection on, not only when Start is over. *)
LossWillBeSeen ==
  (aStart \in {"qr", "running"} /\ ~aStopping /\ ~aConnected) =>
    \/ aEvents > 0
    \/ \E k \in Phone!Workers : aWorker[k] \in {"check", "connect", "backoff"}
    \/ aIgnored

PhoneInv ==
  /\ PhoneKinds /\ LifeIsOrdered /\ EventsAreTakenOnce
  /\ WorkIsTracked /\ StopHasWaited /\ LossWillBeSeen

(* The invariant says what it is for. *)
LEMMA PhoneGoal == PhoneInv => Phone!StopIsClean /\ Phone!LossIsNoticed
<1> SUFFICES ASSUME PhoneInv PROVE Phone!StopIsClean /\ Phone!LossIsNoticed
  OBVIOUS
<1>1. Phone!LossIsNoticed
  BY DEF PhoneInv, LossWillBeSeen, Phone!LossIsNoticed
<1>2. aStop \in {"waited", "stopped"} =>
        \A k \in Phone!Workers : aWorker[k] \in {"none", "done"}
  BY DEF PhoneInv, PhoneKinds, StopHasWaited, WorkIsTracked, Active
<1>q. QED BY <1>1, <1>2 DEF PhoneInv, StopHasWaited, Phone!StopIsClean

(* The invariant holds before Start. *)
LEMMA InitPhone == DropsAssumption /\ Phone!AInit => PhoneInv
<1> SUFFICES ASSUME DropsAssumption, Phone!AInit PROVE PhoneInv
  OBVIOUS
<1>1. Begun = {}
  BY DEF Begun, Phone!AInit
<1>2. EventsAreTakenOnce
  BY <1>1, FS_EmptySet DEF DropsAssumption, EventsAreTakenOnce, Phone!AInit
<1>q. QED BY <1>2 DEF Phone!AInit, PhoneInv, PhoneKinds, LifeIsOrdered, WorkIsTracked, Active,
              StopHasWaited, LossWillBeSeen

(* There are finitely many reconnect goroutines. *)
LEMMA BegunIsFinite ==
  ASSUME DropsAssumption PROVE IsFiniteSet(Begun) /\ Cardinality(Begun) \in Nat
<1>1. IsFiniteSet(1..MaxDrops)
  BY FS_Interval DEF DropsAssumption
<1>2. Begun \in SUBSET (1..MaxDrops)
  BY DEF Begun, Phone!Workers
<1>3. IsFiniteSet(Begun)
  BY <1>1, <1>2, FS_Subset
<1>q. QED BY <1>3, FS_CardinalityType

(* A goroutine is free for an event. *)
LEMMA AWorkerIsFree ==
  ASSUME DropsAssumption, PhoneInv, aEvents > 0
  PROVE  /\ Phone!FreeWorker \in Phone!Workers
         /\ aWorker[Phone!FreeWorker] = "none"
<1>1. \E k \in Phone!Workers : aWorker[k] = "none"
  <2> SUFFICES ASSUME Begun = Phone!Workers PROVE FALSE
    BY DEF Begun
  <2>1. IsFiniteSet(1..MaxDrops) /\ Cardinality(1..MaxDrops) = MaxDrops
    BY FS_Interval DEF DropsAssumption
  <2>2. Cardinality(Begun) = MaxDrops
    BY <2>1 DEF Phone!Workers
  <2>q. QED BY <2>2 DEF DropsAssumption, PhoneInv, PhoneKinds, EventsAreTakenOnce
<1>q. QED BY <1>1 DEF Phone!FreeWorker

(* The steps of Start and of Stop. *)
LEMMA LifeStep ==
  ASSUME PhoneInv,
         \/ Phone!Open \/ Phone!ConnectFails \/ Phone!ConnectSucceeds
         \/ Phone!FlagStopping \/ Phone!Disconnect \/ Phone!Wait \/ Phone!ClearAndClose
  PROVE  PhoneInv'
<1>1. UNCHANGED <<aWorker, aIncoming, aDrops, aEvents, aTracked, aIgnored, aSlipped>>
  BY DEF Phone!Open, Phone!ConnectFails, Phone!ConnectSucceeds, Phone!FlagStopping,
         Phone!Disconnect, Phone!Wait, Phone!ClearAndClose, Phone!lifeVars,
         Phone!linkVars, Phone!workVars, Phone!trafficVars
<1>2. EventsAreTakenOnce' /\ WorkIsTracked'
  BY <1>1 DEF PhoneInv, EventsAreTakenOnce, WorkIsTracked, Begun
<1> USE <1>1, <1>2 DEF PhoneInv, PhoneKinds, LifeIsOrdered, StopHasWaited, LossWillBeSeen,
        Phone!linkVars, Phone!workVars
<1>3. CASE Phone!Open
  BY <1>3 DEF Phone!Open
<1>4. CASE Phone!ConnectFails
  BY <1>4 DEF Phone!ConnectFails
<1>5. CASE Phone!ConnectSucceeds
  BY <1>5 DEF Phone!ConnectSucceeds
<1>6. CASE Phone!FlagStopping
  BY <1>6 DEF Phone!FlagStopping
<1>7. CASE Phone!Disconnect
  BY <1>7 DEF Phone!Disconnect
<1>8. CASE Phone!Wait
  BY <1>8 DEF Phone!Wait
<1>9. CASE Phone!ClearAndClose
  <2>1. /\ aStop \in {"waited", "gaveUp"} /\ ~aClient'
        /\ aStop' = IF aStop = "waited" THEN "stopped" ELSE "forced"
        /\ UNCHANGED <<aStart, aStopping, aRunDone, aConnected>>
    BY <1>9 DEF Phone!ClearAndClose
  <2>2. aStop' \in {"stopped", "forced"} /\ (aStop' = "stopped" => aStop = "waited")
    BY <2>1
  <2>3. PhoneKinds'
    BY <1>9, <2>1, <2>2 DEF Phone!ClearAndClose
  <2>4. LifeIsOrdered' /\ StopHasWaited' /\ LossWillBeSeen'
    BY <2>1, <2>2
  <2>q. QED BY <2>3, <2>4
<1>q. QED BY <1>3, <1>4, <1>5, <1>6, <1>7, <1>8, <1>9

(* The goroutine of the codes enters the wait group and leaves it. *)
LEMMA QRStep ==
  ASSUME PhoneInv, Phone!TrackQR \/ Phone!QRDone
  PROVE  PhoneInv'
<1>1. /\ UNCHANGED <<aStop, aStopping, aRunDone, aClient, aConnected, aDrops, aEvents,
                     aWorker, aIncoming, aIgnored, aSlipped>>
      /\ aStart' = aStart \/ (aStart = "qr" /\ aStart' = "running")
      /\ aTracked' = aTracked \ {0} \/ (~aStopping /\ aTracked' = aTracked \union {0})
  BY DEF Phone!TrackQR, Phone!QRDone, Phone!QR, Phone!lifeVars, Phone!linkVars,
         Phone!trafficVars
<1>2. EventsAreTakenOnce'
  BY <1>1 DEF PhoneInv, EventsAreTakenOnce, Begun
<1>3. WorkIsTracked'
  <2>1. \A k \in Phone!Workers : k # 0
    BY DEF Phone!Workers
  <2>q. QED BY <1>1, <2>1 DEF PhoneInv, WorkIsTracked
<1>q. QED BY <1>1, <1>2, <1>3 DEF PhoneInv, PhoneKinds, LifeIsOrdered, StopHasWaited,
                                  LossWillBeSeen

(* The connection drops, and its event is on the way. *)
LEMMA DropStep == ASSUME DropsAssumption, PhoneInv, Phone!Drop PROVE PhoneInv'
<1>1. /\ aConnected /\ aDrops < MaxDrops /\ aConnected' = FALSE
      /\ aDrops' = aDrops + 1 /\ aEvents' = aEvents + 1
      /\ UNCHANGED <<aStart, aStop, aStopping, aRunDone, aClient, aWorker, aTracked,
                     aIncoming, aIgnored, aSlipped>>
  BY DEF Phone!Drop, Phone!lifeVars, Phone!workVars, Phone!trafficVars, PhoneInv,
         PhoneKinds
<1>2. EventsAreTakenOnce'
  <2>2. Cardinality(Begun) \in Nat
    BY BegunIsFinite
  <2>3. Begun' = Begun
    BY <1>1 DEF Begun
  <2>q. QED BY <1>1, <2>2, <2>3 DEF PhoneInv, PhoneKinds, EventsAreTakenOnce,
                                    DropsAssumption
<1>3. aEvents' > 0 /\ aEvents' \in Nat /\ aDrops' \in Nat
  BY <1>1 DEF PhoneInv, PhoneKinds
<1>4. PhoneKinds'
  BY <1>1, <1>3 DEF PhoneInv, PhoneKinds
<1>5. LifeIsOrdered'
  BY <1>1 DEF PhoneInv, LifeIsOrdered
<1>6. WorkIsTracked' /\ StopHasWaited'
  BY <1>1 DEF PhoneInv, WorkIsTracked, StopHasWaited
<1>7. LossWillBeSeen'
  BY <1>3 DEF LossWillBeSeen
<1>q. QED BY <1>2, <1>4, <1>5, <1>6, <1>7 DEF PhoneInv

(* The event comes: it is passed over or begins a reconnect. *)
LEMMA EventStep == ASSUME DropsAssumption, PhoneInv, Phone!Disconnected PROVE PhoneInv'
<1>1. /\ aEvents > 0 /\ aEvents' = aEvents - 1
      /\ UNCHANGED <<aStart, aStop, aStopping, aRunDone, aClient, aConnected, aDrops,
                     aIncoming, aSlipped>>
  BY DEF Phone!Disconnected, Phone!lifeVars, Phone!trafficVars
<1>2. aEvents' \in Nat /\ aEvents' < aEvents
  BY <1>1 DEF PhoneInv, PhoneKinds
<1>3. IsFiniteSet(Begun) /\ Cardinality(Begun) \in Nat
  BY BegunIsFinite
<1>4. CASE aWorker' = aWorker
  <2>1. aTracked' = aTracked
    BY <1>1, <1>4, AWorkerIsFree DEF Phone!Disconnected, PhoneInv, PhoneKinds
  <2>2. \/ aIgnored' \/ aStopping
        \/ \E k \in Phone!Workers : aWorker[k] \in {"check", "connect", "backoff"}
    BY <1>1, <1>4, AWorkerIsFree DEF Phone!Disconnected, Phone!MayTrack, PhoneInv,
       PhoneKinds
  <2>3. EventsAreTakenOnce'
    <3>1. Begun' = Begun
      BY <1>4 DEF Begun
    <3>q. QED BY <1>1, <1>2, <1>3, <3>1 DEF PhoneInv, PhoneKinds, EventsAreTakenOnce
  <2>q. QED BY <1>1, <1>2, <1>4, <2>1, <2>2, <2>3
            DEF PhoneInv, PhoneKinds, LifeIsOrdered, WorkIsTracked, StopHasWaited,
                LossWillBeSeen
<1>5. CASE aWorker' # aWorker
  <2>1. PICK k \in Phone!Workers :
          /\ aWorker[k] = "none" /\ ~aStopping
          /\ aWorker' = [aWorker EXCEPT ![k] = "check"]
          /\ aTracked' = aTracked \union {k}
          /\ aIgnored' = aIgnored
    BY <1>1, <1>5, AWorkerIsFree DEF Phone!Disconnected, Phone!MayTrack
  <2>2. aWorker'[k] = "check" /\ k \in aTracked'
    BY <2>1 DEF PhoneInv, PhoneKinds
  <2>3. EventsAreTakenOnce'
    <3>1. Begun' = Begun \union {k} /\ k \notin Begun
      BY <2>1 DEF Begun, PhoneInv, PhoneKinds
    <3>2. Cardinality(Begun \union {k}) = Cardinality(Begun) + 1
      BY <1>3, <3>1, FS_AddElement
    <3>3. Cardinality(Begun') = Cardinality(Begun) + 1
      BY <3>1, <3>2
    <3>q. QED BY <1>1, <1>2, <1>3, <3>3 DEF PhoneInv, PhoneKinds, EventsAreTakenOnce
  <2>4. PhoneKinds' /\ LifeIsOrdered'
    BY <1>1, <1>2, <2>1 DEF PhoneInv, PhoneKinds, LifeIsOrdered
  <2>5. WorkIsTracked'
    BY <2>1, <2>2 DEF PhoneInv, PhoneKinds, WorkIsTracked
  <2>6. StopHasWaited'
    BY <1>1, <2>1 DEF PhoneInv, LifeIsOrdered, StopHasWaited
  <2>7. LossWillBeSeen'
    BY <2>2 DEF LossWillBeSeen
  <2>q. QED BY <2>3, <2>4, <2>5, <2>6, <2>7 DEF PhoneInv
<1>q. QED BY <1>4, <1>5

(* A round of a reconnect goroutine, and its end. *)
LEMMA WorkStep ==
  ASSUME PhoneInv, NEW k \in Phone!Workers, Phone!Work(k)
  PROVE  PhoneInv'
<1>1. UNCHANGED <<aStart, aStop, aStopping, aRunDone, aClient, aDrops, aEvents, aIncoming,
                  aIgnored>>
  BY DEF Phone!Work, Phone!Check, Phone!Connect, Phone!Backoff, Phone!Reset, Phone!Done,
         Phone!lifeVars, Phone!linkVars, Phone!trafficVars
<1>2. \/ /\ aWorker' = [aWorker EXCEPT ![k] = "connect"]
         /\ aWorker[k] = "check"
         /\ UNCHANGED <<aConnected, aTracked, aSlipped>>
      \/ /\ aWorker' = [aWorker EXCEPT ![k] = "reset"]
         /\ aWorker[k] \in {"check", "backoff"}
         /\ aRunDone \/ ~aClient \/ aConnected
         /\ UNCHANGED <<aConnected, aTracked, aSlipped>>
      \/ /\ aWorker' = [aWorker EXCEPT ![k] = "reset"]
         /\ aWorker[k] = "connect"
         /\ aConnected' = TRUE
         /\ aSlipped' = (aSlipped \/ aStop \notin {"no", "flagged"})
         /\ UNCHANGED aTracked
      \/ /\ aWorker' = [aWorker EXCEPT ![k] = "backoff"]
         /\ aWorker[k] = "connect"
         /\ UNCHANGED <<aConnected, aTracked, aSlipped>>
      \/ /\ aWorker' = [aWorker EXCEPT ![k] = "check"]
         /\ aWorker[k] = "backoff"
         /\ UNCHANGED <<aConnected, aTracked, aSlipped>>
      \/ /\ aWorker' = [aWorker EXCEPT ![k] = "done"]
         /\ aWorker[k] = "reset"
         /\ UNCHANGED <<aConnected, aTracked, aSlipped>>
      \/ /\ UNCHANGED <<aWorker, aConnected, aSlipped>>
         /\ aWorker[k] = "done"
         /\ aTracked' = aTracked \ {k}
  <2>1. CASE Phone!Check(k)
    BY <2>1 DEF Phone!Check, Phone!lifeVars, Phone!linkVars
  <2>2. CASE Phone!Connect(k)
    BY <2>2 DEF Phone!Connect, Phone!AfterFailure
  <2>3. CASE Phone!Backoff(k)
    BY <2>3 DEF Phone!Backoff, Phone!linkVars
  <2>4. CASE Phone!Reset(k)
    BY <2>4 DEF Phone!Reset, Phone!linkVars
  <2>5. CASE Phone!Done(k)
    BY <2>5 DEF Phone!Done, Phone!linkVars
  <2>q. QED BY <2>1, <2>2, <2>3, <2>4, <2>5 DEF Phone!Work
<1>3. /\ aWorker'[k] \in Active \union {"done"} /\ aWorker[k] # "none"
      /\ aWorker'[k] \in Active => aWorker[k] \in Active
      /\ aWorker' \in [Phone!Workers -> {"none", "check", "connect", "backoff", "reset", "done"}]
      /\ \A j \in Phone!Workers : j # k => aWorker'[j] = aWorker[j]
  BY <1>2 DEF PhoneInv, PhoneKinds, Active
<1>4. /\ aTracked' = aTracked \/ (aTracked' = aTracked \ {k} /\ aWorker'[k] = "done")
      /\ aConnected' \in BOOLEAN
      /\ aConnected' # aConnected =>
           aConnected' /\ aWorker[k] = "connect"
             /\ (aStop \notin {"no", "flagged"} => aSlipped')
      /\ aSlipped => aSlipped'
  <2>1. aConnected \in BOOLEAN
    BY DEF PhoneInv, PhoneKinds
  <2>2. aTracked' = aTracked \/ (aTracked' = aTracked \ {k} /\ aWorker'[k] = "done")
    BY <1>2
  <2>3. aSlipped => aSlipped'
    BY <1>2
  <2>4. aConnected' = aConnected
          \/ (aConnected' = TRUE /\ aWorker[k] = "connect"
                /\ (aStop \notin {"no", "flagged"} => aSlipped'))
    BY <1>2
  <2>q. QED BY <2>1, <2>2, <2>3, <2>4
<1>5. PhoneKinds'
  BY <1>1, <1>3, <1>4 DEF PhoneInv, PhoneKinds
<1>6. WorkIsTracked'
  BY <1>3, <1>4 DEF PhoneInv, WorkIsTracked, Active
<1>7. EventsAreTakenOnce'
  <2>1. Begun' = Begun
    BY <1>3 DEF Begun, Active
  <2>q. QED BY <1>1, <2>1 DEF PhoneInv, EventsAreTakenOnce
<1>8. StopHasWaited'
  BY <1>1, <1>4 DEF PhoneInv, StopHasWaited
<1>9. LifeIsOrdered'
  <2>1. aStart \notin {"no", "connect", "failed"}
    BY <1>3 DEF PhoneInv, LifeIsOrdered
  <2>q. QED BY <1>1, <2>1 DEF PhoneInv, LifeIsOrdered
<1>10. LossWillBeSeen'
  <2> SUFFICES ASSUME aStart \in {"qr", "running"}, ~aStopping, ~aConnected', ~aIgnored,
                      ~(aEvents > 0)
               PROVE  \E j \in Phone!Workers : aWorker'[j] \in {"check", "connect", "backoff"}
    BY <1>1 DEF LossWillBeSeen
  <2>1. ~aConnected /\ aClient /\ ~aRunDone
    BY <1>4 DEF PhoneInv, PhoneKinds, LifeIsOrdered
  <2>2. PICK j \in Phone!Workers : aWorker[j] \in {"check", "connect", "backoff"}
    BY <2>1 DEF PhoneInv, LossWillBeSeen
  <2>3. CASE j = k
    <3>1. aWorker'[k] \in {"check", "connect", "backoff"}
      BY <1>2, <2>1, <2>2, <2>3 DEF PhoneInv, PhoneKinds
    <3>q. QED BY <3>1
  <2>4. CASE j # k
    BY <1>3, <2>2, <2>4
  <2>q. QED BY <2>3, <2>4
<1>q. QED BY <1>5, <1>6, <1>7, <1>8, <1>9, <1>10 DEF PhoneInv

(* A message's handler looks at the client, and Send leaves it alone. *)
LEMMA TrafficStep ==
  ASSUME PhoneInv,
         \/ \E m \in Phone!Incoming :
              Phone!Receive(m) \/ Phone!HandleIncoming(m) \/ Phone!Publish(m)
         \/ Phone!Send \/ Phone!RetrySend
  PROVE  PhoneInv'
<1>1. UNCHANGED <<aStart, aStop, aStopping, aRunDone, aClient, aConnected, aDrops, aEvents,
                  aTracked, aWorker, aIgnored, aSlipped>>
  BY DEF Phone!Receive, Phone!HandleIncoming, Phone!Publish, Phone!Send, Phone!RetrySend,
         Phone!lifeVars, Phone!linkVars, Phone!workVars
<1>2. EventsAreTakenOnce' /\ WorkIsTracked' /\ LossWillBeSeen'
  BY <1>1 DEF PhoneInv, EventsAreTakenOnce, Begun, WorkIsTracked, LossWillBeSeen
<1>3. CASE UNCHANGED aIncoming
  BY <1>1, <1>2, <1>3 DEF PhoneInv, PhoneKinds, LifeIsOrdered, StopHasWaited
<1>4. ASSUME NEW m \in Phone!Incoming,
             Phone!Receive(m) \/ Phone!HandleIncoming(m) \/ Phone!Publish(m)
      PROVE  PhoneInv'
  <2>1. PICK at \in {"skipped", "handling", "publishing", "published", "panicked"} :
          /\ aIncoming' = [aIncoming EXCEPT ![m] = at]
          /\ aConnected \/ aIncoming[m] \in {"handling", "publishing"}
          /\ at = "panicked" => ~aClient
    <3>1. CASE Phone!Receive(m)
      BY <3>1 DEF Phone!Receive
    <3>2. CASE Phone!HandleIncoming(m)
      BY <3>2 DEF Phone!HandleIncoming
    <3>3. CASE Phone!Publish(m)
      BY <3>3 DEF Phone!Publish
    <3>q. QED BY <1>4, <3>1, <3>2, <3>3
  <2>2. aStart \notin {"no", "connect", "failed"}
    BY <2>1 DEF PhoneInv, LifeIsOrdered
  <2>3. at = "panicked" => aStop \in {"stopped", "forced"}
    BY <2>1, <2>2 DEF PhoneInv, LifeIsOrdered
  <2>4. PhoneKinds'
    BY <1>1, <2>1 DEF PhoneInv, PhoneKinds
  <2>5. LifeIsOrdered'
    BY <1>1, <2>2 DEF PhoneInv, LifeIsOrdered
  <2>6. StopHasWaited'
    BY <1>1, <2>1, <2>3 DEF PhoneInv, PhoneKinds, StopHasWaited
  <2>q. QED BY <1>2, <2>4, <2>5, <2>6 DEF PhoneInv
<1>5. CASE Phone!Send \/ Phone!RetrySend
  <2>1. UNCHANGED aIncoming
    BY <1>5 DEF Phone!Send, Phone!RetrySend
  <2>q. QED BY <1>3, <2>1
<1>q. QED BY <1>4, <1>5

(* Every step of the channel keeps its invariant. *)
LEMMA NextPhone ==
  ASSUME DropsAssumption, PhoneInv, Phone!ANext \/ UNCHANGED aVars
  PROVE  PhoneInv'
<1>1. CASE UNCHANGED aVars
  BY <1>1 DEF aVars, PhoneInv, PhoneKinds, LifeIsOrdered, EventsAreTakenOnce, Begun,
              WorkIsTracked, StopHasWaited, LossWillBeSeen
<1>q. QED BY <1>1, LifeStep, QRStep, DropStep, EventStep, WorkStep, TrafficStep
          DEF Phone!ANext

(* The invariant, of the composition. *)
LEMMA PhoneInvariance == Spec => []PhoneInv
<1>0. DropsAssumption
  BY PartsAssumption
<1>1. Init => PhoneInv
  BY <1>0, InitPhone DEF Init
<1>2. PhoneInv /\ [Next]_chVars => PhoneInv'
  BY <1>0, StepOfAConnection, NextPhone
<1>q. QED BY <1>1, <1>2, PTL DEF Spec

(* After a Stop that has waited, the goroutines it tracks, those of the QR *)
(* codes and of the reconnects, have ended and none is added, and the      *)
(* connection is down unless a reconnect slipped through.  Of a message's  *)
(* handler, which is not tracked and may go on, it says only that it does  *)
(* not find the client gone before Stop has cleared it.                    *)
THEOREM StopLeavesNothing == Spec => []StopIsClean
<1>1. PhoneInv => StopIsClean
  BY PhoneGoal DEF StopIsClean
<1>q. QED BY <1>1, PhoneInvariance, PTL

(* A connection that is lost before a Stop has an event on the way or a    *)
(* reconnect that will look, unless the event met a reconnect at its end.  *)
THEOREM LossesAreNoticed == Spec => []LossIsNoticed
<1>1. PhoneInv => LossIsNoticed
  BY PhoneGoal DEF LossIsNoticed
<1>q. QED BY <1>1, PhoneInvariance, PTL

--------------------------------------------------------------------------------
(* The types *)

(* The types of the server are right before the first connection.          *)
LEMMA InitServerTypes == Server!WInit => Server!WTypeOK
  BY DEF Server!WInit, Server!WTypeOK

(* Every step of the server keeps them.                                    *)
LEMMA NextServerTypes ==
  ASSUME WsAssumption, Server!WTypeOK, Server!WNext \/ UNCHANGED wVars PROVE Server!WTypeOK'
<1> USE DEF Server!WTypeOK, Server!Goto, Server!indexes
<1>1. CASE UNCHANGED wVars
  BY <1>1 DEF wVars
<1>2. ASSUME NEW c \in Conns,
             \/ Server!Connect(c) \/ Server!CheckContext(c) \/ Server!ReadMessage(c)
             \/ Server!HandleMessage(c) \/ Server!ReadFails(c)
      PROVE  Server!WTypeOK'
  BY <1>2 DEF Server!Connect, Server!CheckContext, Server!AfterContextCheck, Server!ReadMessage,
              Server!HandleMessage, Server!ReadFails
<1>3. ASSUME NEW c \in Conns, Server!CreateAndAddConnection(c) PROVE Server!WTypeOK'
  <2>1. SessionOf[c] \in WsSessions
    BY DEF WsAssumption
  <2>q. QED BY <1>3, <2>1 DEF Server!CreateAndAddConnection
<1>4. ASSUME NEW c \in Conns, Server!Close(c) PROVE Server!WTypeOK'
  BY <1>4 DEF Server!Close
<1>5. ASSUME NEW c \in Conns, Server!RemoveConnection(c) PROVE Server!WTypeOK'
  BY <1>5 DEF Server!RemoveConnection
<1>6. CASE Server!Stop
  BY <1>6 DEF Server!Stop, Server!StopRunning, Server!TakeAllConnections, Server!CloseTaken
<1>q. QED BY <1>1, <1>2, <1>3, <1>4, <1>5, <1>6
          DEF Server!WNext, Server!Serve, Server!ReadMustFail

(* The types of the client are right before the first dial.                *)
LEMMA InitClientTypes == LinkAssumption /\ Client!CInit => Client!CTypeOK
<1> SUFFICES ASSUME LinkAssumption, Client!CInit PROVE Client!CTypeOK
  OBVIOUS
<1>1. MaxDials \in Nat
  BY DEF LinkAssumption
<1>2. 0 \in 0..MaxDials
  BY <1>1
<1>3. cReader \in [Client!Dials -> {"none", "loop", "reading", "closing", "gone"}]
      /\ cClosed \in [Client!Dials -> BOOLEAN]
  BY DEF Client!CInit
<1>q. QED BY <1>2, <1>3 DEF Client!CInit, Client!CTypeOK

(* Every step of the client keeps them.                                    *)
LEMMA NextClientTypes ==
  ASSUME LinkAssumption, Client!CTypeOK, Client!CNext \/ UNCHANGED cVars PROVE Client!CTypeOK'
<1> USE DEF Client!CTypeOK
<1>0. MaxDials \in Nat
  BY DEF LinkAssumption
<1>1. CASE UNCHANGED cVars
  BY <1>1 DEF cVars
<1>2. CASE Client!DialFails \/ Client!Reconnect
  BY <1>2 DEF Client!DialFails, Client!Reconnect
<1>3. CASE Client!DialSucceeds
  BY <1>0, <1>3 DEF Client!DialSucceeds
<1>4. CASE Client!Keep
  BY <1>4 DEF Client!Keep
<1>5. CASE Client!StopCancels \/ Client!StopCloses
  BY <1>5 DEF Client!StopCancels, Client!StopCloses
<1>6. ASSUME NEW k \in Client!Dials,
             \/ Client!CheckContext(k) \/ Client!ReadMessage(k)
             \/ Client!ReadFails(k) \/ Client!CloseConn(k)
      PROVE  Client!CTypeOK'
  BY <1>6 DEF Client!CheckContext, Client!AfterCheck, Client!ReadMessage, Client!ReadFails,
              Client!CloseConn
<1>q. QED BY <1>1, <1>2, <1>3, <1>4, <1>5, <1>6
          DEF Client!CNext, Client!Loop, Client!CServe, Client!ReadMustFail

(* What the invariant of the store leaves open. *)
StoreTypes ==
  /\ mFiles \subseteq Paths /\ mRaced \subseteq Paths /\ mOld \subseteq Media!Refs
  /\ mEntry \in [Media!Refs -> Media!Entries]

(* The types of the store are right when nothing is stored.                *)
LEMMA InitStoreTypes == LinkAssumption /\ Media!MInit => StoreTypes
<1> SUFFICES ASSUME LinkAssumption, Media!MInit PROVE StoreTypes
  OBVIOUS
<1>1. PICK p \in Paths, s \in Scopes : TRUE
  BY DEF LinkAssumption
<1>2. [path |-> p, scope |-> s, owned |-> TRUE] \in Media!Entries
  BY DEF Media!Entries
<1>3. (CHOOSE e \in Media!Entries : TRUE) \in Media!Entries
  BY <1>2
<1>q. QED BY <1>3 DEF Media!MInit, StoreTypes

(* Every step of the store keeps them.                                     *)
LEMMA NextStoreTypes ==
  ASSUME MediaInv, StoreTypes, Media!MNext \/ UNCHANGED mVars PROVE StoreTypes'
<1> USE DEF StoreTypes
<1>0. mRefs \subseteq Media!Refs
  BY DEF MediaInv, MediaKinds
<1>1. CASE UNCHANGED mVars
  BY <1>1 DEF mVars
<1>2. ASSUME NEW r \in Media!Refs, NEW e \in Media!Entries, Media!Stat(r, e) PROVE StoreTypes'
  BY <1>2 DEF Media!Stat
<1>3. ASSUME NEW r \in Media!Refs, Media!Register(r) PROVE StoreTypes'
  <2>1. mEntry[r].path \in Paths
    BY DEF Media!Entries
  <2>q. QED BY <1>3, <2>1 DEF Media!Register
<1>4. ASSUME NEW r \in Media!Refs, Media!Age(r) PROVE StoreTypes'
  BY <1>0, <1>4 DEF Media!Age
<1>5. CASE (\E s \in Scopes : Media!ReleaseAll(s)) \/ Media!CleanExpired
  BY <1>5 DEF Media!ReleaseAll, Media!CleanExpired, Media!Release
<1>6. ASSUME NEW d \in mDoomed, Media!Remove(d) PROVE StoreTypes'
  BY <1>6 DEF Media!Remove
<1>q. QED BY <1>1, <1>2, <1>3, <1>4, <1>5, <1>6 DEF Media!MNext

(* With the invariant they are all there is to say of the types.           *)
LEMMA StoreGoal == MediaInv /\ StoreTypes => Media!MTypeOK
  BY DEF MediaInv, MediaKinds, DoomedAreFree, StoreTypes, Media!MTypeOK

(* What the invariant of WhatsApp leaves open. *)
PhoneTypes ==
  /\ {aReconnecting, aIgnored, aSlipped} \subseteq BOOLEAN
  /\ aTracked \subseteq Phone!Workers \union {Phone!QR}
  /\ aSending \in 0..Phone!Rest /\ aSends \in 0..aMaxSends

(* The types of WhatsApp are right before Start.                           *)
LEMMA InitPhoneTypes == LinkAssumption /\ Phone!AInit => PhoneTypes
<1> SUFFICES ASSUME LinkAssumption, Phone!AInit PROVE PhoneTypes
  OBVIOUS
<1>1. MaxRetries \in Nat /\ aMaxSends \in Nat
  BY DEF LinkAssumption
<1>2. Phone!Rest \in 0..Phone!Rest /\ 0 \in 0..aMaxSends
  BY <1>1 DEF Phone!Rest
<1>q. QED BY <1>2 DEF Phone!AInit, PhoneTypes

(* Every step of WhatsApp keeps them.                                      *)
LEMMA NextPhoneTypes ==
  ASSUME LinkAssumption, DropsAssumption, PhoneInv, PhoneTypes, Phone!ANext \/ UNCHANGED aVars
  PROVE  PhoneTypes'
<1> USE DEF PhoneTypes, Phone!lifeVars, Phone!linkVars, Phone!workVars, Phone!trafficVars
<1>0. MaxRetries \in Nat /\ aMaxSends \in Nat
  BY DEF LinkAssumption
<1>1. CASE UNCHANGED aVars
  BY <1>1 DEF aVars
<1>2. CASE \/ Phone!Open \/ Phone!ConnectFails \/ Phone!ConnectSucceeds
           \/ Phone!FlagStopping \/ Phone!Disconnect \/ Phone!Wait \/ Phone!ClearAndClose
           \/ Phone!Drop
  BY <1>2 DEF Phone!Open, Phone!ConnectFails, Phone!ConnectSucceeds, Phone!FlagStopping,
              Phone!Disconnect, Phone!Wait, Phone!ClearAndClose, Phone!Drop
<1>3. CASE Phone!TrackQR \/ Phone!QRDone
  BY <1>3 DEF Phone!TrackQR, Phone!QRDone
<1>4. CASE Phone!Disconnected
  <2>1. Phone!FreeWorker \in Phone!Workers
    BY <1>4, AWorkerIsFree DEF Phone!Disconnected
  <2>2. aIgnored' \in BOOLEAN
    BY <1>4 DEF Phone!Disconnected
  <2>3. aReconnecting' \in BOOLEAN /\ aTracked' \subseteq Phone!Workers \union {Phone!QR}
    BY <1>4, <2>1 DEF Phone!Disconnected
  <2>q. QED BY <1>4, <2>2, <2>3 DEF Phone!Disconnected
<1>5. ASSUME NEW k \in Phone!Workers, Phone!Work(k) PROVE PhoneTypes'
  BY <1>5 DEF Phone!Work, Phone!Check, Phone!Connect, Phone!Backoff, Phone!Reset, Phone!Done
<1>6. ASSUME NEW m \in Phone!Incoming,
             Phone!Receive(m) \/ Phone!HandleIncoming(m) \/ Phone!Publish(m)
      PROVE  PhoneTypes'
  BY <1>6 DEF Phone!Receive, Phone!HandleIncoming, Phone!Publish
<1>7. CASE Phone!Send
  <2>1. aSending' \in {0, Phone!Rest} /\ aSends' \in 0..aMaxSends
    BY <1>0, <1>7 DEF Phone!Send
  <2>2. aSending' \in 0..Phone!Rest
    BY <1>0, <2>1 DEF Phone!Rest
  <2>q. QED BY <1>7, <2>1, <2>2 DEF Phone!Send
<1>8. CASE Phone!RetrySend
  <2>1. aSending' \in 0..Phone!Rest
    BY <1>0, <1>8 DEF Phone!RetrySend, Phone!NextAttempt, Phone!Rest
  <2>q. QED BY <1>8, <2>1 DEF Phone!RetrySend
<1>q. QED BY <1>1, <1>2, <1>3, <1>4, <1>5, <1>6, <1>7, <1>8 DEF Phone!ANext

(* With the invariant they are all there is to say of the types.           *)
LEMMA PhoneTypesGoal == DropsAssumption /\ PhoneInv /\ PhoneTypes => Phone!ATypeOK
<1> SUFFICES ASSUME DropsAssumption, PhoneInv, PhoneTypes PROVE Phone!ATypeOK
  OBVIOUS
<1>1. aDrops \in 0..MaxDrops /\ aEvents \in 0..aDrops
  BY BegunIsFinite DEF PhoneInv, PhoneKinds, EventsAreTakenOnce, DropsAssumption
<1>2. {aStopping, aRunDone, aClient, aConnected, aReconnecting, aIgnored, aSlipped} \subseteq BOOLEAN
  BY DEF PhoneInv, PhoneKinds, PhoneTypes
<1>q. QED BY <1>1, <1>2 DEF PhoneInv, PhoneKinds, PhoneTypes, Phone!ATypeOK

(* The types of the connections and of what comes through them. *)
LEMMA ConnectionTypes ==
  Spec => [](/\ Server!WTypeOK /\ Client!CTypeOK /\ Phone!ATypeOK /\ Mail!ETypeOK
             /\ Media!MTypeOK)
<1> DEFINE Inv == /\ Server!WTypeOK /\ Client!CTypeOK /\ PhoneInv /\ PhoneTypes /\ ThreadInv
                  /\ MediaInv /\ StoreTypes
<1>0. WsAssumption /\ MailAssumption /\ DropsAssumption /\ LinkAssumption
  BY PartsAssumption
<1>1. Init => Inv
  BY <1>0, InitServerTypes, InitClientTypes, InitPhone, InitPhoneTypes, InitThreads, InitMedia,
     InitStoreTypes DEF Init
<1>2. Inv /\ [Next]_chVars => Inv'
  <2> SUFFICES ASSUME Inv, [Next]_chVars PROVE Inv'
    OBVIOUS
  <2>1. Server!WTypeOK' /\ Client!CTypeOK'
    BY <1>0, StepOfAConnection, NextServerTypes, NextClientTypes
  <2>2. PhoneInv' /\ PhoneTypes'
    BY <1>0, StepOfAConnection, NextPhone, NextPhoneTypes
  <2>3. ThreadInv'
    BY <1>0, StepOfAConnection, NextThreads DEF eVars, Mail!evars, Mail!pollVars, Mail!threadVars
  <2>4. MediaInv' /\ StoreTypes'
    BY <1>0, StepOfAConnection, NextMedia, NextStoreTypes
  <2>q. QED BY <2>1, <2>2, <2>3, <2>4
<1>3. Inv => /\ Server!WTypeOK /\ Client!CTypeOK /\ Phone!ATypeOK /\ Mail!ETypeOK
             /\ Media!MTypeOK
  BY <1>0, PhoneTypesGoal, StoreGoal DEF ThreadInv
<1> HIDE DEF Inv
<1>q. QED BY <1>1, <1>2, <1>3, PTL DEF Spec
================================================================================
