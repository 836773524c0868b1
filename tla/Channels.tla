----------------------------------- MODULE Channels -----------------------------------
(***************************************************************************)
(* The gateway's loop, the channels and what they share in one             *)
(* specification: every behaviour is one of one part, chosen at the start, *)
(* and the other parts stay as they are.  What one part gives another is   *)
(* an input of the other's module, which takes all there can be.  The      *)
(* variables carry the letter of their part; so do the constants whose     *)
(* name is used by several parts.                                          *)
(***************************************************************************)
EXTENDS Naturals

CONSTANTS
  Sessions, Nobody, StandbyTimeout, GlobalTimeout, OTAExpiry, MaxAttempts,   \* Gateway
  LockoutDuration, MaxTime, MaxCodes, gMaxRestarts, MaxTexts,
  NumTurns, MaxSessions, MaxCommands, MaxEvictions,                          \* Cron
  dNumMessages, MaxExtras, MaxOut,                                           \* Manager
  MaxAnimations, fMaxSends,                                                  \* Feedback
  Conns, WsSessions, SessionOf, MaxConnections,                              \* Server
  MaxDials,                                                                  \* Client
  MaxDrops, aNumMessages, aMaxSends, MaxRetries,                             \* Phone
  NumMails, MaxSent, eMaxRestarts,                                           \* Mail
  MaxRefs, Paths, Scopes,                                                    \* Media
  Length, tNumMessages                                                       \* Bot

VARIABLES
  part,      (* the part of this behaviour *)
  gNow, gStates, gFile, gLoop, gCodes, gUsed, gBoot, gPromised, gRestarts, gTask,
  gDebug, gReport, gTexts,
  sPc, sObj, sTurnSeq, sPrev, sCancelled, sOutcome, sAnswer, sReplies, sRootDone,
  sRegistered, sCreated, sSeq, sActive, sOpen, sLoop, sVictim, sCommands, sEvictions,
  dHandler, dTyping, dWaiting, dTypingStop, dPlaceholder, dLost, dAsked, dOut,
  dDispatch, dHanded, dStop, dRunning, dExtras,
  fEntry, fRun, fStopped, fMade, fSender, fStopper, fLate, fSends,
  wPc, wConnections, wBySession, wClosed, wTaken, wStop, wCtxDone,
  cLoop, cConn, cReader, cClosed, cDialled, cCtxDone, cStop,
  aStart, aStop, aStopping, aRunDone, aClient, aConnected, aDrops, aEvents,
  aReconnecting, aTracked, aWorker, aIncoming, aSending, aSends, aIgnored, aSlipped,
  eLoop, eCtxDone, eMailbox, eHeader, eAsked, eArrived, eFate, eNodes, eUp,
  eLastMsg, eSent, eSending, eKey, eMoved, eRestarts,
  mFiles, mCall, mEntry, mRefs, mStates, mOld, mDoomed, mLife, mRaced,
  tLife, tCtxDone, tRegister, tMessage, tStored, tTyping, tAnswer, tQueue, tReplyTo,
  tUnreadable, tShown, tReplies, tEdited, tDoubtful

gVars ==
  <<gNow, gStates, gFile, gLoop, gCodes, gUsed, gBoot, gPromised, gRestarts, gTask,
    gDebug, gReport, gTexts>>
sVars ==
  <<sPc, sObj, sTurnSeq, sPrev, sCancelled, sOutcome, sAnswer, sReplies, sRootDone,
    sRegistered, sCreated, sSeq, sActive, sOpen, sLoop, sVictim, sCommands,
    sEvictions>>
dVars ==
  <<dHandler, dTyping, dWaiting, dTypingStop, dPlaceholder, dLost, dAsked, dOut,
    dDispatch, dHanded, dStop, dRunning, dExtras>>
fVars ==
  <<fEntry, fRun, fStopped, fMade, fSender, fStopper, fLate, fSends>>
wVars ==
  <<wPc, wConnections, wBySession, wClosed, wTaken, wStop, wCtxDone>>
cVars ==
  <<cLoop, cConn, cReader, cClosed, cDialled, cCtxDone, cStop>>
aVars ==
  <<aStart, aStop, aStopping, aRunDone, aClient, aConnected, aDrops, aEvents,
    aReconnecting, aTracked, aWorker, aIncoming, aSending, aSends, aIgnored,
    aSlipped>>
eVars ==
  <<eLoop, eCtxDone, eMailbox, eHeader, eAsked, eArrived, eFate, eNodes, eUp,
    eLastMsg, eSent, eSending, eKey, eMoved, eRestarts>>
mVars ==
  <<mFiles, mCall, mEntry, mRefs, mStates, mOld, mDoomed, mLife, mRaced>>
tVars ==
  <<tLife, tCtxDone, tRegister, tMessage, tStored, tTyping, tAnswer, tQueue,
    tReplyTo, tUnreadable, tShown, tReplies, tEdited, tDoubtful>>

(* The inbound loop with the lock and the commands. *)
Gateway == INSTANCE Gateway WITH
  MaxRestarts <- gMaxRestarts,
  now <- gNow, states <- gStates, file <- gFile, loop <- gLoop, codes <- gCodes,
  used <- gUsed, boot <- gBoot, promised <- gPromised, restarts <- gRestarts,
  task <- gTask, debug <- gDebug, report <- gReport, texts <- gTexts

(* The runs of a cron job. *)
Cron == INSTANCE SessionTurns WITH
  IsCron <- TRUE,
  pc <- sPc, obj <- sObj, turnSeq <- sTurnSeq, prev <- sPrev,
  cancelled <- sCancelled, outcome <- sOutcome, answer <- sAnswer,
  replies <- sReplies, rootDone <- sRootDone, registered <- sRegistered,
  created <- sCreated, seq <- sSeq, active <- sActive, open <- sOpen, loop <- sLoop,
  victim <- sVictim, commands <- sCommands, evictions <- sEvictions

(* The messages of one chat and their answers. *)
Manager == INSTANCE Delivery WITH
  NumMessages <- dNumMessages,
  handler <- dHandler, typing <- dTyping, waiting <- dWaiting,
  typingStop <- dTypingStop, placeholder <- dPlaceholder, lost <- dLost,
  asked <- dAsked, out <- dOut, dispatch <- dDispatch, handed <- dHanded,
  stop <- dStop, running <- dRunning, extras <- dExtras

(* The animated progress message of a chat. *)
Feedback == INSTANCE ToolFeedback WITH
  MaxSends <- fMaxSends,
  entry <- fEntry, run <- fRun, stopped <- fStopped, made <- fMade,
  sender <- fSender, stopper <- fStopper, late <- fLate, sends <- fSends

(* Both ends of the WebSocket. *)
Server == INSTANCE WebSocket WITH
  pc <- wPc, connections <- wConnections, bySession <- wBySession,
  closed <- wClosed, taken <- wTaken, stop <- wStop, ctxDone <- wCtxDone

Client == INSTANCE WebSocketClient WITH
  loop <- cLoop, conn <- cConn, reader <- cReader, closed <- cClosed,
  dialled <- cDialled, ctxDone <- cCtxDone, stop <- cStop

(* WhatsApp, e-mail, the files they share with others, Telegram. *)
Phone == INSTANCE WhatsApp WITH
  NumMessages <- aNumMessages, MaxSends <- aMaxSends,
  start <- aStart, stop <- aStop, stopping <- aStopping, runDone <- aRunDone,
  client <- aClient, connected <- aConnected, drops <- aDrops, events <- aEvents,
  reconnecting <- aReconnecting, tracked <- aTracked, worker <- aWorker,
  incoming <- aIncoming, sending <- aSending, sends <- aSends, ignored <- aIgnored,
  slipped <- aSlipped

Mail == INSTANCE Email WITH
  MaxRestarts <- eMaxRestarts,
  loop <- eLoop, ctxDone <- eCtxDone, mailbox <- eMailbox, header <- eHeader,
  asked <- eAsked, arrived <- eArrived, fate <- eFate, nodes <- eNodes, up <- eUp,
  lastMsg <- eLastMsg, sent <- eSent, sending <- eSending, key <- eKey,
  moved <- eMoved, restarts <- eRestarts

Media == INSTANCE MediaStore WITH
  files <- mFiles, call <- mCall, entry <- mEntry, refs <- mRefs, states <- mStates,
  old <- mOld, doomed <- mDoomed, life <- mLife, raced <- mRaced

Bot == INSTANCE Telegram WITH
  NumMessages <- tNumMessages,
  life <- tLife, ctxDone <- tCtxDone, register <- tRegister, message <- tMessage,
  stored <- tStored, typing <- tTyping, answer <- tAnswer, queue <- tQueue,
  replyTo <- tReplyTo, unreadable <- tUnreadable, shown <- tShown,
  replies <- tReplies, edited <- tEdited, doubtful <- tDoubtful

----------------------------------------------------------------------------------------
(* What the constants are.  The numbers bound how often something happens,   *)
(* and may all be zero but Length: an empty text is not sent.                *)
ChatAssumption == {MaxOut, MaxExtras, MaxAnimations, fMaxSends} \subseteq Nat

LengthAssumption == Length \in Nat \ {0}

WsAssumption == SessionOf \in [Conns -> WsSessions] /\ MaxConnections \in Nat

MailAssumption == NumMails \in Nat /\ MaxSent \in Nat /\ eMaxRestarts \in Nat

DropsAssumption == MaxDrops \in Nat

LinkAssumption ==
  /\ {MaxDials, aMaxSends, MaxRetries} \subseteq Nat
  /\ Paths # {} /\ Scopes # {}

ASSUME PartsAssumption ==
  /\ Gateway!LockAssumption /\ Cron!TurnsAssumption
  /\ ChatAssumption /\ LengthAssumption
  /\ WsAssumption /\ MailAssumption /\ DropsAssumption /\ LinkAssumption
----------------------------------------------------------------------------------------
Parts ==
  {"Gateway", "Cron", "Manager", "Feedback", "Server", "Client", "Phone", "Mail",
   "Media", "Bot"}

Init ==
  /\ part \in Parts
  /\ Gateway!GInit
  /\ Cron!Init
  /\ Manager!DInit
  /\ Feedback!FInit
  /\ Server!WInit
  /\ Client!CInit
  /\ Phone!AInit
  /\ Mail!EInit
  /\ Media!MInit
  /\ Bot!TInit

GatewayStep ==
  /\ part = "Gateway" /\ Gateway!GNext
  /\ UNCHANGED <<part, sVars, dVars, fVars, wVars, cVars, aVars, eVars, mVars, tVars>>

CronStep ==
  /\ part = "Cron" /\ Cron!Next
  /\ UNCHANGED <<part, gVars, dVars, fVars, wVars, cVars, aVars, eVars, mVars, tVars>>

ManagerStep ==
  /\ part = "Manager" /\ Manager!DNext
  /\ UNCHANGED <<part, gVars, sVars, fVars, wVars, cVars, aVars, eVars, mVars, tVars>>

FeedbackStep ==
  /\ part = "Feedback" /\ Feedback!FNext
  /\ UNCHANGED <<part, gVars, sVars, dVars, wVars, cVars, aVars, eVars, mVars, tVars>>

ServerStep ==
  /\ part = "Server" /\ Server!WNext
  /\ UNCHANGED <<part, gVars, sVars, dVars, fVars, cVars, aVars, eVars, mVars, tVars>>

ClientStep ==
  /\ part = "Client" /\ Client!CNext
  /\ UNCHANGED <<part, gVars, sVars, dVars, fVars, wVars, aVars, eVars, mVars, tVars>>

PhoneStep ==
  /\ part = "Phone" /\ Phone!ANext
  /\ UNCHANGED <<part, gVars, sVars, dVars, fVars, wVars, cVars, eVars, mVars, tVars>>

MailStep ==
  /\ part = "Mail" /\ Mail!ENext
  /\ UNCHANGED <<part, gVars, sVars, dVars, fVars, wVars, cVars, aVars, mVars, tVars>>

MediaStep ==
  /\ part = "Media" /\ Media!MNext
  /\ UNCHANGED <<part, gVars, sVars, dVars, fVars, wVars, cVars, aVars, eVars, tVars>>

BotStep ==
  /\ part = "Bot" /\ Bot!TNext
  /\ UNCHANGED <<part, gVars, sVars, dVars, fVars, wVars, cVars, aVars, eVars, mVars>>

Next ==
  \/ GatewayStep
  \/ CronStep
  \/ ManagerStep
  \/ FeedbackStep
  \/ ServerStep
  \/ ClientStep
  \/ PhoneStep
  \/ MailStep
  \/ MediaStep
  \/ BotStep

chVars == <<part, gVars, sVars, dVars, fVars, wVars, cVars, aVars, eVars, mVars, tVars>>

(* What a part has to do it does: the dispatch of the Manager, the goroutines of *)
(* the connections at both ends.  In the other parts' behaviours none of it has   *)
(* begun.                                                                         *)
Spec ==
  /\ Init /\ [][Next]_chVars
  /\ WF_dVars(Manager!Dispatch)
  /\ Server!WFairness
  /\ Client!CFairness
----------------------------------------------------------------------------------------
(* A locked conversation: nothing of it reaches the agent or the commands. *)
LockedReachesNothing == Gateway!LockedReachesNothing

(* A cron run that reports success has delivered its answer. *)
CronSuccessMeansDelivered == Cron!CronSuccessMeansDelivered

(* Typing indicators and placeholders can still be taken back. *)
ArtefactsAreReachable == Manager!ArtefactsAreReachable

(* Nothing is sent after a stop that waited. *)
NoSendAfterStop == Manager!NoSendAfterStop

(* What is on the bus is handled. *)
OutboundIsHandled == Manager!OutboundIsHandled

(* A running animation is known to the table that can stop it. *)
AnimationsAreTracked == Feedback!AnimationsAreTracked

(* After a stop that waited nothing is left. *)
StopIsClean == Phone!StopIsClean

(* A lost connection is noticed. *)
LossIsNoticed == Phone!LossIsNoticed

(* A mail the server will not show again has been dealt with. *)
MailIsNotLost == Mail!MailIsNotLost

(* A mail is handled in the session of the mail it answers. *)
AnswersShareASession == Mail!AnswersShareASession

(* A reference that resolves has its file. *)
RefsHaveFiles == Media!RefsHaveFiles

(* An answer is shown once, in order. *)
AnswerShownOnce == Bot!AnswerShownOnce

(* Registered connections are open and within the limit; a client never has a
   second open connection. *)
ConnectionsAreServed == Server!ConnectionsAreServed /\ Client!OneConnection

(* A stop ends the connections at both ends. *)
ConnectionsEnd == Server!ConnectionsEnd /\ Client!ClientConnectionsEnd

(* The types of every part. *)
TypesOK ==
  /\ Gateway!GTypeOK
  /\ Cron!TypeOK
  /\ Manager!DTypeOK
  /\ Feedback!FTypeOK
  /\ Server!WTypeOK
  /\ Client!CTypeOK
  /\ Phone!ATypeOK
  /\ Mail!ETypeOK
  /\ Media!MTypeOK
  /\ Bot!TTypeOK
========================================================================================
