------------------------------- MODULE ChannelsProofs -------------------------------
(***************************************************************************)
(* What the proofs about the gateway's loop and about the runs of a cron   *)
(* job show, for the specification that composes them with the channels,   *)
(* and the types of all parts together.                                    *)
(*                                                                         *)
(* A step of the composition is a step of one part and none of the others, *)
(* so each part's specification is implemented, and its theorems apply.    *)
(* The modules with those proofs are instances of their own here: that     *)
(* their initial states and steps are the composition's is proved first.   *)
(***************************************************************************)
EXTENDS ManagerProofs, ConnectionProofs

GatewayProofs == INSTANCE GatewayProofs WITH
  MaxRestarts <- gMaxRestarts,
  now <- gNow, states <- gStates, file <- gFile, loop <- gLoop, codes <- gCodes,
  used <- gUsed, boot <- gBoot, promised <- gPromised, restarts <- gRestarts,
  task <- gTask, debug <- gDebug, report <- gReport, texts <- gTexts

CronProofs == INSTANCE SessionTurnsProofs WITH
  IsCron <- TRUE,
  pc <- sPc, obj <- sObj, turnSeq <- sTurnSeq, prev <- sPrev,
  cancelled <- sCancelled, outcome <- sOutcome, answer <- sAnswer,
  replies <- sReplies, rootDone <- sRootDone, registered <- sRegistered,
  created <- sCreated, seq <- sSeq, active <- sActive, open <- sOpen, loop <- sLoop,
  victim <- sVictim, commands <- sCommands, evictions <- sEvictions

--------------------------------------------------------------------------------
(* The steps of the gateway's loop with the lock are those of its proofs. *)
LEMMA GatewaySame ==
  /\ Gateway!GInit <=> GatewayProofs!GInit
  /\ Gateway!GNext <=> GatewayProofs!GNext
  BY DEF Gateway!gatewayVars, Gateway!gvars, Gateway!Names, Gateway!Texts,
         Gateway!Idle, Gateway!LockMessages, Gateway!Blocked,
         Gateway!Passthrough, Gateway!HandledAs, Gateway!GInit, Gateway!Take,
         Gateway!ExecuteLockCommand, Gateway!SetDebug, Gateway!Execute,
         Gateway!Finish, Gateway!Progress, Gateway!GRestart, Gateway!Tick,
         Gateway!GNext, Gateway!None, Gateway!vars, Gateway!Messages,
         Gateway!IsUnlockCommand, Gateway!IdleLoop, Gateway!Unknown,
         Gateway!Ensure, Gateway!ClearExpiredLockout, Gateway!Current,
         Gateway!ShouldAutoLock, Gateway!CountedAttempt, Gateway!LockOut,
         Gateway!TooMany, Gateway!SavedLockouts, Gateway!SaveLockouts,
         Gateway!FailedAttempt, Gateway!Init, Gateway!Handling,
         Gateway!IsLocked, Gateway!Lock, Gateway!RequestUnlock, Gateway!Opened,
         Gateway!VerifyUnlock, Gateway!RecordActivity, Gateway!LoadLockouts,
         Gateway!Restart, Gateway!ClockTicks, GatewayProofs!gatewayVars,
         GatewayProofs!gvars, GatewayProofs!Names, GatewayProofs!Texts,
         GatewayProofs!Idle, GatewayProofs!LockMessages, GatewayProofs!Blocked,
         GatewayProofs!Passthrough, GatewayProofs!HandledAs,
         GatewayProofs!GInit, GatewayProofs!Take,
         GatewayProofs!ExecuteLockCommand, GatewayProofs!SetDebug,
         GatewayProofs!Execute, GatewayProofs!Finish, GatewayProofs!Progress,
         GatewayProofs!GRestart, GatewayProofs!Tick, GatewayProofs!GNext,
         GatewayProofs!None, GatewayProofs!vars, GatewayProofs!Messages,
         GatewayProofs!IsUnlockCommand, GatewayProofs!IdleLoop,
         GatewayProofs!Unknown, GatewayProofs!Ensure,
         GatewayProofs!ClearExpiredLockout, GatewayProofs!Current,
         GatewayProofs!ShouldAutoLock, GatewayProofs!CountedAttempt,
         GatewayProofs!LockOut, GatewayProofs!TooMany,
         GatewayProofs!SavedLockouts, GatewayProofs!SaveLockouts,
         GatewayProofs!FailedAttempt, GatewayProofs!Init,
         GatewayProofs!Handling, GatewayProofs!IsLocked, GatewayProofs!Lock,
         GatewayProofs!RequestUnlock, GatewayProofs!Opened,
         GatewayProofs!VerifyUnlock, GatewayProofs!RecordActivity,
         GatewayProofs!LoadLockouts, GatewayProofs!Restart,
         GatewayProofs!ClockTicks

(* The composition implements the gateway's loop with the lock. *)
LEMMA GatewayPart ==
  Init /\ [][Next]_chVars
    => GatewayProofs!GInit /\ [][GatewayProofs!GNext]_(GatewayProofs!gvars)
<1>1. Init => GatewayProofs!GInit
  BY GatewaySame DEF Init
<1>2. [Next]_chVars => [GatewayProofs!GNext]_(GatewayProofs!gvars)
  <2>1. UNCHANGED gVars => UNCHANGED GatewayProofs!gvars
    BY DEF gVars, GatewayProofs!gvars, GatewayProofs!vars, GatewayProofs!gatewayVars
  <2>2. [Next]_chVars => Gateway!GNext \/ UNCHANGED gVars
    BY DEF Next, chVars, GatewayStep, CronStep, ManagerStep, FeedbackStep, ServerStep,
           ClientStep, PhoneStep, MailStep, MediaStep, BotStep
  <2>q. QED BY <2>1, <2>2, GatewaySame
<1>q. QED BY <1>1, <1>2, PTL

(* The steps of the runs of a cron job are those of its proofs. *)
LEMMA CronSame ==
  /\ Cron!Init <=> CronProofs!Init
  /\ Cron!Next <=> CronProofs!Next
  BY DEF Cron!Turns, Cron!Objects, Cron!None, Cron!vars, Cron!registry,
         Cron!gatewayVars, Cron!slots, Cron!turnVars, Cron!results,
         Cron!Outcomes, Cron!Started, Cron!Cancelled, Cron!Replied, Cron!Init,
         Cron!Goto, Cron!Arrive, Cron!Lookup, Cron!Create, Cron!CreateFails,
         Cron!StartTurn, Cron!CancelPrev, Cron!RunEnds, Cron!IsUnwanted,
         Cron!CheckCanceled, Cron!PublishPoll, Cron!PublishSend,
         Cron!FinishTurn, Cron!HasActiveTurn, Cron!StopRead, Cron!StopCancel,
         Cron!ClearStop, Cron!ClearDrop, Cron!ClearFails, Cron!Evict,
         Cron!ShutDown, Cron!LoopExits, Cron!StopManager, Cron!Idle,
         Cron!TurnStep, Cron!GatewayStep, Cron!Next, CronProofs!Turns,
         CronProofs!Objects, CronProofs!None, CronProofs!vars,
         CronProofs!registry, CronProofs!gatewayVars, CronProofs!slots,
         CronProofs!turnVars, CronProofs!results, CronProofs!Outcomes,
         CronProofs!Started, CronProofs!Cancelled, CronProofs!Replied,
         CronProofs!Init, CronProofs!Goto, CronProofs!Arrive, CronProofs!Lookup,
         CronProofs!Create, CronProofs!CreateFails, CronProofs!StartTurn,
         CronProofs!CancelPrev, CronProofs!RunEnds, CronProofs!IsUnwanted,
         CronProofs!CheckCanceled, CronProofs!PublishPoll,
         CronProofs!PublishSend, CronProofs!FinishTurn,
         CronProofs!HasActiveTurn, CronProofs!StopRead, CronProofs!StopCancel,
         CronProofs!ClearStop, CronProofs!ClearDrop, CronProofs!ClearFails,
         CronProofs!Evict, CronProofs!ShutDown, CronProofs!LoopExits,
         CronProofs!StopManager, CronProofs!Idle, CronProofs!TurnStep,
         CronProofs!GatewayStep, CronProofs!Next

(* The composition implements the runs of a cron job. *)
LEMMA CronPart ==
  Init /\ [][Next]_chVars
    => CronProofs!Init /\ [][CronProofs!Next]_(CronProofs!vars)
<1>1. Init => CronProofs!Init
  BY CronSame DEF Init
<1>2. [Next]_chVars => [CronProofs!Next]_(CronProofs!vars)
  <2>1. UNCHANGED sVars => UNCHANGED CronProofs!vars
    BY DEF sVars, CronProofs!vars, CronProofs!registry,
           CronProofs!gatewayVars, CronProofs!slots, CronProofs!turnVars, CronProofs!results
  <2>2. [Next]_chVars => Cron!Next \/ UNCHANGED sVars
    BY DEF Next, chVars, GatewayStep, CronStep, ManagerStep, FeedbackStep, ServerStep,
           ClientStep, PhoneStep, MailStep, MediaStep, BotStep
  <2>q. QED BY <2>1, <2>2, CronSame
<1>q. QED BY <1>1, <1>2, PTL

--------------------------------------------------------------------------------
(* Nothing of a locked conversation reaches the agent or a command. *)
THEOREM LockedStaysShut == Spec => LockedReachesNothing
<1>0. Gateway!LockAssumption
  BY PartsAssumption
<1>1. Spec => GatewayProofs!GSpec
  BY GatewayPart, PTL DEF Spec, GatewayProofs!GSpec
<1>2. Spec => GatewayProofs!LockedReachesNothing
  BY <1>0, <1>1, GatewayProofs!LockedIsShutOut, PTL
<1>q. QED
  BY <1>2, PTL DEF LockedReachesNothing, Gateway!LockedReachesNothing,
         GatewayProofs!LockedReachesNothing, Gateway!gvars, GatewayProofs!gvars,
         Gateway!vars, GatewayProofs!vars, Gateway!gatewayVars, GatewayProofs!gatewayVars

(* A cron run that reports success has delivered its answer. *)
THEOREM CronSuccessStaysTrue == Spec => []CronSuccessMeansDelivered
<1>0. Cron!TurnsAssumption
  BY PartsAssumption
<1>1. Spec => CronProofs!Spec
  BY CronPart, PTL DEF Spec, CronProofs!Spec
<1>2. Spec => []CronProofs!CronSuccessMeansDelivered
  BY <1>0, <1>1, CronProofs!CronSuccessIsTrue, PTL
<1>3. CronProofs!CronSuccessMeansDelivered => CronSuccessMeansDelivered
  BY DEF CronSuccessMeansDelivered, Cron!CronSuccessMeansDelivered,
         CronProofs!CronSuccessMeansDelivered, Cron!Turns, CronProofs!Turns,
         Cron!Replied, CronProofs!Replied
<1>q. QED BY <1>2, <1>3, PTL

--------------------------------------------------------------------------------
(* The types of the instances are the same. *)
LEMMA GatewayTypesSame == GatewayProofs!GTypeOK => Gateway!GTypeOK
  BY DEF Gateway!GTypeOK, GatewayProofs!GTypeOK, Gateway!TypeOK, GatewayProofs!TypeOK,
         Gateway!SessionStates, GatewayProofs!SessionStates, Gateway!Messages,
         GatewayProofs!Messages, Gateway!None, GatewayProofs!None, Gateway!Texts,
         GatewayProofs!Texts, Gateway!Names, GatewayProofs!Names

(* Those of the cron turns too. *)
LEMMA CronTypesSame == CronProofs!TypeOK => Cron!TypeOK
  BY DEF Cron!TypeOK, CronProofs!TypeOK, Cron!Turns, CronProofs!Turns, Cron!Objects,
         CronProofs!Objects, Cron!None, CronProofs!None, Cron!Outcomes, CronProofs!Outcomes,
         Cron!Started, CronProofs!Started

(* Every part keeps its types and its limits: no conversation has more     *)
(* wrong codes counted than allowed, no WhatsApp connection more events to *)
(* come than it was lost, no Send more attempts than it may make.          *)
THEOREM TypesStayRight == Spec => []TypesOK
<1>0. Gateway!LockAssumption /\ Cron!TurnsAssumption
  BY PartsAssumption
<1>1. Spec => []Gateway!GTypeOK
  <2>1. Spec => GatewayProofs!GSpec
    BY GatewayPart, PTL DEF Spec, GatewayProofs!GSpec
  <2>2. Spec => []GatewayProofs!GTypeOK
    BY <1>0, <2>1, GatewayProofs!GatewayTypesHold, PTL
  <2>q. QED BY <2>2, GatewayTypesSame, PTL
<1>2. Spec => []Cron!TypeOK
  <2>1. Spec => CronProofs!Spec
    BY CronPart, PTL DEF Spec, CronProofs!Spec
  <2>2. Spec => []CronProofs!TypeOK
    BY <1>0, <2>1, CronProofs!TypeCorrect, PTL
  <2>q. QED BY <2>2, CronTypesSame, PTL
<1>3. Spec => [](Manager!DTypeOK /\ Feedback!FTypeOK /\ Bot!TTypeOK)
  BY ChatTypes
<1>4. Spec => [](/\ Server!WTypeOK /\ Client!CTypeOK /\ Phone!ATypeOK /\ Mail!ETypeOK
                 /\ Media!MTypeOK)
  BY ConnectionTypes
<1>q. QED BY <1>1, <1>2, <1>3, <1>4, PTL DEF TypesOK
================================================================================
