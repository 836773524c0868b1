-------------------------------- MODULE ManagerProofs --------------------------------
(***************************************************************************)
(* What the channel manager promises of a chat, for any number of          *)
(* messages, answers and calls: what is shown while an answer is awaited   *)
(* can be taken back, nothing is sent once a Stop that has waited is over, *)
(* and a running animation is tracked or has been told to stop.            *)
(***************************************************************************)
EXTENDS Channels, SequenceTheorems, TLAPS

(* A step of the composition is one of a part or leaves the part alone. *)
LEMMA StepOfAPart ==
  [Next]_chVars =>
    /\ Manager!DNext \/ UNCHANGED dVars
    /\ Feedback!FNext \/ UNCHANGED fVars
    /\ Bot!TNext \/ UNCHANGED tVars
  BY DEF Next, chVars, GatewayStep, CronStep, ManagerStep, FeedbackStep, ServerStep,
         ClientStep, PhoneStep, MailStep, MediaStep, BotStep

--------------------------------------------------------------------------------
(* The messages of a chat and their answers *)

HandlerLabels ==
  {"none", "refused", "typing", "recordTyping", "placeholder", "recordPlaceholder",
   "publish", "done"}

(* What is known of the sets and of the handles. *)
ManagerKinds ==
  /\ dHandler \in [Manager!Inbox -> HandlerLabels]
  /\ dTyping \subseteq Manager!Inbox
  /\ dWaiting \subseteq Manager!Inbox

(* Only the dispatch goroutine that is about to edit has a placeholder in  *)
(* its hands.                                                              *)
HandedForEdit == dDispatch # "edit" => dHanded = Manager!Nil

(* The channels stop running with StopAll's last step, which comes after   *)
(* the dispatch goroutine has ended or has been given up.                  *)
StopIsOrdered ==
  /\ dRunning \/ dStop \in {"stopped", "gaveUp"}
  /\ dStop = "stopped" => dDispatch = "done"

DInv == ManagerKinds /\ HandedForEdit /\ StopIsOrdered /\ Manager!ArtefactsAreReachable

(* No message has the number that stands for none. *)
LEMMA NilIsNoMessage == Manager!Nil \notin Manager!Inbox
  BY DEF Manager!Nil, Manager!Inbox

(* The invariant holds when the manager starts. *)
LEMMA InitDInv == Manager!DInit => DInv
  BY NilIsNoMessage DEF Manager!DInit, DInv, ManagerKinds, HandlerLabels, HandedForEdit,
                        StopIsOrdered,
         Manager!ArtefactsAreReachable

(* The steps of a message's handler: only typing and placeholders change,  *)
(* with the handles on them.                                               *)
LEMMA HandlerStep ==
  ASSUME DInv, NEW m \in Manager!Inbox,
         \/ Manager!Arrive(m) \/ Manager!StartTyping(m)
         \/ Manager!RecordTypingStop(m) \/ Manager!SendPlaceholder(m)
         \/ Manager!RecordPlaceholder(m) \/ Manager!PublishInbound(m)
  PROVE  DInv'
<1> USE NilIsNoMessage DEF DInv, HandlerLabels, Manager!artefacts, Manager!dispatching,
                           Manager!stopping
<1>1. CASE Manager!Arrive(m)
  BY <1>1 DEF Manager!Arrive, ManagerKinds, HandedForEdit, StopIsOrdered,
              Manager!ArtefactsAreReachable
<1>2. CASE Manager!StartTyping(m)
  BY <1>2 DEF Manager!StartTyping, ManagerKinds, HandedForEdit, StopIsOrdered,
              Manager!ArtefactsAreReachable
<1>3. CASE Manager!RecordTypingStop(m)
  BY <1>3 DEF Manager!RecordTypingStop, ManagerKinds, HandedForEdit, StopIsOrdered,
              Manager!ArtefactsAreReachable
<1>4. CASE Manager!SendPlaceholder(m)
  BY <1>4 DEF Manager!SendPlaceholder, ManagerKinds, HandedForEdit, StopIsOrdered,
              Manager!ArtefactsAreReachable
<1>5. CASE Manager!RecordPlaceholder(m)
  BY <1>5 DEF Manager!RecordPlaceholder, ManagerKinds, HandedForEdit, StopIsOrdered,
              Manager!ArtefactsAreReachable
<1>6. CASE Manager!PublishInbound(m)
  BY <1>6 DEF Manager!PublishInbound, ManagerKinds, HandedForEdit, StopIsOrdered,
              Manager!ArtefactsAreReachable
<1>q. QED BY <1>1, <1>2, <1>3, <1>4, <1>5, <1>6

(* The steps of the dispatch goroutine: it takes a handle before it uses   *)
(* it, and a placeholder it fails to edit is lost.                         *)
LEMMA DispatchStep == DInv /\ Manager!Dispatch => DInv'
<1> SUFFICES ASSUME DInv, Manager!Dispatch PROVE DInv'
  OBVIOUS
<1> USE NilIsNoMessage DEF DInv, Manager!inbound, Manager!artefacts, Manager!stopping
<1>1. CASE Manager!Select
  BY <1>1 DEF Manager!Select, ManagerKinds, HandedForEdit, StopIsOrdered,
              Manager!ArtefactsAreReachable
<1>2. CASE Manager!TakeTypingStop
  BY <1>2 DEF Manager!TakeTypingStop, Manager!StopTyping, ManagerKinds, HandedForEdit,
              StopIsOrdered, Manager!ArtefactsAreReachable
<1>3. CASE Manager!TakePlaceholder
  BY <1>3 DEF Manager!TakePlaceholder, ManagerKinds, HandedForEdit, StopIsOrdered,
              Manager!ArtefactsAreReachable
<1>4. CASE Manager!EditMessage
  BY <1>4 DEF Manager!EditMessage, ManagerKinds, HandedForEdit, StopIsOrdered,
              Manager!ArtefactsAreReachable
<1>5. CASE Manager!Send
  BY <1>5 DEF Manager!Send, Manager!AfterSend, ManagerKinds, HandedForEdit, StopIsOrdered,
              Manager!ArtefactsAreReachable
<1>q. QED BY <1>1, <1>2, <1>3, <1>4, <1>5 DEF Manager!Dispatch

(* Every step keeps the invariant. *)
LEMMA NextDInv == DInv /\ (Manager!DNext \/ UNCHANGED dVars) => DInv'
<1> SUFFICES ASSUME DInv, Manager!DNext \/ UNCHANGED dVars PROVE DInv'
  OBVIOUS
<1>1. CASE \E m \in Manager!Inbox :
             \/ Manager!Arrive(m) \/ Manager!StartTyping(m)
             \/ Manager!RecordTypingStop(m) \/ Manager!SendPlaceholder(m)
             \/ Manager!RecordPlaceholder(m) \/ Manager!PublishInbound(m)
  BY <1>1, HandlerStep
<1>2. CASE Manager!Dispatch
  BY <1>2, DispatchStep
<1>3. CASE Manager!PublishOutbound
  BY <1>3 DEF Manager!PublishOutbound, DInv, Manager!artefacts, Manager!stopping,
              ManagerKinds, HandedForEdit, StopIsOrdered,
              Manager!ArtefactsAreReachable
<1>4. CASE Manager!StopAll
  BY <1>4 DEF Manager!StopAll, DInv, Manager!inbound, Manager!artefacts,
              Manager!dispatching, ManagerKinds, HandedForEdit,
              StopIsOrdered, Manager!ArtefactsAreReachable
<1>5. CASE Manager!StopChannels
  BY <1>5 DEF Manager!StopChannels, Manager!DispatchDone, DInv, Manager!inbound,
              Manager!artefacts, Manager!dispatching, ManagerKinds,
              HandedForEdit, StopIsOrdered, Manager!ArtefactsAreReachable
<1>6. CASE UNCHANGED dVars
  BY <1>6 DEF dVars, DInv, ManagerKinds, HandedForEdit, StopIsOrdered,
              Manager!ArtefactsAreReachable
<1>q. QED BY <1>1, <1>2, <1>3, <1>4, <1>5, <1>6 DEF Manager!DNext

(* The invariant says that a Stop that has waited finds the dispatch       *)
(* goroutine at its end.                                                   *)
LEMMA StoppedIsSilent == DInv => Manager!NoSendAfterStop
  BY DEF DInv, StopIsOrdered, Manager!NoSendAfterStop

(* While an answer is awaited, what is shown for it can be taken back. *)
THEOREM ArtefactsStayReachable == Spec => []ArtefactsAreReachable
<1>1. Init => DInv
  BY InitDInv DEF Init
<1>2. DInv /\ [Next]_chVars => DInv'
  BY StepOfAPart, NextDInv
<1>3. DInv => ArtefactsAreReachable
  BY DEF DInv, ArtefactsAreReachable
<1>q. QED BY <1>1, <1>2, <1>3, PTL DEF Spec

(* Nothing is sent after a stop that has waited. *)
THEOREM StopSilencesDispatch == Spec => []NoSendAfterStop
<1>1. Init => DInv
  BY InitDInv DEF Init
<1>2. DInv /\ [Next]_chVars => DInv'
  BY StepOfAPart, NextDInv
<1>3. DInv => NoSendAfterStop
  BY StoppedIsSilent DEF NoSendAfterStop
<1>q. QED BY <1>1, <1>2, <1>3, PTL DEF Spec

--------------------------------------------------------------------------------
(* The animated progress message of a chat *)

(* Entries are numbered as they are made. *)
Numbered ==
  /\ fMade \in Nat
  /\ fEntry \in Nat /\ fEntry <= fMade
  /\ \A e \in fStopped : e \in Nat \ {0} /\ e <= fMade
  /\ fRun \in [Feedback!Animations -> {"none", "waiting", "editing", "done"}]
  /\ \A e \in Feedback!Animations : fRun[e] # "none" => e <= fMade

(* Of all entries ever made only the tracked one has not been stopped,     *)
(* and after StopAll only if it was recorded later.  The goroutine of an   *)
(* entry may start long after this: what Go starts is covered because the  *)
(* entry is, from the moment it was made.                                  *)
MadeAreTracked ==
  \A e \in Nat \ {0} :
    e <= fMade /\ e \notin fStopped => e = fEntry /\ (fStopper.at = "no" \/ e \in fLate)

FInv == Numbered /\ fEntry \notin fStopped /\ MadeAreTracked

(* The invariant holds when nothing has been recorded. *)
LEMMA InitFInv == Feedback!FInit => FInv
  BY DEF Feedback!FInit, FInv, Numbered, MadeAreTracked, Feedback!NoEntry

(* What Send and StopAll do with the table keeps it. *)
LEMMA TableStep ==
  ASSUME FInv,
         \/ Feedback!Take \/ Feedback!Record \/ Feedback!Clear
         \/ Feedback!StopAll \/ Feedback!StopAllDone
  PROVE  FInv'
<1> USE DEF FInv, Numbered, MadeAreTracked, Feedback!NoEntry, Feedback!Replaced
<1>1. CASE Feedback!Take
  BY <1>1 DEF Feedback!Take
<1>2. CASE Feedback!Record
  <2>1. /\ fMade' = fMade + 1 /\ fEntry' = fMade + 1
        /\ fStopped' = IF fEntry = Feedback!NoEntry THEN fStopped
                        ELSE fStopped \union {fEntry}
        /\ fLate' = IF fStopper.at = "no" THEN fLate ELSE fLate \union {fMade + 1}
        /\ UNCHANGED <<fRun, fStopper>>
    BY <1>2 DEF Feedback!Record
  <2>2. \A e \in fStopped' : e \in Nat \ {0} /\ e <= fMade
    BY <2>1
  <2>3. Numbered'
    <3>1. \A e \in fStopped' : e <= fMade'
      BY <2>1, <2>2
    <3>2. \A e \in Feedback!Animations : fRun'[e] # "none" => e <= fMade'
      BY <2>1 DEF Feedback!Animations
    <3>q. QED BY <2>1, <2>2, <3>1, <3>2
  <2>4. fEntry' \notin fStopped'
    BY <2>1, <2>2
  <2>5. MadeAreTracked'
    <3> SUFFICES ASSUME NEW e \in Nat \ {0}, e <= fMade', e \notin fStopped'
                 PROVE  e = fEntry' /\ (fStopper.at = "no" \/ e \in fLate')
      BY <2>1
    <3>1. e = fMade + 1
      BY <2>1
    <3>q. QED BY <2>1, <3>1
  <2>q. QED BY <2>3, <2>4, <2>5
<1>3. CASE Feedback!Clear
  BY <1>3 DEF Feedback!Clear
<1>4. CASE Feedback!StopAll
  <2>1. /\ fEntry' = Feedback!NoEntry
        /\ fStopped' = IF fEntry = Feedback!NoEntry THEN fStopped
                        ELSE fStopped \union {fEntry}
        /\ UNCHANGED <<fRun, fMade, fLate>>
    BY <1>4 DEF Feedback!StopAll
  <2>q. QED BY <2>1
<1>5. CASE Feedback!StopAllDone
  <2>1. fStopper.at # "no" /\ UNCHANGED <<fEntry, fRun, fStopped, fMade, fLate>>
    BY <1>5 DEF Feedback!StopAllDone
  <2>q. QED BY <2>1
<1>q. QED BY <1>1, <1>2, <1>3, <1>4, <1>5

(* A goroutine starts and moves on without touching the table. *)
LEMMA GoroutineStep ==
  ASSUME FInv, Feedback!Go \/ \E e \in Feedback!Animations : Feedback!Run(e)
  PROVE  FInv'
<1> USE DEF FInv, Numbered, MadeAreTracked
<1>1. CASE Feedback!Go
  <2>1. /\ fRun' = [fRun EXCEPT ![fMade] = "waiting"]
        /\ UNCHANGED <<fEntry, fStopped, fMade, fStopper, fLate>>
    BY <1>1 DEF Feedback!Go
  <2>2. fRun' \in [Feedback!Animations -> {"none", "waiting", "editing", "done"}]
    BY <2>1
  <2>3. \A e \in Feedback!Animations : fRun'[e] # "none" => e <= fMade
    BY <2>1 DEF Feedback!Animations
  <2>q. QED BY <2>1, <2>2, <2>3
<1>2. ASSUME NEW e \in Feedback!Animations, Feedback!Run(e) PROVE FInv'
  BY <1>2 DEF Feedback!Run
<1>q. QED BY <1>1, <1>2

(* Every step keeps the invariant. *)
LEMMA NextFInv == FInv /\ (Feedback!FNext \/ UNCHANGED fVars) => FInv'
<1> SUFFICES ASSUME FInv, Feedback!FNext \/ UNCHANGED fVars PROVE FInv'
  OBVIOUS
<1>1. CASE \/ \E kind \in {"feedback", "answer", "thought"} : Feedback!Send(kind)
           \/ Feedback!Edit \/ Feedback!Broadcast \/ Feedback!Cleared
           \/ UNCHANGED fVars
  <2>1. UNCHANGED <<fEntry, fRun, fStopped, fMade, fStopper, fLate>>
    BY <1>1 DEF Feedback!Send, Feedback!Edit, Feedback!Broadcast, Feedback!Cleared,
                fVars
  <2>q. QED BY <2>1 DEF FInv, Numbered, MadeAreTracked
<1>q. QED BY <1>1, TableStep, GoroutineStep DEF Feedback!FNext

(* A running animation is the tracked one or has been told to stop; after  *)
(* StopAll it is one that a Send beside it recorded.                       *)
THEOREM AnimationsStayTracked == Spec => []AnimationsAreTracked
<1>1. Init => FInv
  BY InitFInv DEF Init
<1>2. FInv /\ [Next]_chVars => FInv'
  BY StepOfAPart, NextFInv
<1>3. FInv => AnimationsAreTracked
  BY DEF FInv, Numbered, MadeAreTracked, AnimationsAreTracked,
         Feedback!AnimationsAreTracked, Feedback!Animations
<1>q. QED BY <1>1, <1>2, <1>3, PTL DEF Spec
--------------------------------------------------------------------------------
(* An answer in Telegram *)

(* What of the text or of the parts has been dealt with. *)
Dealt == tUnreadable \union UNION {tShown[i][1]..tShown[i][2] : i \in 1..Len(tShown)}

(* The chunks still to be sent are the rest of the text, in order. *)
IsRest(q, n) ==
  /\ q = <<>> => n = Length
  /\ q # <<>> => q[1][1] = n + 1 /\ q[Len(q)][2] = Length
  /\ \A i \in 1..(Len(q) - 1) : q[i + 1][1] = q[i][2] + 1

(* Nothing is shown before the sending begins. *)
NothingYet ==
  tAnswer \in {"none", "edit", "edit_plain", "send", "media"} =>
    tShown = <<>> /\ tQueue = <<>> /\ tUnreadable = {} /\ tReplies = 0

(* What has been dealt with is a beginning, and the queue is the rest. *)
BeginningAndRest ==
  \E n \in 0..Length :
    /\ Dealt = 1..n
    /\ tAnswer \in {"chunks", "parts"} => IsRest(tQueue, n)
    /\ tAnswer = "done" => tEdited \/ n = Length

InOrder == \A i, j \in 1..Len(tShown) : i < j => tShown[i][2] < tShown[j][1]

EditEndsIt == tEdited => tAnswer = "done" /\ tShown = <<>>

OneReply ==
  /\ tReplies <= 1 /\ (tReplyTo => tReplies = 0)
  /\ tAnswer \in {"media", "parts"} => ~tReplyTo

(* Parts are not cut. *)
WholeParts == tAnswer = "parts" => \A i \in 1..Len(tQueue) : tQueue[i][1] = tQueue[i][2]

Faithful ==
  /\ NothingYet /\ BeginningAndRest /\ InOrder /\ EditEndsIt /\ OneReply /\ WholeParts

BotInv == Bot!TTypeOK /\ (tDoubtful \/ Faithful)

(* What a chunk of the text is.                                            *)
LEMMA ChunkFacts ==
  ASSUME NEW c \in Bot!Chunks
  PROVE  c[1] \in 1..Length /\ c[2] \in 1..Length /\ c[1] <= c[2] /\ c = <<c[1], c[2]>>
  BY DEF Bot!Chunks

(* From one place of the text to a later one is a chunk.                   *)
LEMMA ChunkOf ==
  ASSUME NEW a \in 1..Length, NEW b \in 1..Length, a <= b PROVE <<a, b>> \in Bot!Chunks
  BY DEF Bot!Chunks

(* The invariant says what it is for.                                      *)
LEMMA BotGoal == LengthAssumption /\ BotInv => Bot!AnswerShownOnce
<1> SUFFICES ASSUME LengthAssumption, BotInv, ~tDoubtful PROVE Bot!AnswerShownOnce
  BY DEF Bot!AnswerShownOnce
<1>1. Faithful
  BY DEF BotInv
<1>2. PICK n \in 0..Length : /\ Dealt = 1..n
                             /\ tAnswer = "done" => tEdited \/ n = Length
  BY <1>1 DEF Faithful, BeginningAndRest
<1>q. QED BY <1>1, <1>2 DEF Faithful, Bot!AnswerShownOnce, InOrder, EditEndsIt, OneReply,
                            Dealt

(* A chunk sent n times.                                                   *)
LEMMA Repeated ==
  ASSUME NEW S, NEW c \in S, NEW n \in Nat
  PROVE  /\ [i \in 1..n |-> c] \in Seq(S)
         /\ Len([i \in 1..n |-> c]) = n
  OBVIOUS

(* A chunk appears as often as it was sent. *)
LEMMA AppearEffect ==
  ASSUME Bot!TTypeOK, tQueue # <<>>, NEW n \in 0..2, Bot!Appear(n)
  PROVE  /\ tShown' \in Seq(Bot!Chunks) /\ Len(tShown') = Len(tShown) + n
         /\ \A i \in 1..Len(tShown) : tShown'[i] = tShown[i]
         /\ \A i \in 1..Len(tShown') : i > Len(tShown) => tShown'[i] = tQueue[1]
         /\ tReplies' = IF tReplyTo THEN tReplies + n ELSE tReplies
         /\ tReplies' \in 0..Len(tShown')
<1>1. tQueue \in Seq(Bot!Chunks) /\ tShown \in Seq(Bot!Chunks) /\ Head(tQueue) = tQueue[1]
      /\ Head(tQueue) \in Bot!Chunks
  BY DEF Bot!TTypeOK
<1>2. PICK more : more = [i \in 1..n |-> Head(tQueue)]
  OBVIOUS
<1>3. more \in Seq(Bot!Chunks) /\ Len(more) = n /\ \A i \in 1..n : more[i] = Head(tQueue)
  BY <1>1, <1>2, Repeated
<1>4. tShown' = tShown \o more
  BY <1>2 DEF Bot!Appear
<1>5. /\ tShown' \in Seq(Bot!Chunks) /\ Len(tShown') = Len(tShown) + n
      /\ \A i \in 1..(Len(tShown) + n) :
           tShown'[i] = IF i <= Len(tShown) THEN tShown[i] ELSE more[i - Len(tShown)]
  BY <1>1, <1>3, <1>4, ConcatProperties
<1>6. Len(tShown) \in Nat
  BY <1>1
<1>7. tReplies' = IF tReplyTo THEN tReplies + n ELSE tReplies
  BY DEF Bot!Appear
<1>8. tReplies' \in 0..Len(tShown')
  BY <1>5, <1>6, <1>7 DEF Bot!TTypeOK
<1>9. ASSUME NEW i \in 1..Len(tShown'), i > Len(tShown) PROVE tShown'[i] = tQueue[1]
  BY <1>1, <1>3, <1>5, <1>6, <1>9
<1>q. QED BY <1>1, <1>5, <1>6, <1>7, <1>8, <1>9

(* The invariant holds before the bot starts.                              *)
LEMMA InitBot == LengthAssumption /\ Bot!TInit => BotInv
<1> SUFFICES ASSUME LengthAssumption, Bot!TInit PROVE BotInv
  OBVIOUS
<1>0. <<>> \in Seq(Bot!Chunks) /\ Len(<<>>) = 0
  BY EmptySeq
<1>1. Bot!TTypeOK
  <2>1. tQueue \in Seq(Bot!Chunks) /\ tShown \in Seq(Bot!Chunks) /\ tReplies \in 0..Len(tShown)
    BY <1>0 DEF Bot!TInit
  <2>2. {tCtxDone, tReplyTo, tEdited, tDoubtful} \subseteq BOOLEAN
    BY DEF Bot!TInit
  <2>3. /\ tMessage \in [Bot!Incoming -> {"none", "blocked", "media", "ignored", "quoted", "hand_on",
                                    "published", "failed"}]
        /\ tStored \subseteq Bot!Incoming /\ tTyping \in [Bot!Incoming -> {"off", "on", "over"}]
        /\ tUnreadable \subseteq 1..Length
    BY DEF Bot!TInit
  <2>q. QED BY <2>1, <2>2, <2>3 DEF Bot!TInit, Bot!TTypeOK
<1>2. Dealt = 1..0
  BY DEF Bot!TInit, Dealt
<1>3. BeginningAndRest
  BY <1>2 DEF Bot!TInit, BeginningAndRest, LengthAssumption
<1>q. QED BY <1>1, <1>3 DEF BotInv, Faithful, Bot!TInit, NothingYet, InOrder, EditEndsIt,
                            OneReply, WholeParts

(* Incoming messages, typing, the registration, Start and Stop do not      *)
(* touch the answer.                                                       *)
LEMMA AroundTheAnswer ==
  ASSUME BotInv,
         \/ Bot!Start \/ Bot!TryRegister \/ Bot!RegisterAgain \/ Bot!StopBegins \/ Bot!StopEnds
         \/ \E m \in Bot!Incoming :
              Bot!Receive(m) \/ Bot!StoreMedia(m) \/ Bot!Quote(m) \/ Bot!HandOn(m) \/ Bot!TypingEnds(m)
         \/ UNCHANGED Bot!tvars
  PROVE  BotInv'
<1> USE DEF Bot!inVars, Bot!outVars, Bot!lifeVars
<1>1. UNCHANGED Bot!outVars
  BY DEF Bot!Start, Bot!TryRegister, Bot!RegisterAgain, Bot!StopBegins, Bot!StopEnds,
         Bot!Receive, Bot!StoreMedia, Bot!Quote,
         Bot!HandOn, Bot!TypingEnds, Bot!tvars
<1>2. Faithful => Faithful'
  <2>1. Dealt' = Dealt
    BY <1>1 DEF Dealt
  <2>2. BeginningAndRest => BeginningAndRest'
    BY <1>1, <2>1 DEF BeginningAndRest
  <2>q. QED BY <1>1, <2>2 DEF Faithful, NothingYet, InOrder, EditEndsIt, OneReply,
                              WholeParts
<1>3. Bot!TTypeOK'
  <2> USE <1>1 DEF BotInv, Bot!TTypeOK
  <2>1. CASE Bot!Start \/ Bot!TryRegister \/ Bot!RegisterAgain \/ Bot!StopBegins \/ Bot!StopEnds \/ UNCHANGED Bot!tvars
    BY <2>1 DEF Bot!Start, Bot!TryRegister, Bot!RegisterAgain, Bot!StopBegins,
                Bot!StopEnds, Bot!tvars
  <2>2. ASSUME NEW m \in Bot!Incoming,
               Bot!Receive(m) \/ Bot!StoreMedia(m) \/ Bot!Quote(m) \/ Bot!HandOn(m) \/ Bot!TypingEnds(m)
        PROVE  Bot!TTypeOK'
    BY <2>2 DEF Bot!Receive, Bot!StoreMedia, Bot!Stored, Bot!Quote, Bot!HandOn,
                Bot!TypingEnds
  <2>q. QED BY <2>1, <2>2
<1>q. QED BY <1>1, <1>2, <1>3 DEF BotInv

(* What a request did and what is said of it. *)
LEMMA OutcomeFacts ==
  ASSUME NEW o \in Bot!Outcomes
  PROVE  /\ o.done \in BOOLEAN
         /\ o.says \in {"ok", "bad_request", "reset", "timeout", "other"}
         /\ o.says = "ok" => o.done = TRUE
         /\ o.says = "bad_request" => o.done = FALSE
<1>1. CASE o = [done |-> TRUE, says |-> "ok"]
  <2>1. o.done = TRUE /\ o.says = "ok"
    BY <1>1
  <2>q. QED BY <2>1
<1>2. CASE o = [done |-> FALSE, says |-> "bad_request"]
  <2>1. o.done = FALSE /\ o.says = "bad_request"
    BY <1>2
  <2>q. QED BY <2>1
<1>3. CASE o \in [done : BOOLEAN, says : {"reset", "timeout", "other"}]
  <2>1. o.done \in BOOLEAN
    BY <1>3, Zenon
  <2>2. o.says \in {"reset", "timeout", "other"}
    BY <1>3
  <2>q. QED BY <2>1, <2>2
<1>q. QED BY <1>1, <1>2, <1>3 DEF Bot!Outcomes

(* The answer is edited in, or how it is sent is settled. *)
LEMMA AnswerStep ==
  ASSUME BotInv, Bot!Answer \/ \E o \in Bot!Outcomes : Bot!Edit(o) PROVE BotInv'
<1> USE DEF Bot!inVars, Bot!outVars, Bot!lifeVars
<1>1. Dealt' = Dealt /\ UNCHANGED <<tQueue, tShown, tReplies, tUnreadable>>
  BY DEF Bot!Answer, Bot!Edit, Dealt
<1>2. Bot!TTypeOK'
  <2>1. CASE Bot!Answer
    BY <2>1, <1>1 DEF Bot!Answer, BotInv, Bot!TTypeOK
  <2>2. ASSUME NEW o \in Bot!Outcomes, Bot!Edit(o) PROVE Bot!TTypeOK'
    <3>0. o.done \in BOOLEAN
      BY OutcomeFacts
    <3>1. o.done \in BOOLEAN /\ tAnswer' \in {"edit_plain", "done", "send"}
      BY <2>2, <3>0 DEF Bot!Edit, Bot!EditEnds
    <3>2. tEdited' \in BOOLEAN /\ tDoubtful' \in BOOLEAN
      BY <2>2, <3>1 DEF Bot!Edit, BotInv, Bot!TTypeOK
    <3>q. QED BY <2>2, <1>1, <3>1, <3>2 DEF Bot!Edit, BotInv, Bot!TTypeOK
  <2>q. QED BY <2>1, <2>2
<1>3. ASSUME ~tDoubtful' PROVE Faithful'
  <2>1. ~tDoubtful /\ Faithful
    <3>1. CASE Bot!Answer
      BY <1>3, <3>1 DEF Bot!Answer, BotInv
    <3>2. ASSUME NEW o \in Bot!Outcomes, Bot!Edit(o) PROVE ~tDoubtful
      BY <1>3, <3>2 DEF Bot!Edit
    <3>q. QED BY <3>1, <3>2 DEF BotInv
  <2>2. CASE Bot!Answer
    BY <2>1, <2>2, <1>1
    DEF Bot!Answer, Faithful, NothingYet, BeginningAndRest, InOrder, EditEndsIt, OneReply,
        WholeParts
  <2>3. ASSUME NEW o \in Bot!Outcomes, Bot!Edit(o) PROVE Faithful'
    <3>1. /\ tAnswer \in {"edit", "edit_plain"} /\ ~tEdited
          /\ tAnswer' \in {"edit_plain", "done", "send"}
          /\ (tEdited' \/ tAnswer' = "done") => tEdited' /\ tAnswer' = "done"
      <4>1. tAnswer \in {"edit", "edit_plain"} /\ ~tEdited
        BY <2>1, <2>3 DEF Bot!Edit, Faithful, EditEndsIt
      <4>0. o.done \in BOOLEAN
        BY OutcomeFacts
      <4>2. o.says \in {"ok", "bad_request", "reset", "timeout", "other"}
            /\ (o.says = "ok" => o.done = TRUE) /\ (o.says = "bad_request" => o.done = FALSE)
        BY OutcomeFacts
      <4>3. /\ o.says \in {"timeout", "other"} => o.done = FALSE
            /\ o.says = "reset" => o.done
        BY <1>3, <2>3, <4>0 DEF Bot!Edit
      <4>q. QED BY <2>3, <4>1, <4>2, <4>3 DEF Bot!Edit, Bot!EditEnds, Bot!IsPostConnectError
    <3>q. QED
      BY <2>1, <2>3, <3>1, <1>1
      DEF Bot!Edit, Faithful, NothingYet, BeginningAndRest, InOrder, EditEndsIt, OneReply,
          WholeParts
  <2>q. QED BY <2>2, <2>3
<1>q. QED BY <1>2, <1>3 DEF BotInv

(* The whole text is queued, or the parts one by one. *)
LEMMA BeginStep ==
  ASSUME LengthAssumption, BotInv, Bot!SendBegins \/ Bot!SendMedia PROVE BotInv'
<1> USE DEF Bot!inVars, Bot!outVars, Bot!lifeVars
<1>1. Dealt' = Dealt /\ UNCHANGED <<tDoubtful, tEdited, tReplyTo, tShown, tReplies, tUnreadable>>
  BY DEF Bot!SendBegins, Bot!SendMedia, Dealt
<1>2. CASE tAnswer' = "failed"
  <2>1. tQueue' = tQueue /\ tAnswer \in {"send", "media"}
    BY <1>2 DEF Bot!SendBegins, Bot!SendMedia
  <2>2. Bot!TTypeOK'
    BY <1>1, <1>2, <2>1 DEF Bot!SendBegins, Bot!SendMedia, BotInv, Bot!TTypeOK
  <2>q. QED
    BY <1>1, <1>2, <2>1, <2>2
    DEF BotInv, Faithful, NothingYet, BeginningAndRest, InOrder, EditEndsIt, OneReply,
        WholeParts
<1>3. CASE tAnswer' # "failed"
  <2>1. /\ tQueue' \in Seq(Bot!Chunks) /\ tQueue' # <<>> /\ Len(tQueue') \in Nat
        /\ tQueue'[1][1] = 1 /\ tQueue'[Len(tQueue')][2] = Length
        /\ \A i \in 1..(Len(tQueue') - 1) : tQueue'[i + 1][1] = tQueue'[i][2] + 1
        /\ WholeParts'
    <3>1. CASE Bot!SendBegins
      <4>1. tQueue' = <<Bot!Whole>> /\ Bot!Whole \in Bot!Chunks /\ Bot!Whole[1] = 1 /\ Bot!Whole[2] = Length
        BY <1>3, <3>1 DEF Bot!SendBegins, Bot!Whole, Bot!Chunks, LengthAssumption
      <4>2. tAnswer' = "chunks"
        BY <1>3, <3>1 DEF Bot!SendBegins
      <4>q. QED BY <4>1, <4>2 DEF WholeParts
    <3>2. CASE Bot!SendMedia
      <4>1. tQueue' = [i \in 1..Length |-> <<i, i>>] /\ \A i \in 1..Length : <<i, i>> \in Bot!Chunks
        BY <1>3, <3>2 DEF Bot!SendMedia, Bot!Chunks
      <4>2. tQueue' \in Seq(Bot!Chunks) /\ Len(tQueue') = Length
        BY <4>1 DEF LengthAssumption
      <4>3. tQueue' # <<>>
        BY <4>2 DEF LengthAssumption
      <4>4. tQueue'[1] = <<1, 1>> /\ tQueue'[Length] = <<Length, Length>>
        BY <4>1 DEF LengthAssumption
      <4>5. \A i \in 1..(Length - 1) : tQueue'[i] = <<i, i>> /\ tQueue'[i + 1] = <<i + 1, i + 1>>
        <5> SUFFICES ASSUME NEW i \in 1..(Length - 1)
                     PROVE  tQueue'[i] = <<i, i>> /\ tQueue'[i + 1] = <<i + 1, i + 1>>
          OBVIOUS
        <5>1. i \in 1..Length /\ i + 1 \in 1..Length
          BY DEF LengthAssumption
        <5>q. QED BY <4>1, <5>1
      <4>6. WholeParts'
        BY <4>1, <4>2 DEF WholeParts
      <4>q. QED BY <4>2, <4>3, <4>4, <4>5, <4>6 DEF LengthAssumption
    <3>q. QED BY <3>1, <3>2
  <2>2. /\ tAnswer \in {"send", "media"} /\ tAnswer' \in {"chunks", "parts"}
        /\ tAnswer' = "parts" => tAnswer = "media"
    BY <1>3 DEF Bot!SendBegins, Bot!SendMedia
  <2>3. Bot!TTypeOK'
    BY <1>1, <2>1, <2>2 DEF Bot!SendBegins, Bot!SendMedia, BotInv, Bot!TTypeOK
  <2>4. ASSUME Faithful PROVE Faithful'
    <3>1. tShown = <<>> /\ tUnreadable = {} /\ tReplies = 0
      BY <2>2, <2>4 DEF Faithful, NothingYet
    <3>2. Dealt = 1..0
      BY <3>1 DEF Dealt
    <3>3. IsRest(tQueue', 0)
      BY <2>1 DEF IsRest
    <3>4. BeginningAndRest'
      BY <1>1, <2>2, <3>2, <3>3 DEF BeginningAndRest, LengthAssumption, IsRest
    <3>q. QED
      BY <1>1, <2>1, <2>2, <2>4, <3>1, <3>4
        DEF Faithful, NothingYet, InOrder, EditEndsIt, OneReply, WholeParts
  <2>q. QED BY <1>1, <2>3, <2>4 DEF BotInv
<1>q. QED BY <1>2, <1>3

(* A chunk is cut: the rest of the text is still queued, in order. *)
LEMMA CutStep ==
  ASSUME LengthAssumption, BotInv, NEW k \in 1..Length, Bot!Cut(k) PROVE BotInv'
<1> USE DEF Bot!inVars, Bot!outVars, Bot!lifeVars
<1>1. /\ tQueue \in Seq(Bot!Chunks) /\ tQueue # <<>> /\ Len(tQueue) \in Nat \ {0}
      /\ tQueue[1] = Head(tQueue) /\ tQueue[1] \in Bot!Chunks
      /\ tQueue[1][1] <= k /\ k < tQueue[1][2] /\ tAnswer = "chunks"
  BY DEF BotInv, Bot!TTypeOK, Bot!Cut
<1>2. PICK a \in 1..Length, b \in 1..Length : tQueue[1][1] = a /\ tQueue[1][2] = b /\ a <= k /\ k < b
  BY <1>1, ChunkFacts
<1>3. PICK parts : parts = <<<<a, k>>, <<k + 1, b>>>>
  OBVIOUS
<1>4. <<a, k>> \in Bot!Chunks /\ <<k + 1, b>> \in Bot!Chunks
  <2>1. k + 1 \in 1..Length /\ k + 1 <= b
    BY <1>2 DEF LengthAssumption
  <2>q. QED BY <1>2, <2>1, ChunkOf
<1>5. parts \in Seq(Bot!Chunks) /\ Len(parts) = 2 /\ parts[1] = <<a, k>> /\ parts[2] = <<k + 1, b>>
  BY <1>3, <1>4
<1>6. /\ Tail(tQueue) \in Seq(Bot!Chunks) /\ Len(Tail(tQueue)) = Len(tQueue) - 1
      /\ \A i \in 1..(Len(tQueue) - 1) : Tail(tQueue)[i] = tQueue[i + 1]
  BY <1>1, HeadTailProperties
<1>7. tQueue' = parts \o Tail(tQueue)
  BY <1>1, <1>2, <1>3 DEF Bot!Cut, Bot!Requeue
<1>8. /\ tQueue' \in Seq(Bot!Chunks) /\ Len(tQueue') = Len(tQueue) + 1
      /\ \A i \in 1..(Len(tQueue) + 1) :
           tQueue'[i] = IF i <= 2 THEN parts[i] ELSE tQueue[i - 1]
  <2>1. /\ tQueue' \in Seq(Bot!Chunks) /\ Len(tQueue') = 2 + (Len(tQueue) - 1)
        /\ \A i \in 1..(2 + (Len(tQueue) - 1)) :
             tQueue'[i] = IF i <= 2 THEN parts[i] ELSE Tail(tQueue)[i - 2]
    <3>1. /\ tQueue' \in Seq(Bot!Chunks) /\ Len(tQueue') = Len(parts) + Len(Tail(tQueue))
          /\ \A i \in 1..(Len(parts) + Len(Tail(tQueue))) :
               tQueue'[i] = IF i <= Len(parts) THEN parts[i] ELSE Tail(tQueue)[i - Len(parts)]
      BY <1>5, <1>6, <1>7, ConcatProperties
    <3>q. QED BY <1>5, <1>6, <3>1
  <2>2. ASSUME NEW i \in 1..(Len(tQueue) + 1), ~(i <= 2) PROVE tQueue'[i] = tQueue[i - 1]
    <3>1. i - 2 \in 1..(Len(tQueue) - 1) /\ (i - 2) + 1 = i - 1
      BY <1>1, <2>2
    <3>q. QED BY <1>1, <1>6, <2>1, <2>2, <3>1
  <2>q. QED BY <1>1, <2>1, <2>2
<1>9. Bot!TTypeOK'
  BY <1>8 DEF Bot!Cut, BotInv, Bot!TTypeOK
<1>10. ASSUME NEW n \in 0..Length, IsRest(tQueue, n) PROVE IsRest(tQueue', n)
  <2>1. tQueue[1][1] = n + 1 /\ tQueue[Len(tQueue)][2] = Length
    BY <1>1, <1>10 DEF IsRest
  <2>2. tQueue'[1] = <<a, k>> /\ tQueue'[2] = <<k + 1, b>>
    BY <1>1, <1>5, <1>8
  <2>3. tQueue'[1][1] = n + 1
    <3>1. tQueue'[1][1] = a
      BY <2>2
    <3>q. QED BY <1>2, <2>1, <3>1
  <2>4. tQueue'[Len(tQueue')][2] = Length
    <3>1. CASE Len(tQueue) = 1
      BY <1>2, <1>8, <2>1, <2>2, <3>1
    <3>2. CASE Len(tQueue) # 1
      <4>1. /\ Len(tQueue) + 1 \in 1..(Len(tQueue) + 1) /\ ~(Len(tQueue) + 1 <= 2)
            /\ (Len(tQueue) + 1) - 1 = Len(tQueue)
        <5>1. Len(tQueue) \in Nat /\ Len(tQueue) # 0
          BY <1>1
        <5>q. QED BY <3>2, <5>1
      <4>2. tQueue'[Len(tQueue) + 1] = tQueue[Len(tQueue)]
        BY <1>8, <4>1
      <4>q. QED BY <1>8, <2>1, <4>2
    <3>q. QED BY <3>1, <3>2
  <2>5. ASSUME NEW i \in 1..(Len(tQueue') - 1) PROVE tQueue'[i + 1][1] = tQueue'[i][2] + 1
    <3>1. CASE i = 1
      BY <1>2, <2>2, <3>1
    <3>2. CASE i = 2
      <4>1. tQueue'[3] = tQueue[2] /\ tQueue[1 + 1][1] = tQueue[1][2] + 1
        BY <1>1, <1>8, <1>10, <3>2 DEF IsRest
      <4>q. QED BY <1>2, <2>2, <3>2, <4>1
    <3>3. CASE i > 2
      <4>1. tQueue'[i + 1] = tQueue[i] /\ tQueue'[i] = tQueue[i - 1]
        BY <1>1, <1>8, <3>3
      <4>2. i - 1 \in 1..(Len(tQueue) - 1) /\ (i - 1) + 1 = i
        BY <1>1, <1>8, <3>3
      <4>q. QED BY <1>10, <4>1, <4>2 DEF IsRest
    <3>q. QED BY <1>1, <1>8, <3>1, <3>2, <3>3
  <2>6. tQueue' # <<>>
    BY <1>1, <1>8
  <2>q. QED BY <2>3, <2>4, <2>5, <2>6 DEF IsRest
<1>11. Dealt' = Dealt /\ UNCHANGED <<tAnswer, tDoubtful, tEdited, tReplyTo, tShown, tReplies, tUnreadable>>
  BY DEF Bot!Cut, Dealt
<1>12. BeginningAndRest => BeginningAndRest'
  BY <1>1, <1>10, <1>11 DEF BeginningAndRest
<1>q. QED
  BY <1>1, <1>9, <1>11, <1>12
  DEF BotInv, Faithful, NothingYet, InOrder, EditEndsIt, OneReply, WholeParts

(* What is left once the first chunk has been dealt with. *)
LEMMA RestOfTail ==
  ASSUME NEW q \in Seq(Bot!Chunks), q # <<>>, NEW n \in 0..Length, IsRest(q, n)
  PROVE  /\ q[1] \in Bot!Chunks /\ q[1][1] = n + 1 /\ q[1][2] \in (n + 1)..Length
         /\ Tail(q) \in Seq(Bot!Chunks) /\ IsRest(Tail(q), q[1][2])
<1>1. Len(q) \in Nat \ {0} /\ q[1] \in Bot!Chunks /\ q[1][1] = n + 1 /\ q[Len(q)][2] = Length
  BY DEF IsRest
<1>2. q[1][2] \in (n + 1)..Length
  BY <1>1, ChunkFacts
<1>3. /\ Tail(q) \in Seq(Bot!Chunks) /\ Len(Tail(q)) = Len(q) - 1
      /\ \A i \in 1..(Len(q) - 1) : Tail(q)[i] = q[i + 1]
  BY <1>1, HeadTailProperties
<1>4. Tail(q) = <<>> => q[1][2] = Length
  <2>1. Tail(q) = <<>> => Len(q) - 1 = 0
    BY <1>3
  <2>2. Tail(q) = <<>> => Len(q) = 1
    BY <1>1, <2>1
  <2>q. QED BY <1>1, <2>2
<1>5. Tail(q) # <<>> => Tail(q)[1][1] = q[1][2] + 1 /\ Tail(q)[Len(Tail(q))][2] = Length
  <2> SUFFICES ASSUME Tail(q) # <<>>
               PROVE  Tail(q)[1][1] = q[1][2] + 1 /\ Tail(q)[Len(Tail(q))][2] = Length
    OBVIOUS
  <2>1. Len(q) > 1
    BY <1>1, <1>3
  <2>2. Tail(q)[1] = q[1 + 1] /\ Tail(q)[Len(q) - 1] = q[Len(q)]
    BY <1>1, <1>3, <2>1
  <2>3. q[1 + 1][1] = q[1][2] + 1
    BY <1>1, <2>1 DEF IsRest
  <2>q. QED BY <1>1, <1>3, <2>2, <2>3
<1>6. ASSUME NEW i \in 1..(Len(Tail(q)) - 1) PROVE Tail(q)[i + 1][1] = Tail(q)[i][2] + 1
  <2>1. i + 1 \in 1..(Len(q) - 1) /\ Tail(q)[i + 1] = q[(i + 1) + 1] /\ Tail(q)[i] = q[i + 1]
    BY <1>1, <1>3
  <2>q. QED BY <2>1 DEF IsRest
<1>q. QED BY <1>1, <1>2, <1>3, <1>4, <1>5, <1>6 DEF IsRest

(* The next request: an error that is not doubted showed nothing, and what *)
(* was shown is the first chunk, which then leaves the queue.              *)
LEMMA RequestEffect ==
  ASSUME BotInv,
         \/ \E o \in Bot!Outcomes : Bot!SendPart(o)
         \/ \E first, second \in Bot!Outcomes : Bot!SendChunk(first, second)
  PROVE  /\ Bot!TTypeOK'
         /\ tQueue # <<>> /\ tAnswer \in {"chunks", "parts"}
         /\ UNCHANGED <<tEdited, tUnreadable>>
         /\ ~tDoubtful' =>
              /\ ~tDoubtful
              /\ \/ /\ tAnswer' = "failed" /\ UNCHANGED <<tQueue, tReplyTo, tReplies>>
                    /\ Len(tShown') = Len(tShown)
                    /\ \A i \in 1..Len(tShown) : tShown'[i] = tShown[i]
                 \/ /\ tAnswer' = tAnswer /\ tQueue' = Tail(tQueue)
                    /\ tReplyTo' \in {FALSE, tReplyTo}
                    /\ tAnswer = "chunks" => tReplyTo' = FALSE
                    /\ tReplies' = IF tReplyTo THEN tReplies + 1 ELSE tReplies
                    /\ Len(tShown') = Len(tShown) + 1
                    /\ \A i \in 1..Len(tShown) : tShown'[i] = tShown[i]
                    /\ tShown'[Len(tShown) + 1] = tQueue[1]
<1> USE DEF Bot!inVars, Bot!outVars, Bot!lifeVars
<1>0. Bot!TTypeOK /\ Len(tShown) \in Nat /\ tReplies \in Nat
      /\ (tQueue # <<>> => Tail(tQueue) \in Seq(Bot!Chunks))
  BY DEF BotInv, Bot!TTypeOK
<1>1. ASSUME NEW n \in 0..2, tQueue # <<>>, Bot!Appear(n)
      PROVE  /\ tShown' \in Seq(Bot!Chunks) /\ Len(tShown') = Len(tShown) + n
             /\ \A i \in 1..Len(tShown) : tShown'[i] = tShown[i]
             /\ n = 1 => tShown'[Len(tShown) + 1] = tQueue[1]
             /\ n = 0 => tReplies' = tReplies
             /\ n = 1 => tReplies' = IF tReplyTo THEN tReplies + 1 ELSE tReplies
             /\ tReplies' \in 0..Len(tShown')
  <2>1. /\ tShown' \in Seq(Bot!Chunks) /\ Len(tShown') = Len(tShown) + n
        /\ \A i \in 1..Len(tShown) : tShown'[i] = tShown[i]
        /\ \A i \in 1..Len(tShown') : i > Len(tShown) => tShown'[i] = tQueue[1]
        /\ tReplies' = IF tReplyTo THEN tReplies + n ELSE tReplies
        /\ tReplies' \in 0..Len(tShown')
    BY <1>0, <1>1, AppearEffect
  <2>2. n = 1 => Len(tShown) + 1 \in 1..Len(tShown') /\ Len(tShown) + 1 > Len(tShown)
    BY <1>0, <2>1
  <2>q. QED BY <1>0, <2>1, <2>2
<1>2. CASE \E o \in Bot!Outcomes : Bot!SendPart(o)
  <2>1. PICK o \in Bot!Outcomes : Bot!SendPart(o)
    BY <1>2
  <2>2. o.done \in BOOLEAN /\ (o.says = "ok" => o.done = TRUE)
    BY OutcomeFacts
  <2>3. PICK n \in 0..2 : n = IF o.done THEN 1 ELSE 0
    OBVIOUS
  <2>4. tQueue # <<>> /\ tAnswer = "parts" /\ Bot!Appear(n)
    BY <2>1, <2>3 DEF Bot!SendPart
  <2>5. tDoubtful' \in BOOLEAN
    BY <1>0, <2>1, <2>2 DEF Bot!SendPart, Bot!TTypeOK
  <2>6. Bot!TTypeOK'
    BY <1>0, <1>1, <2>1, <2>4, <2>5 DEF Bot!SendPart, Bot!TTypeOK
  <2>7. CASE o.says = "ok"
    <3>1. n = 1 /\ tAnswer' = tAnswer /\ tQueue' = Tail(tQueue)
      BY <2>1, <2>2, <2>3, <2>7 DEF Bot!SendPart
    <3>q. QED BY <1>1, <2>1, <2>4, <2>6, <3>1 DEF Bot!SendPart
  <2>8. CASE o.says # "ok"
    <3>1. tAnswer' = "failed" /\ tQueue' = tQueue /\ (~tDoubtful' => n = 0)
      BY <2>1, <2>2, <2>3, <2>8 DEF Bot!SendPart
    <3>2. n = 0 => Len(tShown') = Len(tShown)
      BY <1>0, <1>1, <2>4
    <3>q. QED BY <1>1, <2>1, <2>4, <2>6, <3>1, <3>2 DEF Bot!SendPart
  <2>q. QED BY <2>7, <2>8
<1>3. CASE \E first, second \in Bot!Outcomes : Bot!SendChunk(first, second)
  <2>1. PICK first \in Bot!Outcomes, second \in Bot!Outcomes : Bot!SendChunk(first, second)
    BY <1>3
  <2>2. /\ first.done \in BOOLEAN /\ (first.says = "ok" => first.done = TRUE)
        /\ second.done \in BOOLEAN /\ (second.says = "ok" => second.done = TRUE)
    BY OutcomeFacts
  <2>3. PICK n \in 0..2 :
          n = IF first.says = "ok" THEN 1
              ELSE (IF first.done THEN 1 ELSE 0) + (IF second.done THEN 1 ELSE 0)
    OBVIOUS
  <2>4. tQueue # <<>> /\ tAnswer = "chunks" /\ Bot!Appear(n)
    BY <2>1, <2>3 DEF Bot!SendChunk
  <2>5. tDoubtful' \in BOOLEAN
    BY <1>0, <2>1, <2>2 DEF Bot!SendChunk, Bot!TTypeOK
  <2>6. Bot!TTypeOK'
    BY <1>0, <1>1, <2>1, <2>4, <2>5 DEF Bot!SendChunk, Bot!TTypeOK
  <2>7. CASE first.says = "ok" \/ second.says = "ok"
    <3>1. tAnswer' = tAnswer /\ tQueue' = Tail(tQueue) /\ tReplyTo' = FALSE /\ (~tDoubtful' => n = 1)
      BY <2>1, <2>2, <2>3, <2>7 DEF Bot!SendChunk
    <3>q. QED BY <1>1, <2>1, <2>4, <2>6, <3>1 DEF Bot!SendChunk
  <2>8. CASE first.says # "ok" /\ second.says # "ok"
    <3>1. /\ tAnswer' = "failed" /\ tQueue' = tQueue /\ tReplyTo' = tReplyTo
          /\ ~tDoubtful' => n = 0
      BY <2>1, <2>2, <2>3, <2>8 DEF Bot!SendChunk
    <3>2. n = 0 => Len(tShown') = Len(tShown)
      BY <1>0, <1>1, <2>4
    <3>q. QED BY <1>1, <2>1, <2>4, <2>6, <3>1, <3>2 DEF Bot!SendChunk
  <2>q. QED BY <2>7, <2>8
<1>q. QED BY <1>2, <1>3

(* A request, tried again or not, keeps the invariant.                     *)
LEMMA RequestStep ==
  ASSUME LengthAssumption, BotInv,
         \/ \E o \in Bot!Outcomes : Bot!SendPart(o)
         \/ \E first, second \in Bot!Outcomes : Bot!SendChunk(first, second)
  PROVE  BotInv'
<1>0. /\ Bot!TTypeOK /\ Bot!TTypeOK' /\ Len(tShown) \in Nat /\ tQueue \in Seq(Bot!Chunks) /\ tQueue # <<>>
      /\ tShown \in Seq(Bot!Chunks) /\ tShown' \in Seq(Bot!Chunks)
      /\ tAnswer \in {"chunks", "parts"} /\ UNCHANGED <<tEdited, tUnreadable>>
  <2>1. Bot!TTypeOK /\ Bot!TTypeOK'
    BY RequestEffect DEF BotInv
  <2>2. tQueue # <<>> /\ tAnswer \in {"chunks", "parts"} /\ UNCHANGED <<tEdited, tUnreadable>>
    BY RequestEffect
  <2>3. /\ Len(tShown) \in Nat /\ tQueue \in Seq(Bot!Chunks)
        /\ tShown \in Seq(Bot!Chunks) /\ tShown' \in Seq(Bot!Chunks)
    BY <2>1 DEF Bot!TTypeOK
  <2>q. QED BY <2>1, <2>2, <2>3
<1> SUFFICES ASSUME ~tDoubtful' PROVE Faithful'
  BY <1>0 DEF BotInv
<1>1. ~tDoubtful /\ Faithful
  BY RequestEffect DEF BotInv
<1>2. PICK n \in 0..Length : Dealt = 1..n /\ IsRest(tQueue, n)
  BY <1>0, <1>1 DEF Faithful, BeginningAndRest
<1>3. ~tEdited
  BY <1>0, <1>1 DEF Faithful, EditEndsIt
<1>6. tQueue' \in {tQueue, Tail(tQueue)} /\ tAnswer' \in {"failed", tAnswer} => WholeParts'
  <2>1. Len(tQueue) \in Nat /\ Len(tQueue) # 0 /\ Len(Tail(tQueue)) = Len(tQueue) - 1
        /\ \A i \in 1..(Len(tQueue) - 1) : Tail(tQueue)[i] = tQueue[i + 1]
    BY <1>0, HeadTailProperties
  <2>2. \A i \in 1..(Len(tQueue) - 1) : i + 1 \in 1..Len(tQueue)
    BY <2>1
  <2> SUFFICES ASSUME tQueue' \in {tQueue, Tail(tQueue)}, tAnswer' = "parts", tAnswer = "parts",
                      NEW i \in 1..Len(tQueue')
               PROVE  tQueue'[i][1] = tQueue'[i][2]
    BY <1>0 DEF WholeParts
  <2>3. \A j \in 1..Len(tQueue) : tQueue[j][1] = tQueue[j][2]
    BY <1>1 DEF Faithful, WholeParts
  <2>4. CASE tQueue' = tQueue
    BY <2>3, <2>4
  <2>5. CASE tQueue' = Tail(tQueue)
    <3>1. i \in 1..(Len(tQueue) - 1)
      BY <2>1, <2>5
    <3>q. QED BY <2>1, <2>2, <2>3, <2>5, <3>1
  <2>q. QED BY <2>4, <2>5
<1>4. CASE /\ tAnswer' = "failed" /\ UNCHANGED <<tQueue, tReplyTo, tReplies>>
           /\ Len(tShown') = Len(tShown)
           /\ \A i \in 1..Len(tShown) : tShown'[i] = tShown[i]
  <2>1. Dealt' = Dealt
    BY <1>0, <1>4 DEF Dealt
  <2>2. InOrder'
    BY <1>1, <1>4 DEF Faithful, InOrder
  <2>3. BeginningAndRest'
    BY <1>2, <1>4, <2>1 DEF BeginningAndRest
  <2>q. QED
    BY <1>0, <1>1, <1>3, <1>4, <1>6, <2>2, <2>3
      DEF Faithful, NothingYet, EditEndsIt, OneReply
<1>5. CASE /\ tAnswer' = tAnswer /\ tQueue' = Tail(tQueue)
           /\ tReplyTo' \in {FALSE, tReplyTo}
           /\ tAnswer = "chunks" => tReplyTo' = FALSE
           /\ tReplies' = IF tReplyTo THEN tReplies + 1 ELSE tReplies
           /\ Len(tShown') = Len(tShown) + 1
           /\ \A i \in 1..Len(tShown) : tShown'[i] = tShown[i]
           /\ tShown'[Len(tShown) + 1] = tQueue[1]
  <2>1. PICK e \in (n + 1)..Length :
          tQueue[1][1] = n + 1 /\ tQueue[1][2] = e /\ IsRest(tQueue', e)
    BY <1>0, <1>2, <1>5, RestOfTail
  <2>2. Dealt' = Dealt \union (n + 1)..e
    <3>1. tShown'[Len(tShown) + 1][1] = n + 1 /\ tShown'[Len(tShown) + 1][2] = e
      BY <1>5, <2>1
    <3>2. PICK L \in Nat : L = Len(tShown) /\ Len(tShown') = L + 1
      BY <1>0, <1>5
    <3>3. 1..(L + 1) = 1..L \union {L + 1}
      OBVIOUS
    <3>4. tUnreadable' = tUnreadable
      BY <1>0
    <3>5. ASSUME NEW x \in Dealt' PROVE x \in Dealt \union (n + 1)..e
      <4>1. CASE x \in tUnreadable
        BY <4>1 DEF Dealt
      <4>2. CASE x \notin tUnreadable
        <5>1. PICK i \in 1..(L + 1) : x \in tShown'[i][1]..tShown'[i][2]
          BY <3>2, <3>4, <3>5, <4>2 DEF Dealt
        <5>2. CASE i = L + 1
          BY <3>1, <3>2, <5>1, <5>2
        <5>3. CASE i \in 1..L
          BY <1>5, <3>2, <5>1, <5>3 DEF Dealt
        <5>q. QED BY <3>3, <5>2, <5>3
      <4>q. QED BY <4>1, <4>2
    <3>6. ASSUME NEW x \in Dealt PROVE x \in Dealt'
      <4>1. CASE x \in tUnreadable
        BY <3>4, <4>1 DEF Dealt
      <4>2. CASE x \notin tUnreadable
        <5>1. PICK i \in 1..L : x \in tShown[i][1]..tShown[i][2]
          BY <3>2, <3>6, <4>2 DEF Dealt
        <5>2. tShown'[i] = tShown[i] /\ i \in 1..Len(tShown')
          BY <1>5, <3>2, <3>3, <5>1
        <5>q. QED BY <5>1, <5>2 DEF Dealt
      <4>q. QED BY <4>1, <4>2
    <3>7. ASSUME NEW x \in (n + 1)..e PROVE x \in Dealt'
      <4>1. L + 1 \in 1..Len(tShown') /\ x \in tShown'[L + 1][1]..tShown'[L + 1][2]
        BY <3>1, <3>2, <3>7
      <4>q. QED BY <4>1 DEF Dealt
    <3>q. QED BY <3>5, <3>6, <3>7
  <2>3. Dealt' = 1..e /\ e \in 0..Length
    BY <1>2, <2>1, <2>2 DEF LengthAssumption
  <2>4. BeginningAndRest'
    BY <1>0, <1>5, <2>1, <2>3 DEF BeginningAndRest
  <2>5. ASSUME NEW i \in 1..Len(tShown) PROVE tShown[i][2] <= n
    <3>1. tShown[i] \in Bot!Chunks
      BY <1>0, ElementOfSeq
    <3>2. tShown[i][2] \in tShown[i][1]..tShown[i][2]
      BY <3>1, ChunkFacts
    <3>3. tShown[i][2] \in Dealt
      BY <3>2 DEF Dealt
    <3>q. QED BY <1>2, <3>3
  <2>6. InOrder'
    <3> SUFFICES ASSUME NEW i \in 1..Len(tShown'), NEW j \in 1..Len(tShown'), i < j
                 PROVE  tShown'[i][2] < tShown'[j][1]
      BY DEF InOrder
    <3>1. i \in 1..Len(tShown) /\ tShown'[i] = tShown[i]
      BY <1>0, <1>5
    <3>2. CASE j \in 1..Len(tShown)
      BY <1>1, <1>5, <3>1, <3>2 DEF Faithful, InOrder
    <3>3. CASE j = Len(tShown) + 1
      <4>1. tShown'[j][1] = n + 1 /\ tShown'[i][2] <= n
        BY <1>5, <2>1, <2>5, <3>1, <3>3
      <4>2. tShown[i] \in Bot!Chunks
        BY <1>0, <3>1, ElementOfSeq
      <4>3. tShown[i][2] \in 1..Length
        BY <4>2, ChunkFacts
      <4>q. QED BY <3>1, <4>1, <4>3
    <3>q. QED BY <1>0, <1>5, <3>2, <3>3
  <2>7. OneReply'
    <3>1. tReplies \in Nat /\ tReplyTo \in BOOLEAN /\ OneReply
      BY <1>0, <1>1 DEF Faithful, Bot!TTypeOK
    <3>2. tReplyTo' = FALSE
      BY <1>0, <1>5, <3>1 DEF OneReply
    <3>3. tReplies' <= 1
      BY <1>5, <3>1 DEF OneReply
    <3>q. QED BY <3>2, <3>3 DEF OneReply
  <2>q. QED
    BY <1>0, <1>1, <1>3, <1>5, <1>6, <2>4, <2>6, <2>7 DEF Faithful, NothingYet, EditEndsIt
<1>q. QED BY <1>4, <1>5, RequestEffect

(* A part that cannot be read is left out, and the answer ends. *)
LEMMA SkipStep == ASSUME LengthAssumption, BotInv, Bot!SkipPart PROVE BotInv'
<1> USE DEF Bot!inVars, Bot!outVars, Bot!lifeVars
<1>0. /\ Bot!TTypeOK /\ tQueue \in Seq(Bot!Chunks) /\ tQueue # <<>> /\ Head(tQueue) = tQueue[1]
      /\ tQueue[1] \in Bot!Chunks /\ Tail(tQueue) \in Seq(Bot!Chunks) /\ tAnswer = "parts"
      /\ Len(tQueue) \in Nat /\ Len(tQueue) # 0
  BY DEF BotInv, Bot!TTypeOK, Bot!SkipPart
<1>1. Bot!TTypeOK'
  <2>1. tQueue[1][1] \in 1..Length
    BY <1>0, ChunkFacts
  <2>2. tUnreadable' \subseteq 1..Length /\ tQueue' \in Seq(Bot!Chunks)
    BY <1>0, <2>1 DEF Bot!TTypeOK, Bot!SkipPart
  <2>q. QED BY <1>0, <2>2 DEF Bot!TTypeOK, Bot!SkipPart
<1>2. /\ UNCHANGED <<tAnswer, tReplyTo, tShown, tReplies, tEdited, tDoubtful>>
      /\ tQueue' = Tail(tQueue) /\ tUnreadable' = tUnreadable \union {tQueue[1][1]}
  BY <1>0 DEF Bot!SkipPart
<1>3. ASSUME Faithful PROVE Faithful'
  <2>1. PICK n \in 0..Length : Dealt = 1..n /\ IsRest(tQueue, n)
    BY <1>0, <1>3 DEF Faithful, BeginningAndRest
  <2>2. tQueue[1][1] = n + 1 /\ tQueue[1][2] \in (n + 1)..Length /\ IsRest(tQueue', tQueue[1][2])
    BY <1>0, <1>2, <2>1, RestOfTail
  <2>3. tQueue[1][1] = tQueue[1][2]
    BY <1>0, <1>3 DEF Faithful, WholeParts
  <2>4. n + 1 \in 0..Length /\ IsRest(tQueue', n + 1)
    BY <2>2, <2>3 DEF LengthAssumption
  <2>5. Dealt' = 1..(n + 1)
    <3>0. tShown' = tShown /\ tUnreadable' = tUnreadable \union {n + 1}
      BY <1>2, <2>2
    <3>1. Dealt' = Dealt \union {n + 1}
      <4>1. \A x : x \in Dealt' <=>
              x \in tUnreadable' \/ \E i \in 1..Len(tShown) : x \in tShown[i][1]..tShown[i][2]
        BY <3>0 DEF Dealt
      <4>2. \A x : x \in Dealt <=>
              x \in tUnreadable \/ \E i \in 1..Len(tShown) : x \in tShown[i][1]..tShown[i][2]
        BY DEF Dealt
      <4>q. QED BY <3>0, <4>1, <4>2
    <3>2. 1..(n + 1) = 1..n \union {n + 1}
      BY DEF LengthAssumption
    <3>q. QED BY <2>1, <3>1, <3>2
  <2>6. BeginningAndRest'
    BY <1>0, <1>2, <2>4, <2>5 DEF BeginningAndRest
  <2>7. WholeParts'
    <3>1. Len(tQueue') = Len(tQueue) - 1 /\ \A i \in 1..(Len(tQueue) - 1) : tQueue'[i] = tQueue[i + 1]
      BY <1>0, <1>2, HeadTailProperties
    <3>2. \A i \in 1..(Len(tQueue) - 1) : i + 1 \in 1..Len(tQueue)
      BY <1>0
    <3>q. QED BY <1>0, <1>3, <3>1, <3>2 DEF Faithful, WholeParts
  <2>q. QED
    BY <1>0, <1>2, <1>3, <2>6, <2>7 DEF Faithful, NothingYet, InOrder, EditEndsIt, OneReply
<1>q. QED BY <1>1, <1>2, <1>3 DEF BotInv

(* Send returns.                                                           *)
LEMMA SendEndsStep == ASSUME BotInv, Bot!SendEnds PROVE BotInv'
<1> USE DEF Bot!inVars, Bot!outVars, Bot!lifeVars
<1>1. Dealt' = Dealt
  BY DEF Bot!SendEnds, Dealt
<1>2. Bot!TTypeOK'
  BY DEF Bot!SendEnds, BotInv, Bot!TTypeOK
<1>3. BeginningAndRest => BeginningAndRest'
  BY <1>1 DEF Bot!SendEnds, BeginningAndRest, IsRest
<1>q. QED
  BY <1>2, <1>3 DEF Bot!SendEnds, BotInv, Faithful, NothingYet, InOrder, EditEndsIt,
                    OneReply, WholeParts

(* Every step of the bot keeps the invariant.                              *)
LEMMA NextBot ==
  ASSUME LengthAssumption, BotInv, Bot!TNext \/ UNCHANGED Bot!tvars PROVE BotInv'
<1>1. CASE \/ Bot!Start \/ Bot!TryRegister \/ Bot!RegisterAgain \/ Bot!StopBegins \/ Bot!StopEnds
           \/ \E m \in Bot!Incoming :
                Bot!Receive(m) \/ Bot!StoreMedia(m) \/ Bot!Quote(m) \/ Bot!HandOn(m) \/ Bot!TypingEnds(m)
           \/ UNCHANGED Bot!tvars
  BY <1>1, AroundTheAnswer
<1>2. CASE Bot!Answer \/ \E o \in Bot!Outcomes : Bot!Edit(o)
  BY <1>2, AnswerStep
<1>3. CASE Bot!SendBegins \/ Bot!SendMedia
  BY <1>3, BeginStep
<1>4. CASE \E k \in 1..Length : Bot!Cut(k)
  BY <1>4, CutStep
<1>5. CASE \/ \E o \in Bot!Outcomes : Bot!SendPart(o)
           \/ \E first, second \in Bot!Outcomes : Bot!SendChunk(first, second)
  BY <1>5, RequestStep
<1>6. CASE Bot!SkipPart \/ Bot!SendEnds
  BY <1>6, SkipStep, SendEndsStep
<1>q. QED BY <1>1, <1>2, <1>3, <1>4, <1>5, <1>6 DEF Bot!TNext

(* The user sees an answer once and whole, or a beginning of one that      *)
(* failed, unless a request was not what was said of it, however long the  *)
(* text and however it is cut.                                             *)
THEOREM AnswersAreShownOnce == Spec => []AnswerShownOnce
<1>0. LengthAssumption
  BY PartsAssumption
<1>1. Init => BotInv
  BY <1>0, InitBot DEF Init
<1>2. BotInv /\ [Next]_chVars => BotInv'
  BY <1>0, NextBot, StepOfAPart DEF tVars, Bot!tvars, Bot!lifeVars, Bot!inVars, Bot!outVars
<1>3. BotInv => AnswerShownOnce
  BY <1>0, BotGoal DEF AnswerShownOnce
<1>q. QED BY <1>1, <1>2, <1>3, PTL DEF Spec

--------------------------------------------------------------------------------
(* The types *)

(* With the types: the dispatch goroutine has a placeholder in its hands   *)
(* when it is about to edit, so that no handle is lost but a message's.    *)
ManagerTypes == Manager!DTypeOK /\ (dDispatch = "edit" => dHanded # Manager!Nil)

(* The types are right when the manager starts.                            *)
LEMMA InitManagerTypes == ChatAssumption /\ Manager!DInit => ManagerTypes
  BY DEF ChatAssumption, Manager!DInit, ManagerTypes, Manager!DTypeOK

(* Every step of the manager keeps them.                                   *)
LEMMA NextManagerTypes ==
  ASSUME ChatAssumption, ManagerTypes, Manager!DNext \/ UNCHANGED dVars PROVE ManagerTypes'
<1> USE DEF ManagerTypes, Manager!DTypeOK
<1>0. MaxOut \in Nat /\ MaxExtras \in Nat
  BY DEF ChatAssumption
<1>1. CASE UNCHANGED dVars
  BY <1>1 DEF dVars
<1>2. ASSUME NEW m \in Manager!Inbox, Manager!Arrive(m) PROVE ManagerTypes'
  BY <1>2 DEF Manager!Arrive, Manager!artefacts, Manager!dispatching, Manager!stopping
<1>3. ASSUME NEW m \in Manager!Inbox, Manager!StartTyping(m) PROVE ManagerTypes'
  BY <1>3 DEF Manager!StartTyping, Manager!dispatching, Manager!stopping
<1>4. ASSUME NEW m \in Manager!Inbox, Manager!RecordTypingStop(m) PROVE ManagerTypes'
  BY <1>4 DEF Manager!RecordTypingStop, Manager!dispatching, Manager!stopping
<1>5. ASSUME NEW m \in Manager!Inbox, Manager!SendPlaceholder(m) PROVE ManagerTypes'
  BY <1>5 DEF Manager!SendPlaceholder, Manager!dispatching, Manager!stopping
<1>6. ASSUME NEW m \in Manager!Inbox, Manager!RecordPlaceholder(m) PROVE ManagerTypes'
  BY <1>6 DEF Manager!RecordPlaceholder, Manager!dispatching, Manager!stopping
<1>7. ASSUME NEW m \in Manager!Inbox, Manager!PublishInbound(m) PROVE ManagerTypes'
  BY <1>7 DEF Manager!PublishInbound, Manager!artefacts, Manager!dispatching, Manager!stopping
<1>8. CASE Manager!PublishOutbound
  BY <1>0, <1>8 DEF Manager!PublishOutbound, Manager!artefacts, Manager!stopping
<1>9. CASE Manager!Select
  BY <1>0, <1>9 DEF Manager!Select, Manager!inbound, Manager!artefacts, Manager!stopping
<1>10. CASE Manager!TakeTypingStop
  BY <1>10 DEF Manager!TakeTypingStop, Manager!StopTyping, Manager!inbound, Manager!stopping
<1>11. CASE Manager!TakePlaceholder
  BY <1>11 DEF Manager!TakePlaceholder, Manager!inbound, Manager!stopping
<1>12. CASE Manager!EditMessage
  BY <1>12 DEF Manager!EditMessage, Manager!inbound, Manager!stopping
<1>13. CASE Manager!Send
  BY <1>13 DEF Manager!Send, Manager!AfterSend, Manager!inbound, Manager!artefacts,
               Manager!stopping
<1>14. CASE Manager!StopAll
  BY <1>14 DEF Manager!StopAll, Manager!inbound, Manager!artefacts, Manager!dispatching
<1>15. CASE Manager!StopChannels
  BY <1>15 DEF Manager!StopChannels, Manager!inbound, Manager!artefacts, Manager!dispatching
<1>q. QED BY <1>1, <1>2, <1>3, <1>4, <1>5, <1>6, <1>7, <1>8, <1>9, <1>10, <1>11, <1>12, <1>13,
             <1>14, <1>15 DEF Manager!DNext, Manager!Dispatch

(* What Send and StopAll hold in their hands are entries or none. *)
Entry == {Feedback!NoEntry} \union Feedback!Animations
SenderTypes ==
  /\ fSender \in [at : {"rest", "take", "edit", "broadcast", "record", "restore", "go",
                       "goAgain", "clear", "cleared"},
                  entry : Entry, kind : {"feedback", "answer", "thought"}, tracked : BOOLEAN]
  /\ fStopper \in [at : {"no", "wait", "done"}, entry : Entry]

AnimationTypes == Feedback!FTypeOK /\ SenderTypes

(* The types are right when nothing has been recorded.                     *)
LEMMA InitAnimationTypes == ChatAssumption /\ Feedback!FInit => AnimationTypes
<1> SUFFICES ASSUME ChatAssumption, Feedback!FInit PROVE AnimationTypes
  OBVIOUS
<1>1. MaxAnimations \in Nat /\ fMaxSends \in Nat
  BY DEF ChatAssumption
<1>q. QED BY <1>1 DEF Feedback!FInit, AnimationTypes, Feedback!FTypeOK, SenderTypes, Entry,
              Feedback!AtRest, Feedback!NoEntry

(* The Send that is not there.                                             *)
LEMMA AtRestIsTyped ==
  Feedback!AtRest \in [at : {"rest", "take", "edit", "broadcast", "record", "restore", "go",
                       "goAgain", "clear", "cleared"},
                  entry : Entry, kind : {"feedback", "answer", "thought"}, tracked : BOOLEAN]
  BY DEF Feedback!AtRest, Entry, Feedback!NoEntry

(* Every step of Send, of the goroutines and of StopAll keeps them.        *)
LEMMA NextAnimationTypes ==
  ASSUME ChatAssumption, AnimationTypes, Feedback!FNext \/ UNCHANGED fVars
  PROVE  AnimationTypes'
<1> USE DEF AnimationTypes, Feedback!FTypeOK, SenderTypes, Entry
<1>0. MaxAnimations \in Nat /\ fMaxSends \in Nat
  BY DEF ChatAssumption
<1>1. CASE UNCHANGED fVars
  BY <1>1 DEF fVars
<1>2. ASSUME NEW kind \in {"feedback", "answer", "thought"}, Feedback!Send(kind)
      PROVE  AnimationTypes'
  BY <1>0, <1>2 DEF Feedback!Send
<1>3. CASE Feedback!Take
  BY <1>3 DEF Feedback!Take
<1>4. CASE Feedback!Edit
  BY <1>4, AtRestIsTyped DEF Feedback!Edit
<1>5. CASE Feedback!Broadcast
  BY <1>5, AtRestIsTyped DEF Feedback!Broadcast
<1>6. CASE Feedback!Record
  <2>1. /\ fMade' \in Feedback!Animations /\ fMade' \in 0..MaxAnimations /\ fEntry' = fMade'
        /\ UNCHANGED <<fRun, fStopper, fSends>>
    BY <1>0, <1>6 DEF Feedback!Record, Feedback!Animations
  <2>2. fStopped' \subseteq Feedback!Animations
    BY <1>6 DEF Feedback!Record, Feedback!Replaced
  <2>3. fLate' \subseteq Feedback!Animations
    BY <1>6, <2>1 DEF Feedback!Record
  <2>4. PICK label \in {"go", "goAgain"} :
          fSender' = [fSender EXCEPT !.at = label, !.entry = fEntry]
    BY <1>6 DEF Feedback!Record
  <2>5. SenderTypes'
    BY <2>1, <2>4
  <2>q. QED BY <2>1, <2>2, <2>3, <2>5
<1>7. CASE Feedback!Go
  BY <1>7, AtRestIsTyped DEF Feedback!Go
<1>8. CASE Feedback!Clear
  BY <1>8 DEF Feedback!Clear, Feedback!Replaced
<1>9. CASE Feedback!Cleared
  BY <1>9, AtRestIsTyped DEF Feedback!Cleared
<1>10. CASE Feedback!StopAll
  BY <1>10 DEF Feedback!StopAll
<1>11. CASE Feedback!StopAllDone
  BY <1>11 DEF Feedback!StopAllDone
<1>12. ASSUME NEW e \in Feedback!Animations, Feedback!Run(e) PROVE AnimationTypes'
  BY <1>12 DEF Feedback!Run
<1>q. QED BY <1>1, <1>2, <1>3, <1>4, <1>5, <1>6, <1>7, <1>8, <1>9, <1>10, <1>11, <1>12
          DEF Feedback!FNext

(* The types of the chat's parts. *)
LEMMA ChatTypes ==
  Spec => [](Manager!DTypeOK /\ Feedback!FTypeOK /\ Bot!TTypeOK)
<1> DEFINE Inv == ManagerTypes /\ AnimationTypes /\ BotInv
<1>0. ChatAssumption /\ LengthAssumption
  BY PartsAssumption
<1>1. Init => Inv
  BY <1>0, InitManagerTypes, InitAnimationTypes, InitBot DEF Init
<1>2. Inv /\ [Next]_chVars => Inv'
  BY <1>0, StepOfAPart, NextManagerTypes, NextAnimationTypes, NextBot
  DEF tVars, Bot!tvars, Bot!lifeVars, Bot!inVars, Bot!outVars
<1>3. Inv => Manager!DTypeOK /\ Feedback!FTypeOK /\ Bot!TTypeOK
  BY DEF ManagerTypes, AnimationTypes, BotInv
<1> HIDE DEF Inv
<1>q. QED BY <1>1, <1>2, <1>3, PTL DEF Spec
================================================================================
