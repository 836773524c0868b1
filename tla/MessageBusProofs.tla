---------------------------- MODULE MessageBusProofs ----------------------------
(***************************************************************************)
(* Proofs about MessageBus, for every set of publishers, every number of   *)
(* channels and every buffer size.                                         *)
(***************************************************************************)
EXTENDS MessageBus, TLAPS

(* wg counts exactly the calls between wg.Add and wg.Done; channels are    *)
(* closed and drained one after the other once the wait is over; a call    *)
(* that joined in time is out of the select before the first close; no     *)
(* message is in before its call has got through the select.               *)
GroupIsExact ==
  group = {p \in Publishers : pc[p] \in {"select", "leave"}}

CloseIsOrdered ==
  /\ shut > 0 => closer \in PastWait
  /\ closer = "shutting" => shut < NumChannels
  /\ closer \in {"draining", "closed"} => shut = NumChannels
  /\ closer = "draining" => drained < NumChannels
  /\ closer \notin {"draining", "closed"} => drained = 0

EarlyIsOut ==
  \A p \in early :
    /\ pc[p] \in {"select", "leave", "idle"}
    /\ pc[p] = "select" => closer \notin PastWait

InFlight ==
  \A p \in Publishers :
    /\ pc[p] # "idle" => calls[p] \in 1..MaxCalls
    /\ pc[p] \in {"load", "poll", "add", "select"} => result[p] = "none"

AcceptedIsPast ==
  \A p \in Publishers, n \in 1..MaxCalls :
    <<p, n>> \in accepted =>
      /\ n <= calls[p]
      /\ n = calls[p] => pc[p] \in {"idle", "leave"} /\ result[p] = "ok"

OkIsIn ==
  \A p \in Publishers : result[p] = "ok" => Message(p) \in accepted

IInv ==
  /\ TypeOK
  /\ GroupIsExact
  /\ CloseIsOrdered
  /\ EarlyIsOut
  /\ EarlyPublisherNeverPanics
  /\ InFlight
  /\ AcceptedIsPast
  /\ OkIsIn

--------------------------------------------------------------------------------

(* What one step does to a buffer. *)
LEMMA AppendFits ==
  ASSUME NEW S, NEW s \in Seq(S), NEW e \in S
  PROVE  Append(s, e) \in Seq(S) /\ Len(Append(s, e)) = Len(s) + 1
OBVIOUS

LEMMA TailFits ==
  ASSUME NEW S, NEW s \in Seq(S), s # <<>>
  PROVE  /\ Tail(s) \in Seq(S)
         /\ Len(Tail(s)) <= Len(s)
         /\ Head(s) \in S
OBVIOUS

LEMMA InitInv == Init => IInv
<1> SUFFICES ASSUME Init PROVE IInv
  OBVIOUS
<1> USE BusAssumption DEF Init, IInv
<1>1. TypeOK
  <2>1. 1 \in Channels
    BY DEF Channels
  <2>2. \A c \in Channels : Cap[c] \in Nat /\ queue[c] = <<>> /\ taken[c] = <<>>
    OBVIOUS
  <2>3. /\ queue \in [Channels -> Seq(Messages)]
        /\ taken \in [Channels -> Seq(Messages)]
        /\ \A c \in Channels : Len(queue[c]) <= Cap[c]
    BY <2>2
  <2>4. shut \in 0..NumChannels /\ drained \in 0..NumChannels
    OBVIOUS
  <2>5. /\ pc \in [Publishers -> {"idle", "load", "poll", "add", "select", "leave"}]
        /\ calls \in [Publishers -> 0..MaxCalls]
        /\ target \in [Publishers -> Channels]
        /\ cancelled \in [Publishers -> BOOLEAN]
        /\ result \in [Publishers -> {"none", "ok", "cancelled", "busClosed",
                                     "missingContext", "panic"}]
    BY <2>1
  <2>6. QED
    BY <2>3, <2>4, <2>5 DEF TypeOK
<1>2. GroupIsExact /\ CloseIsOrdered
  BY DEF GroupIsExact, CloseIsOrdered
<1>3. EarlyIsOut /\ EarlyPublisherNeverPanics /\ InFlight
  BY DEF EarlyIsOut, EarlyPublisherNeverPanics, InFlight
<1>4. AcceptedIsPast /\ OkIsIn
  BY DEF AcceptedIsPast, OkIsIn
<1>5. QED
  BY <1>1, <1>2, <1>3, <1>4

LEMMA InvStep == IInv /\ [Next]_vars => IInv'
<1> SUFFICES ASSUME IInv, [Next]_vars PROVE IInv'
  OBVIOUS
<1> USE BusAssumption DEF IInv, PastWait, Goto, Return,
        busVars, readVars, callVars, history
<1>1. ASSUME NEW p \in Publishers, NEW c \in Channels, NEW b \in BOOLEAN,
            Call(p, c, b)
     PROVE  IInv'
  <2>1. TypeOK'
    <3>1. pc' \in [Publishers -> {"idle", "load", "poll", "add", "select", "leave"}]
      BY <1>1 DEF Call, TypeOK
    <3>2. calls' \in [Publishers -> 0..MaxCalls]
      BY <1>1 DEF Call, TypeOK
    <3>3. result' \in [Publishers -> {"none", "ok", "cancelled", "busClosed",
                                   "missingContext", "panic"}]
      BY <1>1 DEF Call, TypeOK
    <3>4. QED
      BY <1>1, <3>1, <3>2, <3>3 DEF Call, TypeOK
  <2>2. GroupIsExact'
    BY <1>1 DEF Call, GroupIsExact, TypeOK
  <2>3. CloseIsOrdered'
    BY <1>1 DEF Call, CloseIsOrdered, TypeOK
  <2>4. EarlyIsOut'
    BY <1>1 DEF Call, EarlyIsOut, TypeOK
  <2>5. EarlyPublisherNeverPanics'
    BY <1>1 DEF Call, EarlyPublisherNeverPanics, TypeOK
  <2>6. InFlight'
    BY <1>1 DEF Call, InFlight, TypeOK
  <2>7. AcceptedIsPast'
    BY <1>1 DEF Call, AcceptedIsPast, TypeOK
  <2>8. OkIsIn'
    BY <1>1 DEF Call, OkIsIn, Message, TypeOK, AcceptedIsPast
  <2>9. QED
    BY <2>1, <2>2, <2>3, <2>4, <2>5, <2>6, <2>7, <2>8
<1>2. ASSUME NEW p \in Publishers, CancelContext(p) PROVE IInv'
  <2>1. TypeOK'
    BY <1>2 DEF CancelContext, TypeOK, Channels, Messages
  <2>2. GroupIsExact'
    BY <1>2 DEF CancelContext, GroupIsExact, TypeOK
  <2>3. CloseIsOrdered'
    BY <1>2 DEF CancelContext, CloseIsOrdered, TypeOK
  <2>4. EarlyIsOut'
    BY <1>2 DEF CancelContext, EarlyIsOut, TypeOK
  <2>5. EarlyPublisherNeverPanics'
    BY <1>2 DEF CancelContext, EarlyPublisherNeverPanics, TypeOK
  <2>6. InFlight'
    BY <1>2 DEF CancelContext, InFlight, TypeOK
  <2>7. AcceptedIsPast'
    BY <1>2 DEF CancelContext, AcceptedIsPast, TypeOK
  <2>8. OkIsIn'
    BY <1>2 DEF CancelContext, OkIsIn, Message, TypeOK
  <2>9. QED
    BY <2>1, <2>2, <2>3, <2>4, <2>5, <2>6, <2>7, <2>8
<1>3. ASSUME NEW p \in Publishers, LoadClosed(p) PROVE IInv'
  <2>1. TypeOK'
    BY <1>3 DEF LoadClosed, TypeOK, Channels, Messages
  <2>2. GroupIsExact'
    BY <1>3 DEF LoadClosed, GroupIsExact, TypeOK
  <2>3. CloseIsOrdered'
    BY <1>3 DEF LoadClosed, CloseIsOrdered, TypeOK
  <2>4. EarlyIsOut'
    BY <1>3 DEF LoadClosed, EarlyIsOut, TypeOK
  <2>5. EarlyPublisherNeverPanics'
    BY <1>3 DEF LoadClosed, EarlyPublisherNeverPanics, TypeOK
  <2>6. InFlight'
    BY <1>3 DEF LoadClosed, InFlight, TypeOK
  <2>7. AcceptedIsPast'
    BY <1>3 DEF LoadClosed, AcceptedIsPast, TypeOK
  <2>8. OkIsIn'
    BY <1>3 DEF LoadClosed, OkIsIn, Message, TypeOK
  <2>9. QED
    BY <2>1, <2>2, <2>3, <2>4, <2>5, <2>6, <2>7, <2>8
<1>4. ASSUME NEW p \in Publishers, Poll(p) PROVE IInv'
  <2>1. TypeOK'
    BY <1>4 DEF Poll, TypeOK, Channels, Messages
  <2>2. GroupIsExact'
    BY <1>4 DEF Poll, GroupIsExact, TypeOK
  <2>3. CloseIsOrdered'
    BY <1>4 DEF Poll, CloseIsOrdered, TypeOK
  <2>4. EarlyIsOut'
    BY <1>4 DEF Poll, EarlyIsOut, TypeOK
  <2>5. EarlyPublisherNeverPanics'
    BY <1>4 DEF Poll, EarlyPublisherNeverPanics, TypeOK
  <2>6. InFlight'
    BY <1>4 DEF Poll, InFlight, TypeOK
  <2>7. AcceptedIsPast'
    BY <1>4 DEF Poll, AcceptedIsPast, TypeOK
  <2>8. OkIsIn'
    BY <1>4 DEF Poll, OkIsIn, Message, TypeOK
  <2>9. QED
    BY <2>1, <2>2, <2>3, <2>4, <2>5, <2>6, <2>7, <2>8
<1>5. ASSUME NEW p \in Publishers, JoinGroup(p) PROVE IInv'
  <2>1. TypeOK'
    BY <1>5 DEF JoinGroup, TypeOK, Channels, Messages
  <2>2. GroupIsExact'
    BY <1>5 DEF JoinGroup, GroupIsExact, TypeOK
  <2>3. CloseIsOrdered'
    BY <1>5 DEF JoinGroup, CloseIsOrdered, TypeOK
  <2>4. EarlyIsOut'
    BY <1>5 DEF JoinGroup, EarlyIsOut, TypeOK
  <2>5. EarlyPublisherNeverPanics'
    BY <1>5 DEF JoinGroup, EarlyPublisherNeverPanics, TypeOK, InFlight
  <2>6. InFlight'
    BY <1>5 DEF JoinGroup, InFlight, TypeOK
  <2>7. AcceptedIsPast'
    BY <1>5 DEF JoinGroup, AcceptedIsPast, TypeOK
  <2>8. OkIsIn'
    BY <1>5 DEF JoinGroup, OkIsIn, Message, TypeOK
  <2>9. QED
    BY <2>1, <2>2, <2>3, <2>4, <2>5, <2>6, <2>7, <2>8
<1>6. ASSUME NEW p \in Publishers, SelectSend(p) PROVE IInv'
  <2>1. TypeOK'
    <3>1. Message(p) \in Messages
      BY <1>6 DEF SelectSend, TypeOK, InFlight, Message, Messages
    <3>2. Append(queue[target[p]], Message(p)) \in Seq(Messages)
         /\ Len(Append(queue[target[p]], Message(p))) = Len(queue[target[p]]) + 1
      BY <1>6, <3>1, AppendFits DEF TypeOK
    <3>3. ASSUME NEW d \in Channels
          PROVE  queue'[d] \in Seq(Messages) /\ Len(queue'[d]) <= Cap[d]
      <4>1. target[p] \in Channels /\ Cap[d] \in Nat /\ Len(queue[d]) \in Nat
        BY DEF TypeOK
      <4>2. CASE queue' = queue
        BY <4>2 DEF TypeOK
      <4>3. CASE /\ Len(queue[target[p]]) < Cap[target[p]]
                 /\ queue' = [queue EXCEPT ![target[p]] = Append(@, Message(p))]
        <5>1. CASE d = target[p]
          BY <3>2, <4>1, <4>3, <5>1 DEF TypeOK
        <5>2. CASE d # target[p]
          BY <4>1, <4>3, <5>2 DEF TypeOK
        <5>3. QED
          BY <5>1, <5>2
      <4>4. QED
        BY <1>6, <4>2, <4>3 DEF SelectSend
    <3>4. queue' \in [Channels -> Seq(Messages)]
      BY <1>6, <3>3 DEF SelectSend, TypeOK
    <3>5. QED
      BY <1>6, <3>1, <3>2, <3>3, <3>4 DEF SelectSend, TypeOK
  <2>2. GroupIsExact'
    BY <1>6 DEF SelectSend, GroupIsExact, TypeOK
  <2>3. CloseIsOrdered'
    BY <1>6 DEF SelectSend, CloseIsOrdered, TypeOK
  <2>4. EarlyIsOut'
    BY <1>6 DEF SelectSend, EarlyIsOut, TypeOK
  <2>5. EarlyPublisherNeverPanics'
    BY <1>6 DEF SelectSend, EarlyPublisherNeverPanics, TypeOK, EarlyIsOut, CloseIsOrdered, Channels, IsShut
  <2>6. InFlight'
    BY <1>6 DEF SelectSend, InFlight, TypeOK
  <2>7. AcceptedIsPast'
    BY <1>6 DEF SelectSend, AcceptedIsPast, TypeOK, Message, InFlight
  <2>8. OkIsIn'
    BY <1>6 DEF SelectSend, OkIsIn, Message, TypeOK, AcceptedIsPast
  <2>9. QED
    BY <2>1, <2>2, <2>3, <2>4, <2>5, <2>6, <2>7, <2>8
<1>7. ASSUME NEW p \in Publishers, SelectCancelled(p) PROVE IInv'
  <2>1. TypeOK'
    BY <1>7 DEF SelectCancelled, TypeOK, Channels, Messages
  <2>2. GroupIsExact'
    BY <1>7 DEF SelectCancelled, GroupIsExact, TypeOK
  <2>3. CloseIsOrdered'
    BY <1>7 DEF SelectCancelled, CloseIsOrdered, TypeOK
  <2>4. EarlyIsOut'
    BY <1>7 DEF SelectCancelled, EarlyIsOut, TypeOK
  <2>5. EarlyPublisherNeverPanics'
    BY <1>7 DEF SelectCancelled, EarlyPublisherNeverPanics, TypeOK
  <2>6. InFlight'
    BY <1>7 DEF SelectCancelled, InFlight, TypeOK, Message, AcceptedIsPast
  <2>7. AcceptedIsPast'
    BY <1>7 DEF SelectCancelled, AcceptedIsPast, TypeOK, Message, InFlight
  <2>8. OkIsIn'
    BY <1>7 DEF SelectCancelled, OkIsIn, Message, TypeOK, InFlight, AcceptedIsPast
  <2>9. QED
    BY <2>1, <2>2, <2>3, <2>4, <2>5, <2>6, <2>7, <2>8
<1>8. ASSUME NEW p \in Publishers, SelectDone(p) PROVE IInv'
  <2>1. TypeOK'
    BY <1>8 DEF SelectDone, TypeOK, Channels, Messages
  <2>2. GroupIsExact'
    BY <1>8 DEF SelectDone, GroupIsExact, TypeOK
  <2>3. CloseIsOrdered'
    BY <1>8 DEF SelectDone, CloseIsOrdered, TypeOK
  <2>4. EarlyIsOut'
    BY <1>8 DEF SelectDone, EarlyIsOut, TypeOK
  <2>5. EarlyPublisherNeverPanics'
    BY <1>8 DEF SelectDone, EarlyPublisherNeverPanics, TypeOK
  <2>6. InFlight'
    BY <1>8 DEF SelectDone, InFlight, TypeOK, Message, AcceptedIsPast
  <2>7. AcceptedIsPast'
    BY <1>8 DEF SelectDone, AcceptedIsPast, TypeOK, Message, InFlight
  <2>8. OkIsIn'
    BY <1>8 DEF SelectDone, OkIsIn, Message, TypeOK, InFlight, AcceptedIsPast
  <2>9. QED
    BY <2>1, <2>2, <2>3, <2>4, <2>5, <2>6, <2>7, <2>8
<1>9. ASSUME NEW p \in Publishers, LeaveGroup(p) PROVE IInv'
  <2>1. TypeOK'
    BY <1>9 DEF LeaveGroup, TypeOK, Channels, Messages
  <2>2. GroupIsExact'
    BY <1>9 DEF LeaveGroup, GroupIsExact, TypeOK
  <2>3. CloseIsOrdered'
    BY <1>9 DEF LeaveGroup, CloseIsOrdered, TypeOK
  <2>4. EarlyIsOut'
    BY <1>9 DEF LeaveGroup, EarlyIsOut, TypeOK
  <2>5. EarlyPublisherNeverPanics'
    BY <1>9 DEF LeaveGroup, EarlyPublisherNeverPanics, TypeOK
  <2>6. InFlight'
    BY <1>9 DEF LeaveGroup, InFlight, TypeOK
  <2>7. AcceptedIsPast'
    BY <1>9 DEF LeaveGroup, AcceptedIsPast, TypeOK
  <2>8. OkIsIn'
    BY <1>9 DEF LeaveGroup, OkIsIn, Message, TypeOK
  <2>9. QED
    BY <2>1, <2>2, <2>3, <2>4, <2>5, <2>6, <2>7, <2>8
<1>10. CASE CloseDone
  <2>1. TypeOK'
    BY <1>10 DEF CloseDone, TypeOK, Channels, Messages
  <2>2. GroupIsExact'
    BY <1>10 DEF CloseDone, GroupIsExact, TypeOK
  <2>3. CloseIsOrdered'
    BY <1>10 DEF CloseDone, CloseIsOrdered, TypeOK
  <2>4. EarlyIsOut'
    BY <1>10 DEF CloseDone, EarlyIsOut, TypeOK
  <2>5. EarlyPublisherNeverPanics'
    BY <1>10 DEF CloseDone, EarlyPublisherNeverPanics, TypeOK
  <2>6. InFlight'
    BY <1>10 DEF CloseDone, InFlight, TypeOK
  <2>7. AcceptedIsPast'
    BY <1>10 DEF CloseDone, AcceptedIsPast, TypeOK
  <2>8. OkIsIn'
    BY <1>10 DEF CloseDone, OkIsIn, Message, TypeOK
  <2>9. QED
    BY <2>1, <2>2, <2>3, <2>4, <2>5, <2>6, <2>7, <2>8
<1>11. CASE CloseFlag
  <2>1. TypeOK'
    BY <1>11 DEF CloseFlag, TypeOK, Channels, Messages
  <2>2. GroupIsExact'
    BY <1>11 DEF CloseFlag, GroupIsExact, TypeOK
  <2>3. CloseIsOrdered'
    BY <1>11 DEF CloseFlag, CloseIsOrdered, TypeOK
  <2>4. EarlyIsOut'
    BY <1>11 DEF CloseFlag, EarlyIsOut, TypeOK
  <2>5. EarlyPublisherNeverPanics'
    BY <1>11 DEF CloseFlag, EarlyPublisherNeverPanics, TypeOK
  <2>6. InFlight'
    BY <1>11 DEF CloseFlag, InFlight, TypeOK
  <2>7. AcceptedIsPast'
    BY <1>11 DEF CloseFlag, AcceptedIsPast, TypeOK
  <2>8. OkIsIn'
    BY <1>11 DEF CloseFlag, OkIsIn, Message, TypeOK
  <2>9. QED
    BY <2>1, <2>2, <2>3, <2>4, <2>5, <2>6, <2>7, <2>8
<1>12. CASE CloseWait
  <2>1. TypeOK'
    BY <1>12 DEF CloseWait, TypeOK, Channels, Messages
  <2>2. GroupIsExact'
    BY <1>12 DEF CloseWait, GroupIsExact, TypeOK
  <2>3. CloseIsOrdered'
    BY <1>12 DEF CloseWait, CloseIsOrdered, TypeOK
  <2>4. EarlyIsOut'
    BY <1>12 DEF CloseWait, EarlyIsOut, TypeOK, GroupIsExact
  <2>5. EarlyPublisherNeverPanics'
    BY <1>12 DEF CloseWait, EarlyPublisherNeverPanics, TypeOK
  <2>6. InFlight'
    BY <1>12 DEF CloseWait, InFlight, TypeOK
  <2>7. AcceptedIsPast'
    BY <1>12 DEF CloseWait, AcceptedIsPast, TypeOK
  <2>8. OkIsIn'
    BY <1>12 DEF CloseWait, OkIsIn, Message, TypeOK
  <2>9. QED
    BY <2>1, <2>2, <2>3, <2>4, <2>5, <2>6, <2>7, <2>8
<1>13. CASE CloseWake
  <2>1. TypeOK'
    BY <1>13 DEF CloseWake, TypeOK, Channels, Messages
  <2>2. GroupIsExact'
    BY <1>13 DEF CloseWake, GroupIsExact, TypeOK
  <2>3. CloseIsOrdered'
    BY <1>13 DEF CloseWake, CloseIsOrdered, TypeOK
  <2>4. EarlyIsOut'
    BY <1>13 DEF CloseWake, EarlyIsOut, TypeOK, GroupIsExact
  <2>5. EarlyPublisherNeverPanics'
    BY <1>13 DEF CloseWake, EarlyPublisherNeverPanics, TypeOK
  <2>6. InFlight'
    BY <1>13 DEF CloseWake, InFlight, TypeOK
  <2>7. AcceptedIsPast'
    BY <1>13 DEF CloseWake, AcceptedIsPast, TypeOK
  <2>8. OkIsIn'
    BY <1>13 DEF CloseWake, OkIsIn, Message, TypeOK
  <2>9. QED
    BY <2>1, <2>2, <2>3, <2>4, <2>5, <2>6, <2>7, <2>8
<1>14. CASE CloseNextChannel
  <2>1. TypeOK'
    <3>1. shut' \in 0..NumChannels
      BY <1>14 DEF CloseNextChannel, CloseIsOrdered, TypeOK
    <3>2. QED
      BY <1>14, <3>1 DEF CloseNextChannel, TypeOK
  <2>2. GroupIsExact'
    BY <1>14 DEF CloseNextChannel, GroupIsExact, TypeOK
  <2>3. CloseIsOrdered'
    BY <1>14 DEF CloseNextChannel, CloseIsOrdered, TypeOK
  <2>4. EarlyIsOut'
    BY <1>14 DEF CloseNextChannel, EarlyIsOut, TypeOK
  <2>5. EarlyPublisherNeverPanics'
    BY <1>14 DEF CloseNextChannel, EarlyPublisherNeverPanics, TypeOK
  <2>6. InFlight'
    BY <1>14 DEF CloseNextChannel, InFlight, TypeOK
  <2>7. AcceptedIsPast'
    BY <1>14 DEF CloseNextChannel, AcceptedIsPast, TypeOK
  <2>8. OkIsIn'
    BY <1>14 DEF CloseNextChannel, OkIsIn, Message, TypeOK
  <2>9. QED
    BY <2>1, <2>2, <2>3, <2>4, <2>5, <2>6, <2>7, <2>8
<1>15. CASE DrainNext
  <2>1. TypeOK'
    <3>1. drained + 1 \in Channels
      BY <1>15 DEF DrainNext, CloseIsOrdered, TypeOK, Channels
    <3>2. ASSUME NEW d \in Channels
          PROVE  queue'[d] \in Seq(Messages) /\ Len(queue'[d]) <= Cap[d]
      <4>1. /\ queue[d] \in Seq(Messages)
            /\ Len(queue[d]) <= Cap[d]
            /\ Cap[d] \in Nat
        BY DEF TypeOK
      <4>2. CASE queue' = queue
        BY <4>1, <4>2
      <4>3. CASE /\ queue[drained + 1] # <<>>
                 /\ queue' = [queue EXCEPT ![drained + 1] = Tail(@)]
        <5>1. CASE d = drained + 1
          <6>1. Tail(queue[d]) \in Seq(Messages) /\ Len(Tail(queue[d])) <= Len(queue[d])
            BY <4>1, <4>3, <5>1, TailFits
          <6>2. queue'[d] = Tail(queue[d])
            BY <3>1, <4>3, <5>1 DEF TypeOK
          <6>3. QED
            BY <4>1, <6>1, <6>2
        <5>2. CASE d # drained + 1
          BY <4>1, <4>3, <5>2 DEF TypeOK
        <5>3. QED
          BY <5>1, <5>2
      <4>4. QED
        BY <1>15, <4>2, <4>3 DEF DrainNext
    <3>3. queue' \in [Channels -> Seq(Messages)]
      BY <1>15, <3>1, <3>2 DEF DrainNext, TypeOK
    <3>4. drained' \in 0..NumChannels
      <4>1. drained' \in {drained, drained + 1}
        BY <1>15 DEF DrainNext
      <4>2. QED
        BY <3>1, <4>1 DEF TypeOK, Channels
    <3>5. QED
      BY <1>15, <3>1, <3>2, <3>3, <3>4 DEF DrainNext, TypeOK
  <2>2. GroupIsExact'
    BY <1>15 DEF DrainNext, GroupIsExact, TypeOK
  <2>3. CloseIsOrdered'
    BY <1>15 DEF DrainNext, CloseIsOrdered, TypeOK
  <2>4. EarlyIsOut'
    BY <1>15 DEF DrainNext, EarlyIsOut, TypeOK
  <2>5. EarlyPublisherNeverPanics'
    BY <1>15 DEF DrainNext, EarlyPublisherNeverPanics, TypeOK
  <2>6. InFlight'
    BY <1>15 DEF DrainNext, InFlight, TypeOK
  <2>7. AcceptedIsPast'
    BY <1>15 DEF DrainNext, AcceptedIsPast, TypeOK
  <2>8. OkIsIn'
    BY <1>15 DEF DrainNext, OkIsIn, Message, TypeOK
  <2>9. QED
    BY <2>1, <2>2, <2>3, <2>4, <2>5, <2>6, <2>7, <2>8
<1>16. ASSUME NEW c \in Channels, Receive(c) PROVE IInv'
  <2>1. TypeOK'
    <3>1. ASSUME NEW d \in Channels
          PROVE  queue'[d] \in Seq(Messages) /\ Len(queue'[d]) <= Cap[d]
      BY <1>16, TailFits DEF Receive, TypeOK
    <3>2. queue' \in [Channels -> Seq(Messages)]
      BY <1>16, <3>1 DEF Receive, TypeOK
    <3>3. taken' \in [Channels -> Seq(Messages)]
      BY <1>16, TailFits, AppendFits DEF Receive, TypeOK
    <3>4. QED
      BY <1>16, <3>1, <3>2, <3>3 DEF Receive, TypeOK
  <2>2. GroupIsExact'
    BY <1>16 DEF Receive, GroupIsExact, TypeOK
  <2>3. CloseIsOrdered'
    BY <1>16 DEF Receive, CloseIsOrdered, TypeOK
  <2>4. EarlyIsOut'
    BY <1>16 DEF Receive, EarlyIsOut, TypeOK
  <2>5. EarlyPublisherNeverPanics'
    BY <1>16 DEF Receive, EarlyPublisherNeverPanics, TypeOK
  <2>6. InFlight'
    BY <1>16 DEF Receive, InFlight, TypeOK
  <2>7. AcceptedIsPast'
    BY <1>16 DEF Receive, AcceptedIsPast, TypeOK
  <2>8. OkIsIn'
    BY <1>16 DEF Receive, OkIsIn, Message, TypeOK
  <2>9. QED
    BY <2>1, <2>2, <2>3, <2>4, <2>5, <2>6, <2>7, <2>8
<1>17. ASSUME NEW c \in Channels, StopReading(c) PROVE IInv'
  <2>1. TypeOK'
    BY <1>17 DEF StopReading, TypeOK, Channels, Messages
  <2>2. GroupIsExact'
    BY <1>17 DEF StopReading, GroupIsExact, TypeOK
  <2>3. CloseIsOrdered'
    BY <1>17 DEF StopReading, CloseIsOrdered, TypeOK
  <2>4. EarlyIsOut'
    BY <1>17 DEF StopReading, EarlyIsOut, TypeOK
  <2>5. EarlyPublisherNeverPanics'
    BY <1>17 DEF StopReading, EarlyPublisherNeverPanics, TypeOK
  <2>6. InFlight'
    BY <1>17 DEF StopReading, InFlight, TypeOK
  <2>7. AcceptedIsPast'
    BY <1>17 DEF StopReading, AcceptedIsPast, TypeOK
  <2>8. OkIsIn'
    BY <1>17 DEF StopReading, OkIsIn, Message, TypeOK
  <2>9. QED
    BY <2>1, <2>2, <2>3, <2>4, <2>5, <2>6, <2>7, <2>8
<1>18. CASE UNCHANGED vars
  BY <1>18 DEF vars, TypeOK, GroupIsExact, CloseIsOrdered, EarlyIsOut, EarlyPublisherNeverPanics,
         InFlight, AcceptedIsPast, OkIsIn, Channels, Messages, Message
<1> HIDE DEF IInv
<1>19. QED
  BY <1>1, <1>2, <1>3, <1>4, <1>5, <1>6, <1>7, <1>8, <1>9, <1>10, <1>11,
     <1>12, <1>13, <1>14, <1>15, <1>16, <1>17, <1>18
     DEF Next, PublisherStep, CloserStep, Stopped

LEMMA Invariance == Spec => []IInv
<1>1. QED
  BY InitInv, InvStep, PTL DEF Spec

(* Whatever the publishers, the readers and Close do, the bus's state is    *)
(* well typed and no buffer of bus.go:51-60 holds more than it was made for. *)
THEOREM TypeCorrect == Spec => []TypeOK
<1>1. IInv => TypeOK
  BY DEF IInv
<1>2. QED
  BY <1>1, Invariance, PTL

(* wg.Wait in Close protects every publish call that reached wg.Add before *)
(* it returned: such a call never sends on a closed channel.               *)
THEOREM EarlyPublisherSafe == Spec => []EarlyPublisherNeverPanics
<1>1. IInv => EarlyPublisherNeverPanics
  BY DEF IInv
<1>2. QED
  BY <1>1, Invariance, PTL

(* publish returns nil exactly when its message went into the channel.     *)
THEOREM AnswersAreTrue == Spec => []AnswerIsTrue
<1>1. IInv => AnswerIsTrue
  <2> SUFFICES ASSUME IInv, NEW p \in Publishers
               PROVE  /\ result[p] = "ok" => Message(p) \in accepted
                      /\ result[p] \in {"cancelled", "busClosed", "missingContext", "panic"} =>
                           Message(p) \notin accepted
    BY DEF AnswerIsTrue
  <2>1. result[p] = "ok" => Message(p) \in accepted
    BY DEF IInv, OkIsIn
  <2>2. ASSUME Message(p) \in accepted PROVE result[p] = "ok"
    <3>1. calls[p] \in 1..MaxCalls
      BY <2>2 DEF IInv, TypeOK, Messages, Message
    <3>2. QED
      BY <2>2, <3>1 DEF IInv, AcceptedIsPast, Message
  <2>3. QED
    BY <2>1, <2>2
<1>2. QED
  BY <1>1, Invariance, PTL

--------------------------------------------------------------------------------
(* The refinement: accepting a message is SelectSend, handing one over is  *)
(* Receive, discarding is DrainNext, and every other step changes nothing  *)
(* the contract can see.                                                   *)

LEMMA ContractInit == Init => Contract!Init
<1> SUFFICES ASSUME Init PROVE Contract!Init
  OBVIOUS
<1>1. \A c \in Channels : (~IsShut(c)) = TRUE
  BY BusAssumption DEF Init, IsShut, Channels
<1>2. [c \in Channels |-> ~IsShut(c)] = [c \in Channels |-> TRUE]
  BY <1>1, Zenon
<1>3. QED
  BY <1>2 DEF Init, Contract!Init

LEMMA ContractStep == IInv /\ [Next]_vars => [Contract!Next]_(Contract!vars)
<1> SUFFICES ASSUME IInv, [Next]_vars PROVE [Contract!Next]_(Contract!vars)
  OBVIOUS
<1> DEFINE Quiet == UNCHANGED <<queue, shut, taken, accepted>>
<1>1. ASSUME Quiet PROVE UNCHANGED Contract!vars
  BY <1>1 DEF Contract!vars, IsShut
<1>2. ASSUME NEW p \in Publishers, SelectSend(p)
      PROVE  [Contract!Next]_(Contract!vars)
  <2>1. CASE UNCHANGED <<queue, accepted>>
    BY <1>1, <1>2, <2>1 DEF SelectSend, busVars, readVars
  <2>2. CASE /\ ~IsShut(target[p])
             /\ Len(queue[target[p]]) < Cap[target[p]]
             /\ queue' = [queue EXCEPT ![target[p]] = Append(@, Message(p))]
             /\ accepted' = accepted \union {Message(p)}
    <3>1. target[p] \in Channels /\ Message(p) \in Messages
      BY <1>2 DEF SelectSend, IInv, TypeOK, InFlight, Message, Messages
    <3>2. Message(p) \notin accepted
      BY <1>2 DEF SelectSend, IInv, AcceptedIsPast, InFlight, Message
    <3>3. shut' = shut /\ taken' = taken
      BY <1>2 DEF SelectSend, busVars, readVars
    <3>4. Contract!Accept(target[p], Message(p))
      BY <2>2, <3>1, <3>2, <3>3 DEF Contract!Accept, IsShut
    <3>5. QED
      BY <3>1, <3>4 DEF Contract!Next
  <2>3. QED
    BY <1>2, <2>1, <2>2 DEF SelectSend
<1>3. CASE CloseNextChannel
  <2>1. shut + 1 \in Channels
    BY <1>3, BusAssumption DEF CloseNextChannel, IInv, TypeOK, CloseIsOrdered, Channels
  <2>2. Contract!StopAccepting(shut + 1)
    <3>1. ~IsShut(shut + 1)
      BY DEF IsShut, IInv, TypeOK
    <3>2. [c \in Channels |-> ~(c <= shut + 1)] =
            [[c \in Channels |-> ~(c <= shut)] EXCEPT ![shut + 1] = FALSE]
      <4>1. \A c \in Channels :
              /\ c # shut + 1 => (~(c <= shut + 1)) = ~(c <= shut)
              /\ c = shut + 1 => (~(c <= shut + 1)) = FALSE
        BY BusAssumption DEF Channels, IInv, TypeOK
      <4>2. QED
        BY <4>1, <2>1, Zenon
    <3>3. shut' = shut + 1 /\ UNCHANGED <<queue, taken, accepted>>
      BY <1>3 DEF CloseNextChannel, readVars, history
    <3>4. QED
      BY <2>1, <3>1, <3>2, <3>3 DEF Contract!StopAccepting, IsShut
  <2>3. QED
    BY <2>1, <2>2 DEF Contract!Next
<1>4. CASE DrainNext
  <2>1. drained + 1 \in Channels /\ shut = NumChannels
    BY <1>4 DEF DrainNext, IInv, TypeOK, CloseIsOrdered, Channels
  <2>2. CASE queue' = queue
    BY <1>1, <1>4, <2>2 DEF DrainNext, readVars, history
  <2>3. CASE /\ queue[drained + 1] # <<>>
             /\ queue' = [queue EXCEPT ![drained + 1] = Tail(@)]
    <3>1. IsShut(drained + 1)
      BY <2>1 DEF IsShut, Channels
    <3>2. UNCHANGED <<shut, taken, accepted>>
      BY <1>4 DEF DrainNext, readVars, history
    <3>3. Contract!Discard(drained + 1)
      BY <2>1, <2>3, <3>1, <3>2 DEF Contract!Discard, IsShut
    <3>4. QED
      BY <2>1, <3>3 DEF Contract!Next
  <2>4. QED
    BY <1>4, <2>2, <2>3 DEF DrainNext
<1>5. ASSUME NEW c \in Channels, Receive(c)
      PROVE  [Contract!Next]_(Contract!vars)
  <2>1. Contract!HandOver(c)
    BY <1>5 DEF Receive, Contract!HandOver, busVars, history, IsShut
  <2>2. QED
    BY <2>1 DEF Contract!Next
<1>6. ASSUME NEW p \in Publishers, NEW c \in Channels, NEW b \in BOOLEAN,
             Call(p, c, b)
      PROVE  Quiet
  BY <1>6 DEF Call, busVars, readVars
<1>7. ASSUME NEW p \in Publishers,
             \/ CancelContext(p) \/ LoadClosed(p) \/ Poll(p) \/ JoinGroup(p)
             \/ SelectCancelled(p) \/ SelectDone(p) \/ LeaveGroup(p)
      PROVE  Quiet
  BY <1>7 DEF CancelContext, LoadClosed, Poll, JoinGroup, SelectCancelled,
              SelectDone, LeaveGroup, busVars, readVars, history
<1>8. ASSUME \/ CloseDone \/ CloseFlag \/ CloseWait \/ CloseWake \/ UNCHANGED vars
      PROVE  Quiet
  BY <1>8 DEF CloseDone, CloseFlag, CloseWait, CloseWake, vars, readVars, history
<1>9. ASSUME NEW c \in Channels, StopReading(c)
      PROVE  Quiet
  BY <1>9 DEF StopReading, busVars, history
<1> HIDE DEF Quiet
<1>10. QED
  BY <1>1, <1>2, <1>3, <1>4, <1>5, <1>6, <1>7, <1>8, <1>9
     DEF Next, PublisherStep, CloserStep, Stopped

(* MessageBus implements BusContract: every channel is a bounded FIFO that *)
(* neither loses, duplicates nor reorders an accepted message while it is  *)
(* open, however publish, Close and the readers interleave.                *)
THEOREM BusImplementsContract == Spec => ContractHolds
<1>1. QED
  BY ContractInit, ContractStep, Invariance, PTL DEF Spec, ContractHolds, Contract!Spec

================================================================================
