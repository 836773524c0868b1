--------------------------- MODULE SessionTurnsProofs ---------------------------
(***************************************************************************)
(* What holds of the turns of a session key whatever the number of         *)
(* messages, commands, Session objects and evictions.                      *)
(*                                                                         *)
(* The invariants of the runs are not inductive.  What makes them so is    *)
(* the discipline of activeTurnSeq: a started turn holds a number its      *)
(* Session has handed out, no two started turns of a Session hold the same *)
(* number, and the cancel function a Session keeps is that of the started  *)
(* turn with the newest number.                                            *)
(***************************************************************************)
EXTENDS SessionTurns, TLAPS

IsStarted(t) == pc[t] \in Started

(* A turn past the lookup holds an object that exists, as does the registry. *)
HoldsObject ==
  /\ registered # None => registered <= created
  /\ \A t \in Turns :
       (pc[t] = "start" \/ IsStarted(t)) => obj[t] \in Objects /\ obj[t] <= created

(* Numbers come from startTurn. *)
NumbersHandedOut ==
  \A t \in Turns : IsStarted(t) => turnSeq[t] \in 1..seq[obj[t]]

NumbersDistinct ==
  \A t, u \in Turns :
    (IsStarted(t) /\ IsStarted(u) /\ obj[t] = obj[u] /\ turnSeq[t] = turnSeq[u])
      => t = u

ActiveIsNewest ==
  \A o \in Objects :
    active[o] # None =>
      /\ IsStarted(active[o])
      /\ obj[active[o]] = o
      /\ turnSeq[active[o]] = seq[o]

CommandsHoldTargets ==
  /\ loop = "stopping" => victim # None
  /\ loop = "clearing" => registered # None

TurnInv ==
  /\ NumbersHandedOut
  /\ NumbersDistinct
  /\ ActiveIsNewest
  /\ NewestTurnIsStoppable
  /\ SupersededIsCancelled

RegistryInv ==
  /\ HoldsObject
  /\ RegisteredIsOpen
  /\ CommandsHoldTargets

IInv == TypeOK /\ RegistryInv /\ TurnInv
--------------------------------------------------------------------------------
LEMMA NoneIsNothing == None \notin Turns /\ None \notin Objects
BY DEF None, Turns, Objects

LEMMA InitInv == Init => IInv
<1> SUFFICES ASSUME Init PROVE IInv
  OBVIOUS
<1> USE DEF Init
<1>1. TypeOK
  <2>1. 0 \in 0..MaxSessions /\ 0 \in 0..MaxCommands /\ 0 \in 0..MaxEvictions
    BY TurnsAssumption DEF TurnsAssumption
  <2>2. /\ pc \in [Turns -> {"new", "lookup", "create", "start", "done"} \union Started]
        /\ turnSeq \in [Turns -> Nat]
        /\ outcome \in [Turns -> Outcomes \union {"none"}]
        /\ answer \in [Turns -> {"none", "ok", "error", "canceled"}]
        /\ seq \in [Objects -> Nat]
        /\ open \in [Objects -> BOOLEAN]
    OBVIOUS
  <2>3. replies \in Seq(Turns) /\ cancelled \subseteq Turns
    OBVIOUS
  <2> QED
    BY <2>1, <2>2, <2>3 DEF TypeOK
<1>2. \A t \in Turns : pc[t] # "start" /\ ~IsStarted(t)
  BY DEF IsStarted, Started
<1>3. QED
  BY <1>1, <1>2 DEF IInv, RegistryInv, TurnInv, HoldsObject, NumbersHandedOut,
     NumbersDistinct, ActiveIsNewest, NewestTurnIsStoppable, SupersededIsCancelled,
     RegisteredIsOpen, CommandsHoldTargets, IsStarted

(* Three ways a step can leave the discipline of the numbers alone: the    *)
(* turn that moves has not started, it has and goes on, or none moves.     *)
LEMMA WaitingTurnMoves ==
  ASSUME TypeOK, TypeOK', TurnInv, NEW t \in Turns, NEW l,
         ~IsStarted(t), l \notin Started, Goto(t, l),
         \A u \in Turns : u # t => obj'[u] = obj[u],
         UNCHANGED <<turnSeq, prev, cancelled, rootDone, seq, active>>
  PROVE  TurnInv'
<1>1. \A u \in Turns : IsStarted(u)' <=> IsStarted(u)
  BY DEF TypeOK, IsStarted, Goto
<1>2. \A u \in Turns : IsStarted(u) => u # t /\ obj'[u] = obj[u] /\ pc'[u] = pc[u]
  BY DEF TypeOK, Goto
<1>3. (NumbersHandedOut /\ NumbersDistinct)'
  BY <1>1, <1>2 DEF TurnInv, NumbersHandedOut, NumbersDistinct
<1>4. ActiveIsNewest'
  BY <1>1, <1>2, NoneIsNothing DEF TurnInv, ActiveIsNewest, TypeOK
<1>5. NewestTurnIsStoppable'
  BY <1>1, <1>2 DEF TurnInv, NewestTurnIsStoppable, IsStarted
<1>6. SupersededIsCancelled'
  <2>1. \A u \in Turns : pc[u] = "cancelPrev" => pc'[u] = "cancelPrev"
    BY <1>2 DEF IsStarted, Started
  <2> QED
    BY <1>1, <1>2, <2>1 DEF TurnInv, SupersededIsCancelled, IsStarted, Cancelled
<1> QED
  BY <1>3, <1>4, <1>5, <1>6 DEF TurnInv

LEMMA RunningTurnMoves ==
  ASSUME TypeOK, TypeOK', TurnInv, NEW t \in Turns, NEW l \in Started \ {"cancelPrev"},
         IsStarted(t), pc[t] # "cancelPrev", Goto(t, l),
         UNCHANGED <<obj, turnSeq, prev, cancelled, rootDone, seq, active>>
  PROVE  TurnInv'
<1>1. \A u \in Turns : IsStarted(u)' <=> IsStarted(u)
  BY DEF TypeOK, IsStarted, Goto
<1>2. \A u \in Turns : pc'[u] = "cancelPrev" <=> pc[u] = "cancelPrev"
  BY DEF TypeOK, Goto
<1>3. (NumbersHandedOut /\ NumbersDistinct)'
  BY <1>1 DEF TurnInv, NumbersHandedOut, NumbersDistinct
<1>4. ActiveIsNewest'
  BY <1>1, NoneIsNothing DEF TurnInv, ActiveIsNewest, TypeOK
<1>5. NewestTurnIsStoppable'
  BY <1>1 DEF TurnInv, NewestTurnIsStoppable, IsStarted
<1>6. SupersededIsCancelled'
  BY <1>1, <1>2 DEF TurnInv, SupersededIsCancelled, IsStarted, Cancelled
<1> QED
  BY <1>3, <1>4, <1>5, <1>6 DEF TurnInv

LEMMA NoTurnMoves ==
  ASSUME TypeOK, TurnInv, cancelled \subseteq cancelled', rootDone => rootDone',
         UNCHANGED <<pc, obj, turnSeq, prev, seq, active>>
  PROVE  TurnInv'
BY DEF TurnInv, NumbersHandedOut, NumbersDistinct, ActiveIsNewest,
   NewestTurnIsStoppable, SupersededIsCancelled, IsStarted, Cancelled

LEMMA InvStep == IInv /\ [Next]_vars => IInv'
<1> SUFFICES ASSUME IInv, [Next]_vars PROVE IInv'
  OBVIOUS
<1> USE NoneIsNothing DEF IInv, registry, gatewayVars, slots, turnVars, results
<1>1. ASSUME NEW t \in Turns, Arrive(t) PROVE IInv'
  <2>1. TypeOK'
    BY <1>1 DEF Arrive, TypeOK, Goto, Started
  <2>2. RegistryInv'
    BY <1>1, <2>1 DEF Arrive, RegistryInv, HoldsObject, RegisteredIsOpen,
       CommandsHoldTargets, TypeOK, IsStarted, Started, Goto
  <2>3. TurnInv'
    <3>1. ~IsStarted(t) /\ "lookup" \notin Started
      BY <1>1 DEF Arrive, IsStarted, Started
    <3>2. Goto(t, "lookup") /\ \A u \in Turns : u # t => obj'[u] = obj[u]
      BY <1>1 DEF Arrive, TypeOK
    <3> QED
      BY <1>1, <2>1, <3>1, <3>2, WaitingTurnMoves DEF Arrive
  <2> QED
    BY <2>1, <2>2, <2>3
<1>2. ASSUME NEW t \in Turns, Lookup(t) PROVE IInv'
  <2>1. TypeOK'
    BY <1>2 DEF Lookup, TypeOK, Goto, Started
  <2>2. RegistryInv'
    BY <1>2, <2>1 DEF Lookup, RegistryInv, HoldsObject, RegisteredIsOpen,
       CommandsHoldTargets, TypeOK, IsStarted, Started, Goto
  <2>3. TurnInv'
    <3>1. PICK l \in {"start", "create"} :
            Goto(t, l) /\ \A u \in Turns : u # t => obj'[u] = obj[u]
      BY <1>2 DEF Lookup, TypeOK
    <3>2. ~IsStarted(t) /\ l \notin Started
      BY <1>2 DEF Lookup, IsStarted, Started
    <3> QED
      BY <1>2, <2>1, <3>1, <3>2, WaitingTurnMoves DEF Lookup
  <2> QED
    BY <2>1, <2>2, <2>3
<1>3. ASSUME NEW t \in Turns, Create(t) PROVE IInv'
  <2>1. TypeOK'
    <3>1. CASE registered # None
      BY <1>3, <3>1 DEF Create, TypeOK, Goto, Started
    <3>2. CASE registered = None
      <4>1. created' = created + 1 /\ created' \in 0..MaxSessions /\ created' \in Objects
        BY <1>3, <3>2, TurnsAssumption DEF Create, TypeOK, TurnsAssumption, Objects
      <4>2. pc' \in [Turns -> {"new", "lookup", "create", "start", "done"} \union Started]
        BY <1>3 DEF Create, TypeOK, Goto
      <4>3. obj' \in [Turns -> Objects \union {None}] /\ open' \in [Objects -> BOOLEAN]
        <5>1. /\ obj' = [obj EXCEPT ![t] = created']
              /\ open' = [open EXCEPT ![created'] = TRUE]
          BY <1>3, <3>2 DEF Create
        <5>2. obj' \in [Turns -> Objects \union {None}]
          BY <4>1, <5>1 DEF TypeOK
        <5>3. open' \in [Objects -> BOOLEAN]
          BY <5>1 DEF TypeOK
        <5> QED
          BY <5>2, <5>3
      <4> QED
        BY <1>3, <3>2, <4>1, <4>2, <4>3 DEF Create, TypeOK
    <3> QED
      BY <3>1, <3>2
  <2>2. RegistryInv'
    <3>1. CASE registered # None
      BY <1>3, <2>1, <3>1 DEF Create, RegistryInv, HoldsObject,
         RegisteredIsOpen, CommandsHoldTargets, TypeOK, IsStarted, Started, Goto
    <3>2. CASE registered = None
      <4>1. created' = created + 1 /\ created \in Nat /\ created' \in Objects
        BY <1>3, <3>2, <2>1, TurnsAssumption DEF Create, TypeOK, TurnsAssumption, Objects
      <4>2. obj'[t] = created' /\ registered' = created' /\ open'[created'] = TRUE
        BY <1>3, <3>2, <4>1 DEF Create, TypeOK
      <4>3. \A u \in Turns : u # t => obj'[u] = obj[u] /\ pc'[u] = pc[u]
        BY <1>3, <3>2 DEF Create, TypeOK, Goto
      <4>4. \A m \in Objects : m <= created => m <= created'
        BY <4>1 DEF Objects
      <4>5. created' \in Nat /\ registered' <= created'
        BY <4>1, <4>2
      <4>6. \A u \in Turns :
              (pc'[u] = "start" \/ pc'[u] \in Started) =>
                obj'[u] \in Objects /\ obj'[u] <= created'
        <5> SUFFICES ASSUME NEW u \in Turns, pc'[u] = "start" \/ pc'[u] \in Started
                     PROVE  obj'[u] \in Objects /\ obj'[u] <= created'
          OBVIOUS
        <5>1. CASE u = t
          <6>1. created' <= created'
            BY <4>5
          <6> QED
            BY <4>1, <4>2, <5>1, <6>1
        <5>2. CASE u # t
          <6>1. pc[u] = "start" \/ pc[u] \in Started
            BY <4>3, <5>2
          <6>2. obj[u] \in Objects /\ obj[u] <= created
            BY <6>1 DEF RegistryInv, HoldsObject, IsStarted
          <6> QED
            BY <4>3, <4>4, <5>2, <6>2
        <5> QED
          BY <5>1, <5>2
      <4>7. HoldsObject'
        BY <4>5, <4>6 DEF HoldsObject, IsStarted
      <4>8. RegisteredIsOpen' /\ CommandsHoldTargets'
        BY <1>3, <4>1, <4>2 DEF Create, RegistryInv, RegisteredIsOpen, CommandsHoldTargets
      <4> QED
        BY <4>7, <4>8 DEF RegistryInv
    <3> QED
      BY <3>1, <3>2
  <2>3. TurnInv'
    <3>1. ~IsStarted(t) /\ "start" \notin Started
      BY <1>3 DEF Create, IsStarted, Started
    <3>2. Goto(t, "start") /\ \A u \in Turns : u # t => obj'[u] = obj[u]
      BY <1>3 DEF Create, TypeOK
    <3> QED
      BY <1>3, <2>1, <3>1, <3>2, WaitingTurnMoves DEF Create
  <2> QED
    BY <2>1, <2>2, <2>3
<1>4. ASSUME NEW t \in Turns, CreateFails(t) PROVE IInv'
  <2>1. TypeOK'
    BY <1>4 DEF CreateFails, TypeOK, Goto, Started
  <2>2. RegistryInv'
    BY <1>4, <2>1 DEF CreateFails, RegistryInv, HoldsObject, RegisteredIsOpen,
       CommandsHoldTargets, TypeOK, IsStarted, Started, Goto
  <2>3. TurnInv'
    <3>1. ~IsStarted(t) /\ "done" \notin Started
      BY <1>4 DEF CreateFails, IsStarted, Started
    <3>2. Goto(t, "done") /\ \A u \in Turns : u # t => obj'[u] = obj[u]
      BY <1>4 DEF CreateFails, TypeOK
    <3> QED
      BY <1>4, <2>1, <3>1, <3>2, WaitingTurnMoves DEF CreateFails
  <2> QED
    BY <2>1, <2>2, <2>3
<1>5. ASSUME NEW t \in Turns, StartTurn(t) PROVE IInv'
  <2>1. TypeOK'
    BY <1>5 DEF StartTurn, RegistryInv, HoldsObject, TypeOK, Goto, Started
  <2>2. RegistryInv'
    BY <1>5, <2>1 DEF StartTurn, RegistryInv, HoldsObject, RegisteredIsOpen,
       CommandsHoldTargets, TypeOK, IsStarted, Started, Goto
  <2> DEFINE o == obj[t]
  <2>3. /\ o \in Objects
        /\ ~IsStarted(t) /\ IsStarted(t)'
        /\ seq'[o] = seq[o] + 1 /\ turnSeq'[t] = seq'[o] /\ seq[o] \in Nat
        /\ prev'[t] = active[o] /\ active'[o] = t /\ pc'[t] = "cancelPrev"
    BY <1>5 DEF StartTurn, RegistryInv, HoldsObject, TypeOK, Goto, IsStarted, Started
  <2>4. \A u \in Turns : u # t =>
          /\ pc'[u] = pc[u] /\ turnSeq'[u] = turnSeq[u] /\ prev'[u] = prev[u]
          /\ IsStarted(u)' <=> IsStarted(u)
    BY <1>5 DEF StartTurn, TypeOK, Goto, IsStarted
  <2>5. \A p \in Objects : p # o => seq'[p] = seq[p] /\ active'[p] = active[p]
    BY <1>5 DEF StartTurn, TypeOK
  <2>6. UNCHANGED <<obj, cancelled, rootDone>>
    BY <1>5 DEF StartTurn
  <2> HIDE DEF o
  <2>7. \A u \in Turns : u # t /\ IsStarted(u) =>
          /\ obj[u] \in Objects /\ turnSeq[u] \in 1..seq[obj[u]]
          /\ obj[u] = o => turnSeq[u] < seq'[o]
    BY <2>3 DEF RegistryInv, HoldsObject, TurnInv, NumbersHandedOut
  <2>8. obj[t] = o
    BY DEF o
  <2>9. NumbersHandedOut'
    BY <2>3, <2>4, <2>5, <2>6, <2>7, <2>8 DEF NumbersHandedOut
  <2>10. NumbersDistinct'
    BY <2>3, <2>4, <2>6, <2>7, <2>8 DEF TurnInv, NumbersDistinct
  <2>11. ActiveIsNewest'
    <3>1. \A p \in Objects : p # o /\ active[p] # None =>
            /\ active[p] \in Turns \ {t}
            /\ IsStarted(active[p]) /\ obj[active[p]] = p
            /\ turnSeq[active[p]] = seq[p]
      BY <2>3 DEF TurnInv, ActiveIsNewest, TypeOK
    <3>2. \A p \in Objects : p # o /\ active'[p] # None =>
            /\ pc'[active'[p]] \in Started /\ obj'[active'[p]] = p
            /\ turnSeq'[active'[p]] = seq'[p]
      BY <3>1, <2>4, <2>5, <2>6 DEF IsStarted
    <3> QED
      BY <3>2, <2>3, <2>6, <2>8 DEF ActiveIsNewest, IsStarted
  <2>12. NewestTurnIsStoppable'
    <3>1. \A u \in Turns : u # t /\ IsStarted(u) =>
            (turnSeq'[u] = seq'[obj'[u]] => active'[obj'[u]] = u)
      BY <2>3, <2>4, <2>5, <2>6, <2>7 DEF TurnInv, NewestTurnIsStoppable, IsStarted
    <3> QED
      BY <2>3, <2>4, <2>6, <2>8, <3>1 DEF NewestTurnIsStoppable, IsStarted
  <2>13. SupersededIsCancelled'
    <3> SUFFICES ASSUME NEW u \in Turns, IsStarted(u)', turnSeq'[u] < seq'[obj'[u]]
                 PROVE  \/ Cancelled(u)'
                        \/ \E w \in Turns : pc'[w] = "cancelPrev" /\ prev'[w] = u
      BY DEF SupersededIsCancelled, IsStarted
    <3>1. u # t /\ IsStarted(u)
      BY <2>3, <2>4, <2>6, <2>8
    <3>2. CASE turnSeq[u] < seq[obj[u]]
      <4>1. \/ Cancelled(u)
            \/ \E w \in Turns : pc[w] = "cancelPrev" /\ prev[w] = u
        BY <3>1, <3>2 DEF TurnInv, SupersededIsCancelled, IsStarted
      <4>2. pc[t] # "cancelPrev"
        BY <2>3 DEF IsStarted, Started
      <4> QED
        BY <4>1, <4>2, <2>4, <2>6 DEF Cancelled
    <3>3. CASE turnSeq[u] = seq[obj[u]]
      <4>1. active[obj[u]] = u
        BY <3>1, <3>3 DEF TurnInv, NewestTurnIsStoppable, IsStarted
      <4>2. obj[u] = o
        BY <3>1, <3>3, <2>4, <2>5, <2>6, <2>7
      <4> QED
        BY <4>1, <4>2, <2>3
    <3> QED
      BY <3>1, <3>2, <3>3, <2>7 DEF TypeOK
  <2> QED
    BY <2>1, <2>2, <2>9, <2>10, <2>11, <2>12, <2>13 DEF TurnInv
<1>6. ASSUME NEW t \in Turns, CancelPrev(t) PROVE IInv'
  <2>1. TypeOK'
    BY <1>6 DEF CancelPrev, TypeOK, Goto, Started
  <2>2. RegistryInv'
    BY <1>6, <2>1 DEF CancelPrev, RegistryInv, HoldsObject, RegisteredIsOpen,
       CommandsHoldTargets, TypeOK, IsStarted, Started, Goto
  <2>3. \A u \in Turns : IsStarted(u)' <=> IsStarted(u)
    BY <1>6 DEF CancelPrev, TypeOK, IsStarted, Started, Goto
  <2>4. /\ cancelled' = cancelled \union ({prev[t]} \ {None})
        /\ UNCHANGED <<obj, turnSeq, prev, rootDone, seq, active>>
        /\ \A u \in Turns : u # t => pc'[u] = pc[u]
    BY <1>6 DEF CancelPrev, TypeOK, Goto
  <2>5. (NumbersHandedOut /\ NumbersDistinct)'
    BY <2>3, <2>4 DEF TurnInv, NumbersHandedOut, NumbersDistinct
  <2>6. ActiveIsNewest'
    BY <2>3, <2>4 DEF TurnInv, ActiveIsNewest, TypeOK
  <2>7. NewestTurnIsStoppable'
    BY <2>3, <2>4 DEF TurnInv, NewestTurnIsStoppable, IsStarted
  <2>8. SupersededIsCancelled'
    BY <2>3, <2>4 DEF TurnInv, SupersededIsCancelled, IsStarted, Cancelled
  <2> QED
    BY <2>1, <2>2, <2>5, <2>6, <2>7, <2>8 DEF TurnInv
<1>7. ASSUME NEW t \in Turns, NEW oc \in Outcomes, RunEnds(t, oc) PROVE IInv'
  <2>1. TypeOK'
    BY <1>7 DEF RunEnds, TypeOK, Goto, Started
  <2>2. RegistryInv'
    BY <1>7, <2>1 DEF RunEnds, RegistryInv, HoldsObject, RegisteredIsOpen,
       CommandsHoldTargets, TypeOK, IsStarted, Started, Goto
  <2>3. TurnInv'
    <3>1. IsStarted(t) /\ pc[t] # "cancelPrev"
      BY <1>7 DEF RunEnds, IsStarted, Started
    <3>2. PICK l \in {"check", "poll", "finish"} : Goto(t, l)
      BY <1>7 DEF RunEnds
    <3>3. l \in Started \ {"cancelPrev"}
      BY DEF Started
    <3>4. UNCHANGED <<obj, turnSeq, prev, cancelled, rootDone, seq, active>>
      BY <1>7 DEF RunEnds
    <3> QED
      BY <2>1, <3>1, <3>2, <3>3, <3>4, RunningTurnMoves
  <2> QED
    BY <2>1, <2>2, <2>3
<1>8. ASSUME NEW t \in Turns, CheckCanceled(t) PROVE IInv'
  <2>1. TypeOK'
    BY <1>8 DEF CheckCanceled, IsUnwanted, TypeOK, Goto, Started
  <2>2. RegistryInv'
    BY <1>8, <2>1 DEF CheckCanceled, IsUnwanted, RegistryInv, HoldsObject,
       RegisteredIsOpen, CommandsHoldTargets, TypeOK, IsStarted, Started, Goto
  <2>3. TurnInv'
    <3>1. IsStarted(t) /\ pc[t] # "cancelPrev"
      BY <1>8 DEF CheckCanceled, IsStarted, Started
    <3>2. PICK l \in {"finish", "poll"} : Goto(t, l)
      BY <1>8 DEF CheckCanceled, IsUnwanted
    <3>3. l \in Started \ {"cancelPrev"}
      BY DEF Started
    <3>4. UNCHANGED <<obj, turnSeq, prev, cancelled, rootDone, seq, active>>
      BY <1>8 DEF CheckCanceled
    <3> QED
      BY <2>1, <3>1, <3>2, <3>3, <3>4, RunningTurnMoves
  <2> QED
    BY <2>1, <2>2, <2>3
<1>9. ASSUME NEW t \in Turns, PublishPoll(t) PROVE IInv'
  <2>1. TypeOK'
    BY <1>9 DEF PublishPoll, TypeOK, Goto, Started
  <2>2. RegistryInv'
    BY <1>9, <2>1 DEF PublishPoll, RegistryInv, HoldsObject, RegisteredIsOpen,
       CommandsHoldTargets, TypeOK, IsStarted, Started, Goto
  <2>3. TurnInv'
    <3>1. IsStarted(t) /\ pc[t] # "cancelPrev"
      BY <1>9 DEF PublishPoll, IsStarted, Started
    <3>2. PICK l \in {"finish", "send"} : Goto(t, l)
      BY <1>9 DEF PublishPoll
    <3>3. l \in Started \ {"cancelPrev"}
      BY DEF Started
    <3>4. UNCHANGED <<obj, turnSeq, prev, cancelled, rootDone, seq, active>>
      BY <1>9 DEF PublishPoll
    <3> QED
      BY <2>1, <3>1, <3>2, <3>3, <3>4, RunningTurnMoves
  <2> QED
    BY <2>1, <2>2, <2>3
<1>10. ASSUME NEW t \in Turns, PublishSend(t) PROVE IInv'
  <2>1. TypeOK'
    <3>1. Append(replies, t) \in Seq(Turns)
      BY DEF TypeOK
    <3> QED
      BY <1>10, <3>1 DEF PublishSend, TypeOK, Goto, Started
  <2>2. RegistryInv'
    BY <1>10, <2>1 DEF PublishSend, RegistryInv, HoldsObject, RegisteredIsOpen,
       CommandsHoldTargets, TypeOK, IsStarted, Started, Goto
  <2>3. TurnInv'
    <3>1. IsStarted(t) /\ pc[t] # "cancelPrev"
      BY <1>10 DEF PublishSend, IsStarted, Started
    <3>2. PICK l \in {"finish"} : Goto(t, l)
      BY <1>10 DEF PublishSend
    <3>3. l \in Started \ {"cancelPrev"}
      BY DEF Started
    <3>4. UNCHANGED <<obj, turnSeq, prev, cancelled, rootDone, seq, active>>
      BY <1>10 DEF PublishSend
    <3> QED
      BY <2>1, <3>1, <3>2, <3>3, <3>4, RunningTurnMoves
  <2> QED
    BY <2>1, <2>2, <2>3
<1>11. ASSUME NEW t \in Turns, FinishTurn(t) PROVE IInv'
  <2>1. TypeOK'
    BY <1>11 DEF FinishTurn, TypeOK, Goto, Started
  <2>2. RegistryInv'
    BY <1>11, <2>1 DEF FinishTurn, RegistryInv, HoldsObject, RegisteredIsOpen,
       CommandsHoldTargets, TypeOK, IsStarted, Started, Goto
  <2>3. ~IsStarted(t)' /\ \A u \in Turns : u # t => pc'[u] = pc[u]
    BY <1>11 DEF FinishTurn, TypeOK, Goto, IsStarted, Started
  <2>4. \A u \in Turns : IsStarted(u)' => u # t /\ IsStarted(u)
    BY <2>3 DEF IsStarted
  <2>5. UNCHANGED <<obj, turnSeq, prev, cancelled, rootDone, seq>>
    BY <1>11 DEF FinishTurn
  <2>6. (NumbersHandedOut /\ NumbersDistinct)'
    BY <2>4, <2>5 DEF TurnInv, NumbersHandedOut, NumbersDistinct
  <2>7. IsStarted(t) /\ obj[t] \in Objects
    BY <1>11 DEF FinishTurn, IsStarted, Started, RegistryInv, HoldsObject
  <2>8. /\ turnSeq[t] = seq[obj[t]] => active' = [active EXCEPT ![obj[t]] = None]
        /\ turnSeq[t] # seq[obj[t]] => active' = active
    BY <1>11 DEF FinishTurn
  <2>9. ActiveIsNewest'
    <3> SUFFICES ASSUME NEW o \in Objects, active'[o] # None
                 PROVE  /\ pc'[active'[o]] \in Started
                        /\ obj'[active'[o]] = o
                        /\ turnSeq'[active'[o]] = seq'[o]
      BY DEF ActiveIsNewest, IsStarted
    <3>1. active'[o] = active[o] /\ active[o] \in Turns
      BY <2>8 DEF TypeOK
    <3>2. /\ IsStarted(active[o])
          /\ obj[active[o]] = o
          /\ turnSeq[active[o]] = seq[o]
      BY <3>1 DEF TurnInv, ActiveIsNewest
    <3>3. active[o] # t
      BY <3>1, <3>2, <2>7, <2>8 DEF TypeOK
    <3> QED
      BY <3>1, <3>2, <3>3, <2>3, <2>5 DEF IsStarted
  <2>10. NewestTurnIsStoppable'
    <3> SUFFICES ASSUME NEW u \in Turns, IsStarted(u)', turnSeq'[u] = seq'[obj'[u]]
                 PROVE  active'[obj'[u]] = u
      BY DEF NewestTurnIsStoppable, IsStarted
    <3>1. u # t /\ IsStarted(u) /\ turnSeq[u] = seq[obj[u]] /\ obj[u] \in Objects
      BY <2>4, <2>5 DEF RegistryInv, HoldsObject
    <3>2. active[obj[u]] = u
      BY <3>1 DEF TurnInv, NewestTurnIsStoppable, IsStarted
    <3>3. obj[u] = obj[t] => turnSeq[t] # seq[obj[t]]
      BY <3>1, <2>7 DEF TurnInv, NumbersDistinct
    <3> QED
      BY <3>1, <3>2, <3>3, <2>5, <2>8 DEF TypeOK
  <2>11. SupersededIsCancelled'
    <3>1. pc[t] # "cancelPrev"
      BY <1>11 DEF FinishTurn
    <3> QED
      BY <3>1, <2>3, <2>4, <2>5 DEF TurnInv, SupersededIsCancelled, IsStarted, Cancelled
  <2> QED
    BY <2>1, <2>2, <2>6, <2>9, <2>10, <2>11 DEF TurnInv
<1>12. ASSUME StopRead PROVE IInv'
  <2>1. TypeOK'
    <3>1. commands' \in 0..MaxCommands
      BY <1>12, TurnsAssumption DEF StopRead, TypeOK, TurnsAssumption
    <3> QED
      BY <1>12, <3>1 DEF StopRead, HasActiveTurn, TypeOK
  <2>2. RegistryInv'
    BY <1>12, <2>1 DEF StopRead, HasActiveTurn, RegistryInv, HoldsObject,
       RegisteredIsOpen, CommandsHoldTargets, TypeOK, IsStarted, Started, Goto
  <2>3. TurnInv'
    BY <1>12, NoTurnMoves DEF StopRead
  <2> QED
    BY <2>1, <2>2, <2>3
<1>13. ASSUME StopCancel PROVE IInv'
  <2>1. TypeOK'
    BY <1>13 DEF StopCancel, RegistryInv, CommandsHoldTargets, TypeOK, Goto,
       Started
  <2>2. RegistryInv'
    BY <1>13, <2>1 DEF StopCancel, RegistryInv, HoldsObject, RegisteredIsOpen,
       CommandsHoldTargets, TypeOK, IsStarted, Started, Goto
  <2>3. TurnInv'
    BY <1>13, NoTurnMoves DEF StopCancel
  <2> QED
    BY <2>1, <2>2, <2>3
<1>14. ASSUME ClearStop PROVE IInv'
  <2>1. TypeOK'
    <3>1. commands' \in 0..MaxCommands
      BY <1>14, TurnsAssumption DEF ClearStop, TypeOK, TurnsAssumption
    <3> QED
      BY <1>14, <3>1 DEF ClearStop, TypeOK
  <2>2. RegistryInv'
    BY <1>14, <2>1 DEF ClearStop, RegistryInv, HoldsObject, RegisteredIsOpen,
       CommandsHoldTargets, TypeOK, IsStarted, Started, Goto
  <2>3. TurnInv'
    BY <1>14, NoTurnMoves DEF ClearStop
  <2> QED
    BY <2>1, <2>2, <2>3
<1>15. ASSUME ClearDrop PROVE IInv'
  <2>1. TypeOK'
    BY <1>15 DEF ClearDrop, TypeOK, Goto, Started
  <2>2. RegistryInv'
    BY <1>15, <2>1 DEF ClearDrop, RegistryInv, HoldsObject, RegisteredIsOpen,
       CommandsHoldTargets, TypeOK, IsStarted, Started, Goto
  <2>3. TurnInv'
    BY <1>15, NoTurnMoves DEF ClearDrop
  <2> QED
    BY <2>1, <2>2, <2>3
<1>16. ASSUME ClearFails PROVE IInv'
  <2>1. TypeOK'
    BY <1>16 DEF ClearFails, TypeOK, Goto, Started
  <2>2. RegistryInv'
    BY <1>16, <2>1 DEF ClearFails, RegistryInv, HoldsObject, RegisteredIsOpen,
       CommandsHoldTargets, TypeOK, IsStarted, Started, Goto
  <2>3. TurnInv'
    BY <1>16, NoTurnMoves DEF ClearFails
  <2> QED
    BY <2>1, <2>2, <2>3
<1>17. ASSUME Evict PROVE IInv'
  <2>1. TypeOK'
    <3>1. evictions' \in 0..MaxEvictions
      BY <1>17, TurnsAssumption DEF Evict, TypeOK, TurnsAssumption
    <3> QED
      BY <1>17, <3>1 DEF Evict, TypeOK
  <2>2. RegistryInv'
    BY <1>17, <2>1 DEF Evict, RegistryInv, HoldsObject, RegisteredIsOpen,
       CommandsHoldTargets, TypeOK, IsStarted, Started, Goto
  <2>3. TurnInv'
    BY <1>17, NoTurnMoves DEF Evict
  <2> QED
    BY <2>1, <2>2, <2>3
<1>18. ASSUME ShutDown PROVE IInv'
  <2>1. TypeOK'
    BY <1>18 DEF ShutDown, TypeOK, Goto, Started
  <2>2. RegistryInv'
    BY <1>18, <2>1 DEF ShutDown, RegistryInv, HoldsObject, RegisteredIsOpen,
       CommandsHoldTargets, TypeOK, IsStarted, Started, Goto
  <2>3. TurnInv'
    BY <1>18, NoTurnMoves DEF ShutDown
  <2> QED
    BY <2>1, <2>2, <2>3
<1>19. ASSUME LoopExits PROVE IInv'
  <2>1. TypeOK'
    BY <1>19 DEF LoopExits, TypeOK, Goto, Started
  <2>2. RegistryInv'
    BY <1>19, <2>1 DEF LoopExits, RegistryInv, HoldsObject, RegisteredIsOpen,
       CommandsHoldTargets, TypeOK, IsStarted, Started, Goto
  <2>3. TurnInv'
    BY <1>19, NoTurnMoves DEF LoopExits
  <2> QED
    BY <2>1, <2>2, <2>3
<1>20. ASSUME StopManager PROVE IInv'
  <2>1. TypeOK'
    BY <1>20 DEF StopManager, TypeOK, Goto, Started
  <2>2. RegistryInv'
    BY <1>20, <2>1 DEF StopManager, RegistryInv, HoldsObject, RegisteredIsOpen,
       CommandsHoldTargets, TypeOK, IsStarted, Started, Goto
  <2>3. TurnInv'
    BY <1>20, NoTurnMoves DEF StopManager
  <2> QED
    BY <2>1, <2>2, <2>3
<1>21. ASSUME UNCHANGED vars PROVE IInv'
  <2>1. TypeOK'
    BY <1>21 DEF vars, TypeOK
  <2>2. RegistryInv'
    BY <1>21 DEF vars, RegistryInv, HoldsObject, RegisteredIsOpen,
       CommandsHoldTargets, IsStarted
  <2>3. TurnInv'
    BY <1>21, NoTurnMoves DEF vars
  <2> QED
    BY <2>1, <2>2, <2>3
<1> HIDE DEF IInv
<1> QED
  BY <1>1, <1>2, <1>3, <1>4, <1>5, <1>6, <1>7, <1>8, <1>9, <1>10, <1>11, <1>12,
     <1>13, <1>14, <1>15, <1>16, <1>17, <1>18, <1>19, <1>20, <1>21
     DEF Next, TurnStep, GatewayStep, Idle
--------------------------------------------------------------------------------
LEMMA Invariance == Spec => []IInv
  BY InitInv, InvStep, PTL DEF Spec

(* Every state variable keeps its type, with any number of turns, Session  *)
(* objects, commands and evictions.                                        *)
THEOREM TypeCorrect == Spec => []TypeOK
<1>1. IInv => TypeOK
  BY DEF IInv
<1> QED
  BY <1>1, Invariance, PTL

(* The newest unfinished turn of a Session is the one whose cancel the     *)
(* Session holds: a stale finishTurn never takes it away.                  *)
THEOREM NewestIsStoppable == Spec => []NewestTurnIsStoppable
<1>1. IInv => NewestTurnIsStoppable
  BY DEF IInv, TurnInv
<1> QED
  BY <1>1, Invariance, PTL

(* No superseded turn is left running without its context cancelled or     *)
(* about to be.                                                            *)
THEOREM NoTurnLeftBehind == Spec => []SupersededIsCancelled
<1>1. IInv => SupersededIsCancelled
  BY DEF IInv, TurnInv
<1> QED
  BY <1>1, Invariance, PTL

(* What a new message finds in the registry has its memory open.           *)
THEOREM NoClosedSessionFound == Spec => []RegisteredIsOpen
<1>1. IInv => RegisteredIsOpen
  BY DEF IInv, RegistryInv
<1> QED
  BY <1>1, Invariance, PTL

(* Once a started turn that has not begun to send is cancelled, it cannot  *)
(* send any more.                                                          *)
Silenced(t) ==
  Cancelled(t) /\ ~Replied(t) /\ pc[t] \in {"cancelPrev", "run", "check", "poll", "finish", "done"}

RepliedIsPast ==
  \A t \in Turns : Replied(t) => pc[t] \in {"finish", "done"}

LEMMA AppendReplied ==
  ASSUME NEW s \in Seq(Turns), NEW t \in Turns, NEW u \in Turns
  PROVE  (\E i \in 1..Len(Append(s, t)) : Append(s, t)[i] = u)
           <=> (u = t \/ \E i \in 1..Len(s) : s[i] = u)
OBVIOUS

LEMMA RepliesGrow ==
  ASSUME TypeOK, [Next]_vars, NEW t \in Turns
  PROVE  \/ Replied(t)' <=> Replied(t)
         \/ pc[t] = "create" /\ pc'[t] = "done" /\ ~rootDone
         \/ pc[t] = "send" /\ pc'[t] = "finish"
<1>1. ASSUME NEW u \in Turns, CreateFails(u)
      PROVE  \/ Replied(t)' <=> Replied(t)
             \/ pc[t] = "create" /\ pc'[t] = "done" /\ ~rootDone
  <2>1. CASE rootDone
    BY <1>1, <2>1 DEF CreateFails, Replied
  <2>2. CASE ~rootDone /\ u # t
    BY <1>1, <2>2, AppendReplied DEF CreateFails, Replied, TypeOK
  <2>3. CASE ~rootDone /\ u = t
    BY <1>1, <2>3 DEF CreateFails, Goto, TypeOK
  <2> QED
    BY <2>1, <2>2, <2>3
<1>2. ASSUME NEW u \in Turns, PublishSend(u)
      PROVE  \/ Replied(t)' <=> Replied(t)
             \/ pc[t] = "send" /\ pc'[t] = "finish"
  <2>1. CASE u # t
    <3>1. CASE UNCHANGED replies
      BY <3>1 DEF Replied
    <3>2. CASE replies' = Append(replies, u)
      BY <2>1, <3>2, AppendReplied DEF Replied, TypeOK
    <3> QED
      BY <1>2, <3>1, <3>2 DEF PublishSend
  <2>2. CASE u = t
    BY <1>2, <2>2 DEF PublishSend, Goto, TypeOK
  <2> QED
    BY <2>1, <2>2
<1>3. CASE UNCHANGED replies
  BY <1>3 DEF Replied
<1> QED
  BY <1>1, <1>2, <1>3
     DEF Next, TurnStep, GatewayStep, Idle, vars, results, Arrive, Lookup, Create,
         StartTurn, CancelPrev, RunEnds, CheckCanceled, PublishPoll, FinishTurn,
         StopRead, StopCancel, ClearStop, ClearDrop, ClearFails, Evict, ShutDown,
         LoopExits, StopManager

(* A turn that is over, or has sent, does not go back. *)
LEMMA TurnsGoForward ==
  ASSUME TypeOK, [Next]_vars, NEW t \in Turns
  PROVE  /\ pc[t] = "finish" => pc'[t] \in {"finish", "done"}
         /\ pc[t] = "done" => pc'[t] = "done"
         /\ Cancelled(t) => Cancelled(t)'
         /\ (Cancelled(t) /\ pc[t] \in Unpublished) => pc'[t] \in Unpublished \union {"finish"}
<1> USE DEF TypeOK, Goto, Cancelled, Unpublished, gatewayVars
<1>1. ASSUME NEW u \in Turns,
             \/ Arrive(u) \/ Lookup(u) \/ Create(u) \/ CreateFails(u) \/ StartTurn(u)
      PROVE  /\ UNCHANGED <<cancelled, rootDone>>
             /\ pc'[t] = pc[t] \/ pc[t] \in {"new", "lookup", "create", "start"}
  BY <1>1 DEF Arrive, Lookup, Create, CreateFails, StartTurn
<1>2. ASSUME NEW u \in Turns, CancelPrev(u)
      PROVE  /\ cancelled \subseteq cancelled' /\ UNCHANGED rootDone
             /\ pc'[t] = pc[t] \/ (pc[t] = "cancelPrev" /\ pc'[t] = "run")
  BY <1>2 DEF CancelPrev
<1>3. ASSUME NEW u \in Turns, NEW oc \in Outcomes, RunEnds(u, oc)
      PROVE  /\ UNCHANGED <<cancelled, rootDone>>
             /\ \/ pc'[t] = pc[t]
                \/ pc[t] = "run" /\ pc'[t] \in {"check", "poll", "finish"}
  BY <1>3 DEF RunEnds
<1>4. ASSUME NEW u \in Turns, CheckCanceled(u) \/ PublishPoll(u)
      PROVE  /\ UNCHANGED <<cancelled, rootDone>>
             /\ \/ pc'[t] = pc[t]
                \/ pc[t] = "check" /\ pc'[t] \in {"finish", "poll"}
                \/ pc[t] = "poll" /\ pc'[t] = "finish"
                \/ pc[t] = "poll" /\ ~Cancelled(t)
  BY <1>4 DEF CheckCanceled, PublishPoll
<1>5. ASSUME NEW u \in Turns, PublishSend(u) \/ FinishTurn(u)
      PROVE  /\ UNCHANGED <<cancelled, rootDone>>
             /\ \/ pc'[t] = pc[t]
                \/ pc[t] = "send"
                \/ pc[t] = "finish" /\ pc'[t] = "done"
  BY <1>5 DEF PublishSend, FinishTurn
<1>6. ASSUME \/ StopRead \/ StopCancel \/ ClearStop \/ ClearDrop \/ ClearFails
             \/ Evict \/ ShutDown \/ LoopExits \/ StopManager \/ UNCHANGED vars
      PROVE  /\ UNCHANGED pc /\ cancelled \subseteq cancelled'
             /\ rootDone => rootDone'
  BY <1>6 DEF StopRead, StopCancel, ClearStop, ClearDrop, ClearFails, Evict,
     ShutDown, LoopExits, StopManager, vars
<1> QED
  BY <1>1, <1>2, <1>3, <1>4, <1>5, <1>6 DEF Next, TurnStep, GatewayStep, Idle

(* A turn stopped before it waits for room never reaches the chat, however *)
(* long the system runs on.                                                *)
THEOREM StoppedStaysSilent == Spec => StoppedTurnStaysSilent
<1>1. Init => RepliedIsPast
  BY DEF Init, RepliedIsPast, Replied
<1>2. TypeOK /\ RepliedIsPast /\ [Next]_vars => RepliedIsPast'
  <2> SUFFICES ASSUME TypeOK, RepliedIsPast, [Next]_vars, NEW t \in Turns, Replied(t)'
               PROVE  pc'[t] \in {"finish", "done"}
    BY DEF RepliedIsPast, Replied
  <2> QED
    BY RepliesGrow, TurnsGoForward DEF RepliedIsPast
<1>3. Spec => []RepliedIsPast
  BY <1>1, <1>2, TypeCorrect, PTL DEF Spec
<1>4. ASSUME NEW t \in Turns
      PROVE  Spec => [](Cancelled(t) /\ pc[t] \in Unpublished => []~Replied(t))
  <2>1. RepliedIsPast /\ Cancelled(t) /\ pc[t] \in Unpublished => Silenced(t)
    BY DEF RepliedIsPast, Silenced, Unpublished
  <2>2. TypeOK /\ Silenced(t) /\ [Next]_vars => Silenced(t)'
    <3> SUFFICES ASSUME TypeOK, Silenced(t), [Next]_vars PROVE Silenced(t)'
      OBVIOUS
    <3>1. Cancelled(t)' /\ pc'[t] \in Unpublished \union {"finish", "done"}
      BY TurnsGoForward DEF Silenced, Unpublished
    <3>2. ~Replied(t)'
      BY RepliesGrow DEF Silenced
    <3> QED
      BY <3>1, <3>2 DEF Silenced, Unpublished
  <2>3. Silenced(t) => ~Replied(t)
    BY DEF Silenced
  <2> QED
    BY <2>1, <2>2, <2>3, <1>3, TypeCorrect, PTL DEF Spec
<1> QED
  BY <1>4 DEF StoppedTurnStaysSilent

(* A cron run that is over with "ok" has put its answer on the bus or had  *)
(* none.                                                                   *)
OkIsDelivered ==
  \A t \in Turns :
    (IsCron /\ pc[t] \in {"finish", "done"} /\ answer[t] = "ok") =>
      Replied(t) \/ outcome[t] = "empty"

(* A run comes to its end with "ok" only by sending or with nothing to     *)
(* say.                                                                    *)
LEMMA OkComesFrom ==
  ASSUME TypeOK, [Next]_vars, IsCron, NEW t \in Turns,
         pc'[t] \in {"finish", "done"}, answer'[t] = "ok"
  PROVE  \/ /\ pc[t] \in {"finish", "done"}
            /\ answer'[t] = answer[t] /\ outcome'[t] = outcome[t]
         \/ outcome'[t] = "empty"
         \/ PublishSend(t) /\ replies' = Append(replies, t)
<1> USE DEF TypeOK, Goto
<1>1. ASSUME NEW u \in Turns,
             Arrive(u) \/ Lookup(u) \/ Create(u) \/ StartTurn(u) \/ CancelPrev(u) \/ FinishTurn(u)
      PROVE  /\ pc[t] \in {"finish", "done"}
             /\ answer'[t] = answer[t] /\ outcome'[t] = outcome[t]
  BY <1>1 DEF Arrive, Lookup, Create, StartTurn, CancelPrev, FinishTurn, results
<1>2. ASSUME NEW u \in Turns, CreateFails(u)
      PROVE  /\ pc[t] \in {"finish", "done"}
             /\ answer'[t] = answer[t] /\ outcome'[t] = outcome[t]
  BY <1>2 DEF CreateFails
<1>3. ASSUME NEW u \in Turns, NEW oc \in Outcomes, RunEnds(u, oc)
      PROVE  /\ pc[t] \in {"finish", "done"}
             /\ answer'[t] = answer[t] /\ outcome'[t] = outcome[t]
  BY <1>3 DEF RunEnds
<1>4. ASSUME NEW u \in Turns, CheckCanceled(u)
      PROVE  \/ /\ pc[t] \in {"finish", "done"}
                /\ answer'[t] = answer[t] /\ outcome'[t] = outcome[t]
             \/ outcome'[t] = "empty"
  BY <1>4 DEF CheckCanceled
<1>5. ASSUME NEW u \in Turns, PublishPoll(u)
      PROVE  /\ pc[t] \in {"finish", "done"}
             /\ answer'[t] = answer[t] /\ outcome'[t] = outcome[t]
  BY <1>5 DEF PublishPoll
<1>6. ASSUME NEW u \in Turns, PublishSend(u)
      PROVE  \/ /\ pc[t] \in {"finish", "done"}
                /\ answer'[t] = answer[t] /\ outcome'[t] = outcome[t]
             \/ PublishSend(t) /\ replies' = Append(replies, t)
  <2>1. CASE u = t
    BY <1>6, <2>1 DEF PublishSend
  <2>2. CASE u # t
    BY <1>6, <2>2 DEF PublishSend
  <2> QED
    BY <2>1, <2>2
<1>7. ASSUME \/ StopRead \/ StopCancel \/ ClearStop \/ ClearDrop \/ ClearFails
             \/ Evict \/ ShutDown \/ LoopExits \/ StopManager \/ UNCHANGED vars
      PROVE  UNCHANGED <<pc, answer, outcome>>
  BY <1>7 DEF StopRead, StopCancel, ClearStop, ClearDrop, ClearFails, Evict,
     ShutDown, LoopExits, StopManager, vars, results
<1> QED
  BY <1>1, <1>2, <1>3, <1>4, <1>5, <1>6, <1>7 DEF Next, TurnStep, GatewayStep, Idle

(* RunCronAgentTurn reports success only for what was delivered.           *)
THEOREM CronSuccessIsTrue == Spec => []CronSuccessMeansDelivered
<1>1. Init => OkIsDelivered
  BY DEF Init, OkIsDelivered
<1>2. TypeOK /\ OkIsDelivered /\ [Next]_vars => OkIsDelivered'
  <2> SUFFICES ASSUME TypeOK, OkIsDelivered, [Next]_vars, NEW t \in Turns,
                      IsCron, pc'[t] \in {"finish", "done"}, answer'[t] = "ok"
               PROVE  Replied(t)' \/ outcome'[t] = "empty"
    BY DEF OkIsDelivered
  <2>1. CASE /\ pc[t] \in {"finish", "done"}
             /\ answer'[t] = answer[t] /\ outcome'[t] = outcome[t]
    BY <2>1, RepliesGrow DEF OkIsDelivered
  <2>2. CASE PublishSend(t) /\ replies' = Append(replies, t)
    BY <2>2, AppendReplied DEF Replied, TypeOK
  <2> QED
    BY <2>1, <2>2, OkComesFrom
<1>3. OkIsDelivered => CronSuccessMeansDelivered
  BY DEF OkIsDelivered, CronSuccessMeansDelivered
<1> QED
  BY <1>1, <1>2, <1>3, TypeCorrect, PTL DEF Spec
================================================================================
