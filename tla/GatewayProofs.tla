-------------------------------- MODULE GatewayProofs --------------------------------
(***************************************************************************)
(* The conversation lock and the gateway's loop that asks it, for all      *)
(* conversations, timeouts and restarts: lockouts that have been written   *)
(* survive, codes open what they were made for, and nothing of a locked    *)
(* conversation gets through the loop.                                     *)
(***************************************************************************)
EXTENDS Gateway, SequenceTheorems, TLAPS

Fields == DOMAIN Unknown

(* Every state keeps the fields it has from the start. *)
Shaped ==
  /\ DOMAIN states = Sessions
  /\ \A s \in Sessions : DOMAIN states[s] = Fields

Times ==
  /\ now \in Nat
  /\ \A s \in Sessions : {states[s].lockedUntil, file[s], promised[s]} \subseteq Nat

(* What is locked out is locked. *)
OutIsLocked == \A s \in Sessions : states[s].lockedOut => states[s].locked

LoopHasSession == loop.step # "idle" => loop.session \in Sessions

(* A lockout that was promised is in the file, which is read after a       *)
(* restart, as long as it lasts.                                           *)
PromisesOnFile == \A s \in Sessions : now < promised[s] => file[s] >= promised[s]

LInv ==
  Shaped /\ Times /\ OutIsLocked /\ LoopHasSession /\ PromisesOnFile /\ LockoutSurvives

(* The fields of a record, spelled out. *)
LEMMA FieldsAre ==
  Fields = {"known", "locked", "lastActivity", "lastUnlock", "code", "codeExpiry", "attempts",
            "firstAttempt", "lockedOut", "lockedUntil"}
  BY DEF Fields, Unknown
--------------------------------------------------------------------------------
(* What the helpers leave as it is: ensure touches the times of activity   *)
(* only, an expired lockout takes its code and attempts along but never    *)
(* unlocks.                                                                *)
LEMMA EnsureKeeps ==
  ASSUME NEW st, DOMAIN st = Fields
  PROVE  /\ DOMAIN Ensure(st) = Fields
         /\ Ensure(st).locked = st.locked
         /\ Ensure(st).lockedOut = st.lockedOut
         /\ Ensure(st).lockedUntil = st.lockedUntil
         /\ Ensure(st).code = st.code
         /\ Ensure(st).codeExpiry = st.codeExpiry
  BY FieldsAre DEF Ensure

(* ClearExpiredLockout never unlocks, and leaves a lockout that lasts. *)
LEMMA ClearKeeps ==
  ASSUME NEW st, DOMAIN st = Fields
  PROVE  /\ DOMAIN ClearExpiredLockout(st) = Fields
         /\ ClearExpiredLockout(st).locked = st.locked
         /\ ClearExpiredLockout(st).lockedOut => st.lockedOut
         /\ st.lockedUntil \in Nat => ClearExpiredLockout(st).lockedUntil \in Nat
         /\ \/ ClearExpiredLockout(st).code = None
            \/ /\ ClearExpiredLockout(st).code = st.code
               /\ ClearExpiredLockout(st).codeExpiry = st.codeExpiry
         /\ now < st.lockedUntil => ClearExpiredLockout(st) = st
  BY FieldsAre DEF ClearExpiredLockout, None

(* What an operation begins with still holds the lock, the lockout that is *)
(* promised, and the code.                                                 *)
LEMMA CurrentKeeps ==
  ASSUME LInv, NEW s \in Sessions
  PROVE  /\ DOMAIN Current(s) = Fields
         /\ Current(s).locked = states[s].locked
         /\ Current(s).lockedOut => Current(s).locked
         /\ Current(s).lockedUntil \in Nat
         /\ \/ Current(s).code = None
            \/ /\ Current(s).code = states[s].code
               /\ Current(s).codeExpiry = states[s].codeExpiry
         /\ now < promised[s] => /\ Current(s).lockedOut
                                 /\ Current(s).lockedUntil >= promised[s]
<1>1. DOMAIN states[s] = Fields /\ states[s].lockedUntil \in Nat
  BY DEF LInv, Shaped, Times
<1>0. states[s].lockedOut => states[s].locked
  BY DEF LInv, OutIsLocked
<1> DEFINE e == Ensure(states[s])
<1>2. /\ DOMAIN e = Fields /\ e.locked = states[s].locked /\ e.lockedOut = states[s].lockedOut
      /\ e.lockedUntil = states[s].lockedUntil
      /\ e.code = states[s].code /\ e.codeExpiry = states[s].codeExpiry
  BY <1>1, EnsureKeeps
<1>3. Current(s) = ClearExpiredLockout(e)
  BY DEF Current
<1> HIDE DEF e
<1>4. now < promised[s] => e.lockedOut /\ e.lockedUntil >= promised[s] /\ now < e.lockedUntil
  BY <1>1, <1>2 DEF LInv, LockoutSurvives, Times
<1>5. now < promised[s] => ClearExpiredLockout(e) = e
  BY <1>2, <1>4, ClearKeeps
<1>6. now < promised[s] => Current(s).lockedOut /\ Current(s).lockedUntil >= promised[s]
  BY <1>3, <1>4, <1>5
<1>q. QED BY <1>0, <1>1, <1>2, <1>3, <1>6, ClearKeeps
--------------------------------------------------------------------------------
(* A step that writes the state of one conversation, and of the lockouts   *)
(* only what is promised.                                                  *)
LEMMA OneState ==
  ASSUME LInv, NEW s \in Sessions, NEW st, DOMAIN st = Fields, st.lockedUntil \in Nat,
         st.lockedOut => st.locked,
         now < promised[s] => st.lockedOut /\ st.lockedUntil >= promised[s],
         states' = [states EXCEPT ![s] = st],
         UNCHANGED <<now, file, promised>>, LoopHasSession'
  PROVE  LInv'
<1>1. Shaped'
  BY DEF LInv, Shaped
<1>2. Times'
  BY DEF LInv, Shaped, Times
<1>3. LockoutSurvives'
  BY DEF LInv, Shaped, LockoutSurvives
<1>4. OutIsLocked'
  BY DEF LInv, Shaped, OutIsLocked
<1>q. QED BY <1>1, <1>2, <1>3, <1>4 DEF LInv, PromisesOnFile

(* The file is written for all conversations when one is locked out, which *)
(* ends expired lockouts of others, and makes the promises.                *)
LEMMA SaveStep ==
  ASSUME LInv, NEW all, DOMAIN all = Sessions,
         \A u \in Sessions :
           /\ DOMAIN all[u] = Fields
           /\ all[u].lockedUntil \in Nat
           /\ all[u].lockedOut => all[u].locked
           /\ now < promised[u] => all[u].lockedOut /\ all[u].lockedUntil >= promised[u],
         SaveLockouts(all), now' = now, LoopHasSession'
  PROVE  LInv'
<1>1. states' = [u \in Sessions |-> ClearExpiredLockout(all[u])]
  BY DEF SaveLockouts
<1>2. ASSUME NEW u \in Sessions
      PROVE  /\ DOMAIN states'[u] = Fields
             /\ states'[u].lockedUntil \in Nat
             /\ states'[u].lockedOut => states'[u].locked
             /\ now < promised[u] => states'[u].lockedOut /\ states'[u].lockedUntil >= promised[u]
  <2>1. states'[u] = ClearExpiredLockout(all[u])
    BY <1>1
  <2>2. now < promised[u] => now < all[u].lockedUntil
    BY DEF LInv, Times
  <2>q. QED BY <2>1, <2>2, ClearKeeps
<1>3. Shaped' /\ OutIsLocked'
  BY <1>1, <1>2 DEF Shaped, OutIsLocked
<1>4. CASE UNCHANGED <<file, promised>>
  BY <1>2, <1>3, <1>4 DEF LInv, Times, PromisesOnFile, LockoutSurvives, OutIsLocked
<1>5. CASE /\ file' = SavedLockouts(states')
           /\ promised' = [u \in Sessions |->
                             IF file'[u] > promised[u] THEN file'[u] ELSE promised[u]]
  <2>1. ASSUME NEW u \in Sessions
        PROVE  /\ file'[u] = IF states'[u].lockedOut THEN states'[u].lockedUntil ELSE None
               /\ promised'[u] = IF file'[u] > promised[u] THEN file'[u] ELSE promised[u]
    BY <1>5 DEF SavedLockouts
  <2>2. ASSUME NEW u \in Sessions
        PROVE  /\ file'[u] \in Nat /\ promised'[u] \in Nat
               /\ now < promised'[u] => /\ file'[u] >= promised'[u]
                                        /\ states'[u].lockedOut
                                        /\ states'[u].lockedUntil >= promised'[u]
    BY <1>2, <2>1 DEF LInv, Times, None
  <2>q. QED BY <1>2, <1>3, <2>2 DEF LInv, Times, PromisesOnFile, LockoutSurvives, OutIsLocked
<1>q. QED BY <1>4, <1>5 DEF SaveLockouts
--------------------------------------------------------------------------------
(* The invariant holds at the start, with no promise made. *)
LEMMA InitLInv == Init => LInv
<1> SUFFICES ASSUME Init PROVE LInv
  OBVIOUS
<1>1. \A s \in Sessions : states[s] = Unknown /\ file[s] = 0 /\ promised[s] = 0
  BY DEF Init, None
<1>2. DOMAIN Unknown = Fields /\ Unknown.lockedUntil = 0 /\ Unknown.lockedOut = FALSE
  BY DEF Fields, Unknown
<1>q. QED BY <1>1, <1>2 DEF Init, LInv, Shaped, Times, OutIsLocked, LoopHasSession, IdleLoop,
                           PromisesOnFile, LockoutSurvives

(* The calls of the loop, each for the message it has taken. *)
LEMMA IsLockedStep ==
  ASSUME LInv, NEW s \in Sessions, NEW m \in Messages, IsLocked(s, m)
  PROVE  LInv'
<1> DEFINE st == [Current(s) EXCEPT !.locked = Current(s).locked \/ ShouldAutoLock(Current(s))]
<1>1. states' = [states EXCEPT ![s] = st] /\ UNCHANGED <<now, file, promised>>
  BY DEF IsLocked
<1>2. LoopHasSession'
  BY DEF IsLocked, LoopHasSession
<1>3. /\ DOMAIN st = Fields /\ st.lockedUntil = Current(s).lockedUntil
      /\ st.lockedOut = Current(s).lockedOut
  BY CurrentKeeps, FieldsAre
<1>4. Current(s).locked => st.locked
  BY CurrentKeeps, FieldsAre
<1> HIDE DEF st
<1>q. QED BY <1>1, <1>2, <1>3, <1>4, CurrentKeeps, OneState

(* /lock only locks. *)
LEMMA LockStep == LInv /\ Lock => LInv'
<1> SUFFICES ASSUME LInv, Lock PROVE LInv'
  OBVIOUS
<1> DEFINE s == loop.session
           st == [Ensure(states[s]) EXCEPT !.locked = TRUE]
<1>1. s \in Sessions
  BY DEF LInv, LoopHasSession, Lock, Handling
<1>2. states' = [states EXCEPT ![s] = st] /\ UNCHANGED <<now, file, promised>>
  BY DEF Lock
<1>3. LoopHasSession'
  BY <1>1 DEF Lock, LoopHasSession
<1>4. /\ DOMAIN st = Fields /\ st.locked = TRUE
      /\ st.lockedOut = states[s].lockedOut /\ st.lockedUntil = states[s].lockedUntil
  BY <1>1, EnsureKeeps, FieldsAre DEF LInv, Shaped
<1> HIDE DEF st
<1>q. QED BY <1>1, <1>2, <1>3, <1>4, OneState DEF LInv, Times, LockoutSurvives

(* /unlock without a code locks what is to be locked anyway. *)
LEMMA RequestStep == LInv /\ RequestUnlock => LInv'
<1> SUFFICES ASSUME LInv, RequestUnlock PROVE LInv'
  OBVIOUS
<1> DEFINE s == loop.session
           st == [Current(s) EXCEPT !.locked = TRUE, !.code = Len(codes'),
                                    !.codeExpiry = now + OTAExpiry]
<1>1. s \in Sessions
  BY DEF LInv, LoopHasSession, RequestUnlock, Handling
<1>2. UNCHANGED <<now, file, promised>>
  BY DEF RequestUnlock
<1>3. LoopHasSession'
  BY <1>1 DEF RequestUnlock, LoopHasSession
<1>4. CASE states' = [states EXCEPT ![s] = Current(s)]
  BY <1>1, <1>2, <1>3, <1>4, CurrentKeeps, OneState
<1>5. CASE states' = [states EXCEPT ![s] = st]
  <2>1. /\ DOMAIN st = Fields /\ st.locked = TRUE
        /\ st.lockedOut = Current(s).lockedOut /\ st.lockedUntil = Current(s).lockedUntil
    BY <1>1, CurrentKeeps, FieldsAre
  <2> HIDE DEF st
  <2>q. QED BY <1>1, <1>2, <1>3, <1>5, <2>1, CurrentKeeps, OneState
<1>6. CASE UNCHANGED states
  BY <1>2, <1>3, <1>6 DEF LInv, Shaped, Times, OutIsLocked, PromisesOnFile, LockoutSurvives
<1>q. QED BY <1>4, <1>5, <1>6 DEF RequestUnlock

(* Counting a wrong code and locking out, on a state without its code or   *)
(* with it.                                                                *)
LEMMA CountKeeps ==
  ASSUME NEW st, DOMAIN st = Fields
  PROVE  LET c == CountedAttempt(st) IN
         /\ DOMAIN c = Fields
         /\ c.locked = st.locked
         /\ c.lockedOut = st.lockedOut
         /\ c.lockedUntil = st.lockedUntil
         /\ c.code = st.code
         /\ c.codeExpiry = st.codeExpiry
  BY FieldsAre DEF CountedAttempt

(* What a lockout sets. *)
LEMMA LockOutGives ==
  ASSUME NEW st, DOMAIN st = Fields
  PROVE  /\ DOMAIN LockOut(st) = Fields
         /\ LockOut(st).locked = TRUE
         /\ LockOut(st).lockedOut = TRUE
         /\ LockOut(st).lockedUntil = now + LockoutDuration
         /\ LockOut(st).code = None
  BY FieldsAre DEF LockOut

(* A wrong code, where nothing is promised any more. *)
LEMMA FailedStep ==
  ASSUME LInv, NEW s \in Sessions, NEW st, DOMAIN st = Fields,
         st.lockedUntil \in Nat, st.lockedOut => st.locked, ~(now < promised[s]),
         FailedAttempt(s, st), now' = now, LoopHasSession'
  PROVE  LInv'
<1> DEFINE c == CountedAttempt(st)
<1>1. /\ DOMAIN c = Fields /\ c.locked = st.locked /\ c.lockedOut = st.lockedOut
      /\ c.lockedUntil = st.lockedUntil
  BY CountKeeps
<1>2. \/ SaveLockouts([states EXCEPT ![s] = LockOut(c)])
      \/ states' = [states EXCEPT ![s] = c] /\ UNCHANGED <<file, promised>>
  BY DEF FailedAttempt
<1> HIDE DEF c
<1>3. CASE SaveLockouts([states EXCEPT ![s] = LockOut(c)])
  <2> DEFINE all == [states EXCEPT ![s] = LockOut(c)]
  <2>0. now \in Nat /\ LockoutDuration \in Nat
    BY LockAssumption DEF LInv, Times
  <2>1. /\ DOMAIN LockOut(c) = Fields /\ LockOut(c).locked = TRUE
        /\ LockOut(c).lockedUntil = now + LockoutDuration
    BY <1>1, LockOutGives
  <2>2. DOMAIN all = Sessions
    BY DEF LInv, Shaped
  <2>3. ASSUME NEW u \in Sessions
        PROVE  /\ DOMAIN all[u] = Fields
               /\ all[u].lockedUntil \in Nat
               /\ all[u].lockedOut => all[u].locked
               /\ now < promised[u] => all[u].lockedOut /\ all[u].lockedUntil >= promised[u]
    <3>1. CASE u = s
      BY <2>0, <2>1, <3>1 DEF LInv, Shaped
    <3>2. CASE u # s
      BY <3>2 DEF LInv, Shaped, Times, OutIsLocked, LockoutSurvives
    <3>q. QED BY <3>1, <3>2
  <2> HIDE DEF all
  <2>4. SaveLockouts(all)
    BY <1>3 DEF all
  <2>q. QED BY <2>2, <2>3, <2>4, SaveStep
<1>4. CASE states' = [states EXCEPT ![s] = c] /\ UNCHANGED <<file, promised>>
  BY <1>1, <1>4, OneState
<1>q. QED BY <1>2, <1>3, <1>4

(* /unlock with a code, which changes nothing during a lockout. *)
LEMMA VerifyStep == LInv /\ VerifyUnlock => LInv'
<1> SUFFICES ASSUME LInv, VerifyUnlock PROVE LInv'
  OBVIOUS
<1> DEFINE s == loop.session
           st == Current(s)
           tried == IF now >= st.codeExpiry THEN [st EXCEPT !.code = None] ELSE st
<1>1. s \in Sessions
  BY DEF LInv, LoopHasSession, VerifyUnlock, Handling
<1>2. now' = now /\ LoopHasSession'
  BY <1>1 DEF VerifyUnlock, LoopHasSession
<1>3. \/ states' = [states EXCEPT ![s] = st] /\ UNCHANGED <<file, promised>>
      \/ /\ ~st.lockedOut
         /\ states' = [states EXCEPT ![s] = Opened(st)] /\ UNCHANGED <<file, promised>>
      \/ ~st.lockedOut /\ FailedAttempt(s, tried)
  BY DEF VerifyUnlock
<1>4. CASE states' = [states EXCEPT ![s] = st] /\ UNCHANGED <<file, promised>>
  BY <1>1, <1>2, <1>4, CurrentKeeps, OneState
<1>5. CASE /\ ~st.lockedOut
           /\ states' = [states EXCEPT ![s] = Opened(st)] /\ UNCHANGED <<file, promised>>
  <2>1. /\ DOMAIN Opened(st) = Fields /\ Opened(st).lockedOut = st.lockedOut
        /\ Opened(st).lockedUntil = st.lockedUntil
    BY <1>1, CurrentKeeps, FieldsAre DEF Opened
  <2>q. QED BY <1>1, <1>2, <1>5, <2>1, CurrentKeeps, OneState
<1>6. CASE ~st.lockedOut /\ FailedAttempt(s, tried)
  <2>1. /\ DOMAIN tried = Fields /\ tried.lockedOut = st.lockedOut /\ tried.locked = st.locked
        /\ tried.lockedUntil = st.lockedUntil
    BY <1>1, CurrentKeeps, FieldsAre
  <2> HIDE DEF tried
  <2>q. QED BY <1>1, <1>2, <1>6, <2>1, CurrentKeeps, FailedStep
<1>q. QED BY <1>3, <1>4, <1>5, <1>6

(* RecordActivity writes the time of an open conversation only. *)
LEMMA ActivityStep == LInv /\ RecordActivity => LInv'
<1> SUFFICES ASSUME LInv, RecordActivity PROVE LInv'
  OBVIOUS
<1> DEFINE s == loop.session
           st == IF Current(s).locked THEN Current(s)
                 ELSE [Current(s) EXCEPT !.lastActivity = now]
<1>1. s \in Sessions
  BY DEF LInv, LoopHasSession, RecordActivity
<1>2. states' = [states EXCEPT ![s] = st] /\ UNCHANGED <<now, file, promised>>
  BY DEF RecordActivity
<1>3. LoopHasSession'
  BY DEF RecordActivity, LoopHasSession, IdleLoop
<1>4. /\ DOMAIN st = Fields /\ st.locked = Current(s).locked
      /\ st.lockedOut = Current(s).lockedOut /\ st.lockedUntil = Current(s).lockedUntil
  BY <1>1, CurrentKeeps, FieldsAre
<1> HIDE DEF st
<1>q. QED BY <1>1, <1>2, <1>3, <1>4, CurrentKeeps, OneState

(* After a restart the promised lockouts are back from the file. *)
LEMMA RestartStep == LInv /\ Restart => LInv'
<1> SUFFICES ASSUME LInv, Restart PROVE LInv'
  OBVIOUS
<1>1. /\ states' = [s \in Sessions |-> LoadLockouts(s)]
      /\ UNCHANGED <<now, file, promised>> /\ loop' = IdleLoop
  BY DEF Restart
<1>2. ASSUME NEW s \in Sessions
      PROVE  /\ DOMAIN LoadLockouts(s) = Fields
             /\ LoadLockouts(s).lockedUntil \in Nat
             /\ LoadLockouts(s).lockedOut => LoadLockouts(s).locked
             /\ now < promised[s] => /\ LoadLockouts(s).lockedOut
                                     /\ LoadLockouts(s).lockedUntil = file[s]
  <2>1. DOMAIN Unknown = Fields /\ Unknown.lockedUntil = 0 /\ Unknown.lockedOut = FALSE
    BY DEF Fields, Unknown
  <2>2. now < promised[s] => file[s] # None /\ ~(now >= file[s])
    BY DEF LInv, Times, PromisesOnFile, None
  <2>3. CASE file[s] = None \/ now >= file[s]
    BY <2>1, <2>2, <2>3 DEF LoadLockouts
  <2>4. CASE ~(file[s] = None \/ now >= file[s])
    BY <2>1, <2>4, FieldsAre DEF LoadLockouts, LInv, Times
  <2>q. QED BY <2>3, <2>4
<1>3. Shaped' /\ OutIsLocked' /\ Times'
  BY <1>1, <1>2 DEF LInv, Shaped, OutIsLocked, Times
<1>4. LockoutSurvives'
  BY <1>1, <1>2 DEF LInv, LockoutSurvives, OutIsLocked, PromisesOnFile
<1>q. QED BY <1>1, <1>3, <1>4 DEF LInv, PromisesOnFile, LoopHasSession, IdleLoop

(* Time only lets promises run out. *)
LEMMA TickStep == LInv /\ ClockTicks => LInv'
  BY DEF ClockTicks, LInv, Shaped, Times, OutIsLocked, LoopHasSession, PromisesOnFile,
         LockoutSurvives

(* Every step of the lock keeps the invariant. *)
LEMMA NextLInv == LInv /\ [Next]_vars => LInv'
<1>1. LInv /\ UNCHANGED vars => LInv'
  BY DEF vars, LInv, Shaped, Times, OutIsLocked, LoopHasSession, PromisesOnFile,
         LockoutSurvives
<1>q. QED BY <1>1, IsLockedStep, LockStep, RequestStep, VerifyStep, ActivityStep, RestartStep,
             TickStep DEF Next

(* A lockout that has been written keeps its conversation locked until it  *)
(* runs out, whatever restarts and other lockouts come in between.         *)
THEOREM LockoutsSurvive == Spec => []LockoutSurvives
<1>1. LInv => LockoutSurvives
  BY DEF LInv
<1>q. QED BY <1>1, InitLInv, NextLInv, PTL DEF Spec
--------------------------------------------------------------------------------
(* A code in a state is the last one made for its conversation, by this    *)
(* process, not used yet, and expires when the state says.                 *)
IsLast(c, s) ==
  /\ c \in Nat /\ boot < c /\ c <= Len(codes)
  /\ codes[c].session = s
  /\ \A d \in Nat : c < d /\ d <= Len(codes) => codes[d].session # s
  /\ c \notin used

CodesAreLast ==
  \A s \in Sessions :
    states[s].code # None => /\ IsLast(states[s].code, s)
                            /\ states[s].codeExpiry = codes[states[s].code].made + OTAExpiry

CodeKinds ==
  /\ codes \in Seq([session: Sessions, made: Nat])
  /\ boot \in Nat /\ boot <= Len(codes)
  /\ \A c \in used : c \in Nat /\ c <= Len(codes)

CInv == CodeKinds /\ CodesAreLast

(* No code is made or used: states keep theirs or drop it. *)
LEMMA CodesKept ==
  ASSUME CInv, UNCHANGED <<codes, boot, used>>,
         \A s \in Sessions : \/ states'[s].code = None
                             \/ /\ states'[s].code = states[s].code
                                /\ states'[s].codeExpiry = states[s].codeExpiry
  PROVE  CInv'
<1>1. CodeKinds'
  BY DEF CInv, CodeKinds
<1>2. ASSUME NEW s \in Sessions, states'[s].code # None
      PROVE  /\ IsLast(states[s].code, s)' 
             /\ states'[s].codeExpiry = codes'[states'[s].code].made + OTAExpiry
  BY <1>2 DEF CInv, CodesAreLast, IsLast
<1>q. QED BY <1>1, <1>2 DEF CInv, CodesAreLast

(* The same for a step that writes one state. *)
LEMMA OneCodeKept ==
  ASSUME CInv, Shaped, NEW s \in Sessions, NEW st, states' = [states EXCEPT ![s] = st],
         \/ st.code = None
         \/ st.code = states[s].code /\ st.codeExpiry = states[s].codeExpiry,
         UNCHANGED <<codes, boot, used>>
  PROVE  CInv'
<1>1. \A u \in Sessions : states'[u] = IF u = s THEN st ELSE states[u]
  BY DEF Shaped
<1>q. QED BY <1>1, CodesKept

(* The start has no codes. *)
LEMMA InitCInv == Init => CInv
<1> SUFFICES ASSUME Init PROVE CInv
  OBVIOUS
<1>1. \A s \in Sessions : states[s].code = None
  BY DEF Init, Unknown
<1>q. QED BY <1>1 DEF Init, CInv, CodeKinds, CodesAreLast

(* RequestUnlock makes a code, which takes the place of the last one.      *)
LEMMA RequestCodes == LInv /\ CInv /\ RequestUnlock => CInv'
<1> SUFFICES ASSUME LInv, CInv, RequestUnlock PROVE CInv'
  OBVIOUS
<1> DEFINE s == loop.session
           st == [Current(s) EXCEPT !.locked = TRUE, !.code = Len(codes'),
                                    !.codeExpiry = now + OTAExpiry]
<1>1. s \in Sessions /\ Shaped /\ now \in Nat
  BY DEF LInv, LoopHasSession, RequestUnlock, Handling, Times
<1>2. UNCHANGED <<boot, used>>
  BY DEF RequestUnlock
<1>3. CASE states' = [states EXCEPT ![s] = Current(s)] /\ UNCHANGED codes
  BY <1>1, <1>2, <1>3, CurrentKeeps, OneCodeKept
<1>4. CASE UNCHANGED <<states, codes>>
  BY <1>2, <1>4, CodesKept
<1>5. CASE /\ codes' = Append(codes, [session |-> s, made |-> now])
           /\ states' = [states EXCEPT ![s] = st]
  <2> DEFINE n == Len(codes) + 1
  <2>1. codes \in Seq([session: Sessions, made: Nat]) /\ Len(codes) \in Nat
    BY DEF CInv, CodeKinds
  <2>2. /\ Len(codes') = n
        /\ codes'[n] = [session |-> s, made |-> now]
        /\ \A c \in Nat : 0 < c /\ c <= Len(codes) => codes'[c] = codes[c]
    BY <1>1, <1>5, <2>1
  <2>3. codes' \in Seq([session: Sessions, made: Nat])
    BY <1>1, <1>5, <2>1
  <2>4. CodeKinds'
    BY <1>2, <2>1, <2>2, <2>3 DEF CInv, CodeKinds
  <2>5. ASSUME NEW u \in Sessions, states'[u].code # None
        PROVE  /\ IsLast(states[u].code, u)'
               /\ states'[u].codeExpiry = codes'[states'[u].code].made + OTAExpiry
    <3>1. CASE u = s
      <4>1. st.code = n /\ st.codeExpiry = now + OTAExpiry
        BY <1>1, <2>2, CurrentKeeps, FieldsAre
      <4>2. states'[s] = st
        BY <1>1, <1>5 DEF Shaped
      <4> HIDE DEF st
      <4>3. boot <= Len(codes) /\ boot \in Nat /\ n \notin used
        BY <2>1 DEF CInv, CodeKinds
      <4>q. QED BY <1>2, <2>1, <2>2, <3>1, <4>1, <4>2, <4>3 DEF IsLast
    <3>2. CASE u # s
      <4>1. states'[u] = states[u]
        BY <1>1, <1>5, <3>2 DEF Shaped
      <4>2. /\ IsLast(states[u].code, u)
            /\ states[u].codeExpiry = codes[states[u].code].made + OTAExpiry
        BY <2>5, <4>1 DEF CInv, CodesAreLast
      <4>3. states[u].code \in Nat /\ 0 < states[u].code /\ states[u].code <= Len(codes)
        BY <4>2 DEF IsLast, CInv, CodeKinds
      <4>4. codes'[states[u].code] = codes[states[u].code]
        BY <2>2, <4>3
      <4>q. QED BY <1>2, <2>1, <2>2, <3>2, <4>1, <4>2, <4>3, <4>4 DEF IsLast
    <3>q. QED BY <3>1, <3>2
  <2>q. QED BY <2>4, <2>5 DEF CInv, CodesAreLast
<1>q. QED BY <1>3, <1>4, <1>5 DEF RequestUnlock

(* A wrong code may lock out and write the file, for which the states are  *)
(* gone through: codes are only dropped.                                   *)
LEMMA FailedCodes ==
  ASSUME CInv, Shaped, NEW s \in Sessions, NEW st, DOMAIN st = Fields,
         \/ st.code = None
         \/ st.code = states[s].code /\ st.codeExpiry = states[s].codeExpiry,
         FailedAttempt(s, st), UNCHANGED <<codes, boot, used>>
  PROVE  CInv'
<1> DEFINE c == CountedAttempt(st)
           all == [states EXCEPT ![s] = LockOut(c)]
<1>1. DOMAIN c = Fields /\ c.code = st.code /\ c.codeExpiry = st.codeExpiry
  BY CountKeeps
<1>2. \/ SaveLockouts(all)
      \/ states' = [states EXCEPT ![s] = c]
  BY DEF FailedAttempt
<1>3. DOMAIN LockOut(c) = Fields /\ LockOut(c).code = None
  BY <1>1, LockOutGives
<1> HIDE DEF c
<1>4. CASE states' = [states EXCEPT ![s] = c]
  BY <1>1, <1>4, OneCodeKept
<1>5. CASE SaveLockouts(all)
  <2>1. ASSUME NEW u \in Sessions
        PROVE  /\ DOMAIN all[u] = Fields
               /\ \/ all[u].code = None
                  \/ /\ all[u].code = states[u].code
                     /\ all[u].codeExpiry = states[u].codeExpiry
    BY <1>3 DEF Shaped
  <2> HIDE DEF all
  <2>2. \A u \in Sessions : states'[u] = ClearExpiredLockout(all[u])
    BY <1>5 DEF SaveLockouts
  <2>q. QED BY <2>1, <2>2, ClearKeeps, CodesKept
<1>q. QED BY <1>2, <1>4, <1>5

(* VerifyUnlock uses up the code that opens.  No other conversation has    *)
(* it.                                                                     *)
LEMMA VerifyCodes == LInv /\ CInv /\ VerifyUnlock => CInv'
<1> SUFFICES ASSUME LInv, CInv, VerifyUnlock PROVE CInv'
  OBVIOUS
<1> DEFINE s == loop.session
           st == Current(s)
           tried == IF now >= st.codeExpiry THEN [st EXCEPT !.code = None] ELSE st
<1>1. s \in Sessions /\ Shaped
  BY DEF LInv, LoopHasSession, VerifyUnlock, Handling
<1>2. UNCHANGED <<codes, boot>>
  BY DEF VerifyUnlock
<1>3. \/ states' = [states EXCEPT ![s] = st] /\ UNCHANGED used
      \/ /\ st.code # None
         /\ states' = [states EXCEPT ![s] = Opened(st)] /\ used' = used \union {st.code}
      \/ FailedAttempt(s, tried) /\ UNCHANGED used
  BY DEF VerifyUnlock
<1>4. CASE states' = [states EXCEPT ![s] = st] /\ UNCHANGED used
  BY <1>1, <1>2, <1>4, CurrentKeeps, OneCodeKept
<1>5. CASE /\ st.code # None
           /\ states' = [states EXCEPT ![s] = Opened(st)] /\ used' = used \union {st.code}
  <2>1. Opened(st).code = None
    BY <1>1, CurrentKeeps, FieldsAre DEF Opened
  <2>2. st.code = states[s].code /\ IsLast(states[s].code, s)
    BY <1>1, <1>5, CurrentKeeps DEF CInv, CodesAreLast
  <2>3. CodeKinds'
    BY <1>2, <1>5, <2>2 DEF CInv, CodeKinds, IsLast
  <2>4. ASSUME NEW u \in Sessions, states'[u].code # None
        PROVE  /\ IsLast(states[u].code, u)'
               /\ states'[u].codeExpiry = codes'[states'[u].code].made + OTAExpiry
    <3>1. u # s /\ states'[u] = states[u]
      BY <1>1, <1>5, <2>1, <2>4 DEF Shaped
    <3>2. /\ IsLast(states[u].code, u)
          /\ states[u].codeExpiry = codes[states[u].code].made + OTAExpiry
      BY <2>4, <3>1 DEF CInv, CodesAreLast
    <3>3. states[u].code \notin used'
      BY <1>5, <2>2, <3>1, <3>2 DEF IsLast
    <3>q. QED BY <1>2, <3>1, <3>2, <3>3 DEF IsLast
  <2>q. QED BY <2>3, <2>4 DEF CInv, CodesAreLast
<1>6. CASE FailedAttempt(s, tried) /\ UNCHANGED used
  <2>1. /\ DOMAIN tried = Fields
        /\ \/ tried.code = None
           \/ tried.code = st.code /\ tried.codeExpiry = st.codeExpiry
    BY <1>1, CurrentKeeps, FieldsAre
  <2> HIDE DEF tried
  <2>q. QED BY <1>1, <1>2, <1>6, <2>1, CurrentKeeps, FailedCodes
<1>q. QED BY <1>3, <1>4, <1>5, <1>6

(* The rest of the loop's calls keep the code or drop it.                  *)
LEMMA LoopCodes ==
  ASSUME LInv, CInv,
         \/ \E s \in Sessions, m \in Messages : IsLocked(s, m)
         \/ Lock \/ RecordActivity
  PROVE  CInv'
<1>1. Shaped
  BY DEF LInv
<1>2. ASSUME NEW s \in Sessions, NEW m \in Messages, IsLocked(s, m) PROVE CInv'
  <2> DEFINE st == [Current(s) EXCEPT !.locked = Current(s).locked \/ ShouldAutoLock(Current(s))]
  <2>1. states' = [states EXCEPT ![s] = st] /\ UNCHANGED <<codes, boot, used>>
    BY <1>2 DEF IsLocked
  <2>2. st.code = Current(s).code /\ st.codeExpiry = Current(s).codeExpiry
    BY CurrentKeeps, FieldsAre
  <2> HIDE DEF st
  <2>q. QED BY <1>1, <2>1, <2>2, CurrentKeeps, OneCodeKept
<1>3. CASE Lock
  <2> DEFINE s == loop.session
             st == [Ensure(states[s]) EXCEPT !.locked = TRUE]
  <2>1. s \in Sessions
    BY <1>3 DEF LInv, LoopHasSession, Lock, Handling
  <2>2. states' = [states EXCEPT ![s] = st] /\ UNCHANGED <<codes, boot, used>>
    BY <1>3 DEF Lock
  <2>3. st.code = states[s].code /\ st.codeExpiry = states[s].codeExpiry
    BY <1>1, <2>1, EnsureKeeps, FieldsAre DEF Shaped
  <2> HIDE DEF st
  <2>q. QED BY <1>1, <2>1, <2>2, <2>3, OneCodeKept
<1>4. CASE RecordActivity
  <2> DEFINE s == loop.session
             st == IF Current(s).locked THEN Current(s)
                   ELSE [Current(s) EXCEPT !.lastActivity = now]
  <2>1. s \in Sessions
    BY <1>4 DEF LInv, LoopHasSession, RecordActivity
  <2>2. states' = [states EXCEPT ![s] = st] /\ UNCHANGED <<codes, boot, used>>
    BY <1>4 DEF RecordActivity
  <2>3. st.code = Current(s).code /\ st.codeExpiry = Current(s).codeExpiry
    BY <2>1, CurrentKeeps, FieldsAre
  <2> HIDE DEF st
  <2>q. QED BY <1>1, <2>1, <2>2, <2>3, CurrentKeeps, OneCodeKept
<1>q. QED BY <1>2, <1>3, <1>4

(* A new process starts without codes; those made before it do not count.  *)
LEMMA RestartCodes == CInv /\ Restart => CInv'
<1> SUFFICES ASSUME CInv, Restart PROVE CInv'
  OBVIOUS
<1>1. /\ states' = [s \in Sessions |-> LoadLockouts(s)]
      /\ boot' = Len(codes) /\ UNCHANGED <<codes, used>>
  BY DEF Restart
<1>2. \A s \in Sessions : LoadLockouts(s).code = None
  BY FieldsAre DEF LoadLockouts, Unknown
<1>3. Len(codes) \in Nat
  BY DEF CInv, CodeKinds
<1>4. CodeKinds'
  BY <1>1, <1>3 DEF CInv, CodeKinds
<1>q. QED BY <1>1, <1>2, <1>4 DEF CInv, CodesAreLast

(* Time changes no code. *)
LEMMA TickCodes == CInv /\ (ClockTicks \/ UNCHANGED vars) => CInv'
  BY DEF ClockTicks, vars, CInv, CodeKinds, CodesAreLast, IsLast

(* Every step of the lock keeps both invariants. *)
LEMMA NextCInv == LInv /\ CInv /\ [Next]_vars => CInv'
  BY LoopCodes, RequestCodes, VerifyCodes, RestartCodes, TickCodes DEF Next
--------------------------------------------------------------------------------
RestartsCounted == restarts \in Nat

Earned(s) == loop.session = s /\ IsGood(loop.msg.code, s) /\ now >= promised[s]

EarnedStep ==
  \A s \in Sessions : Opens(s) => /\ loop.session = s
                                  /\ IsGood(loop.msg.code, s)
                                  /\ now >= promised[s]

(* Of the loop's calls only VerifyUnlock unlocks a conversation, and only  *)
(* its own.                                                                *)
LEMMA OthersDoNotOpen ==
  ASSUME LInv, NEW u \in Sessions, states[u].locked,
         \/ \E s \in Sessions, m \in Messages : IsLocked(s, m)
         \/ Lock \/ RequestUnlock \/ RecordActivity \/ ClockTicks \/ UNCHANGED vars
  PROVE  states'[u].locked
<1>1. Shaped /\ (loop.step # "idle" => loop.session \in Sessions)
  BY DEF LInv, LoopHasSession
<1>2. ASSUME NEW s \in Sessions, NEW m \in Messages, IsLocked(s, m) PROVE states'[u].locked
  <2> DEFINE st == [Current(s) EXCEPT !.locked = Current(s).locked \/ ShouldAutoLock(Current(s))]
  <2>1. states' = [states EXCEPT ![s] = st]
    BY <1>2 DEF IsLocked
  <2>2. Current(s).locked => st.locked
    BY CurrentKeeps, FieldsAre
  <2> HIDE DEF st
  <2>q. QED BY <1>1, <2>1, <2>2, CurrentKeeps DEF Shaped
<1> DEFINE s == loop.session
<1>3. CASE Lock
  <2> DEFINE st == [Ensure(states[s]) EXCEPT !.locked = TRUE]
  <2>1. s \in Sessions /\ states' = [states EXCEPT ![s] = st]
    BY <1>1, <1>3 DEF Lock, Handling
  <2>2. st.locked = TRUE
    BY <1>1, <2>1, EnsureKeeps, FieldsAre DEF Shaped
  <2> HIDE DEF st
  <2>q. QED BY <1>1, <2>1, <2>2 DEF Shaped
<1>4. CASE RequestUnlock
  <2> DEFINE st == [Current(s) EXCEPT !.locked = TRUE, !.code = Len(codes'),
                                      !.codeExpiry = now + OTAExpiry]
  <2>1. /\ s \in Sessions
        /\ \/ states' = [states EXCEPT ![s] = st]
           \/ states' = [states EXCEPT ![s] = Current(s)]
           \/ states' = states
    BY <1>1, <1>4 DEF RequestUnlock, Handling
  <2>2. st.locked = TRUE
    BY <2>1, CurrentKeeps, FieldsAre
  <2> HIDE DEF st
  <2>q. QED BY <1>1, <2>1, <2>2, CurrentKeeps DEF Shaped
<1>5. CASE RecordActivity
  <2> DEFINE st == IF Current(s).locked THEN Current(s)
                   ELSE [Current(s) EXCEPT !.lastActivity = now]
  <2>1. s \in Sessions /\ states' = [states EXCEPT ![s] = st]
    BY <1>1, <1>5 DEF RecordActivity
  <2>2. st.locked = Current(s).locked
    BY <2>1, CurrentKeeps, FieldsAre
  <2> HIDE DEF st
  <2>q. QED BY <1>1, <2>1, <2>2, CurrentKeeps DEF Shaped
<1>6. CASE ClockTicks \/ UNCHANGED vars
  BY <1>6 DEF ClockTicks, vars
<1>q. QED BY <1>2, <1>3, <1>4, <1>5, <1>6

(* A wrong code unlocks nothing. *)
LEMMA FailedDoesNotOpen ==
  ASSUME Shaped, NEW u \in Sessions, states[u].locked,
         NEW s \in Sessions, NEW st, DOMAIN st = Fields, st.locked = states[s].locked,
         FailedAttempt(s, st)
  PROVE  states'[u].locked
<1> DEFINE c == CountedAttempt(st)
           all == [states EXCEPT ![s] = LockOut(c)]
<1>1. DOMAIN c = Fields /\ c.locked = st.locked
  BY CountKeeps
<1>2. SaveLockouts(all) \/ states' = [states EXCEPT ![s] = c]
  BY DEF FailedAttempt
<1>3. DOMAIN LockOut(c) = Fields /\ LockOut(c).locked = TRUE
  BY <1>1, LockOutGives
<1> HIDE DEF c
<1>4. CASE states' = [states EXCEPT ![s] = c]
  BY <1>1, <1>4 DEF Shaped
<1>5. CASE SaveLockouts(all)
  <2>1. DOMAIN all[u] = Fields /\ (all[u].locked = states[u].locked \/ all[u].locked = TRUE)
    BY <1>3 DEF Shaped
  <2> HIDE DEF all
  <2>2. states'[u] = ClearExpiredLockout(all[u])
    BY <1>5 DEF SaveLockouts
  <2>q. QED BY <2>1, <2>2, ClearKeeps
<1>q. QED BY <1>2, <1>4, <1>5

(* What VerifyUnlock opens has been given the code of its state, which is  *)
(* the last one, unused and in time, and is not locked out.                *)
LEMMA VerifyOpensEarned ==
  ASSUME LInv, CInv, VerifyUnlock, NEW u \in Sessions, states[u].locked, ~states'[u].locked
  PROVE  Earned(u)
<1> DEFINE s == loop.session
           st == Current(s)
           tried == IF now >= st.codeExpiry THEN [st EXCEPT !.code = None] ELSE st
<1>1. s \in Sessions /\ Shaped
  BY DEF LInv, LoopHasSession, VerifyUnlock, Handling
<1>2. \/ states' = [states EXCEPT ![s] = st]
      \/ /\ ~st.lockedOut /\ st.code # None /\ ~(now >= st.codeExpiry)
         /\ loop.msg.code = st.code
         /\ states' = [states EXCEPT ![s] = Opened(st)]
      \/ FailedAttempt(s, tried)
  BY DEF VerifyUnlock
<1>3. CASE states' = [states EXCEPT ![s] = st]
  BY <1>1, <1>3, CurrentKeeps DEF Shaped
<1>4. CASE /\ ~st.lockedOut /\ st.code # None /\ ~(now >= st.codeExpiry)
           /\ loop.msg.code = st.code
           /\ states' = [states EXCEPT ![s] = Opened(st)]
  <2>1. u = s
    BY <1>1, <1>4 DEF Shaped
  <2>2. /\ st.code = states[s].code /\ st.codeExpiry = states[s].codeExpiry
        /\ IsLast(states[s].code, s)
        /\ states[s].codeExpiry = codes[states[s].code].made + OTAExpiry
    BY <1>1, <1>4, CurrentKeeps DEF CInv, CodesAreLast
  <2>3. loop.msg.code = states[s].code
    BY <1>4, <2>2
  <2>4. now >= promised[s]
    BY <1>1, <1>4, CurrentKeeps DEF LInv, Times
  <2>5. boot \in Nat /\ Len(codes) \in Nat /\ codes \in Seq([session: Sessions, made: Nat])
    BY DEF CInv, CodeKinds
  <2>6. now < codes[states[s].code].made + OTAExpiry
    <3>1. states[s].code \in 1..Len(codes)
      BY <2>2, <2>5 DEF IsLast
    <3>2. codes[states[s].code].made \in Nat
      <4> DEFINE c == states[s].code
      <4>1. c \in 1..Len(codes)
        BY <3>1
      <4> HIDE DEF c
      <4>2. codes[c] \in [session: Sessions, made: Nat]
        BY <2>5, <4>1, ElementOfSeq
      <4>3. codes[c].made \in Nat
        BY <4>2
      <4>q. QED BY <4>3 DEF c
    <3>3. OTAExpiry \in Nat
      BY LockAssumption
    <3>4. now \in Nat
      BY DEF LInv, Times
    <3> DEFINE expiry == codes[states[s].code].made + OTAExpiry
    <3>5. expiry \in Nat /\ ~(now >= expiry)
      BY <1>4, <2>2, <3>2, <3>3
    <3>q. QED BY <3>4, <3>5
  <2>7. IsGood(states[s].code, s)
    BY <2>2, <2>5, <2>6 DEF IsGood, IsLast
  <2>q. QED BY <2>1, <2>3, <2>4, <2>7 DEF Earned
<1>5. CASE FailedAttempt(s, tried)
  <2>1. DOMAIN tried = Fields /\ tried.locked = states[s].locked
    BY <1>1, CurrentKeeps, FieldsAre
  <2> HIDE DEF tried
  <2>q. QED BY <1>1, <1>5, <2>1, FailedDoesNotOpen
<1>q. QED BY <1>2, <1>3, <1>4, <1>5

(* A conversation is opened only by the last code made for it, in this     *)
(* process, in time, once, and never during a lockout that was written.    *)
THEOREM UnlocksAreEarned == Spec => UnlockIsEarned
<1>1. Init => RestartsCounted
  BY DEF Init, RestartsCounted
<1>2. RestartsCounted /\ [Next]_vars => RestartsCounted'
  BY DEF RestartsCounted, Next, IsLocked, Lock, RequestUnlock, VerifyUnlock, RecordActivity,
         Restart, ClockTicks, vars
<1>3. RestartsCounted /\ Restart => restarts' # restarts
  BY DEF RestartsCounted, Restart
<1>4. LInv /\ CInv /\ RestartsCounted /\ [Next]_vars => [EarnedStep]_vars
  <2> SUFFICES ASSUME LInv, CInv, RestartsCounted, [Next]_vars,
                      NEW s \in Sessions, Opens(s)
               PROVE  Earned(s)
    BY DEF EarnedStep, Earned
  <2>1. states[s].locked /\ ~states'[s].locked /\ restarts' = restarts
    BY DEF Opens
  <2>2. CASE VerifyUnlock
    BY <2>1, <2>2, VerifyOpensEarned
  <2>3. CASE Restart
    BY <1>3, <2>1, <2>3
  <2>q. QED BY <2>1, <2>2, <2>3, OthersDoNotOpen DEF Next
<1>5. Spec => [](LInv /\ CInv /\ RestartsCounted)
  BY <1>1, <1>2, InitLInv, NextLInv, InitCInv, NextCInv, PTL DEF Spec
<1>6. Spec => [][EarnedStep]_vars
  BY <1>4, <1>5, PTL DEF Spec
<1>q. QED BY <1>6, PTL DEF EarnedStep, UnlockIsEarned
--------------------------------------------------------------------------------
(* The gateway's loop *)

GSpec == GInit /\ [][GNext]_gvars

(* What the lock sees of a text is one of its messages, and an unlocking   *)
(* one only for /unlock.                                                   *)
LEMMA LockSees ==
  ASSUME NEW t \in Texts, NEW m \in LockMessages(t)
  PROVE  m \in Messages /\ (IsUnlockCommand(m) => t.name = "unlock")
<1>1. CASE t.name = "lock"
  BY <1>1 DEF LockMessages, Messages, IsUnlockCommand
<1>2. CASE t.name = "unlock" /\ t.arg = "none"
  BY <1>2 DEF LockMessages, Messages, IsUnlockCommand
<1>3. CASE t.name = "unlock" /\ t.arg = "code"
  BY <1>3 DEF LockMessages, Messages, IsUnlockCommand
<1>4. CASE t.name = "unlock" /\ t.arg = "more"
  BY <1>4 DEF LockMessages, Messages, IsUnlockCommand
<1>5. CASE ~(t.name = "lock" \/ (t.name = "unlock" /\ t.arg \in {"none", "code", "more"}))
  BY <1>5 DEF LockMessages, Messages, IsUnlockCommand
<1>q. QED BY <1>1, <1>2, <1>3, <1>4, <1>5

(* Every step of the loop is one of the lock, or none. *)
LEMMA LoopCallsLock == [GNext]_gvars => [Next]_vars
<1> SUFFICES ASSUME [GNext]_gvars PROVE [Next]_vars
  OBVIOUS
<1>1. ASSUME NEW s \in Sessions, NEW t \in Texts, Take(s, t) PROVE [Next]_vars
  BY <1>1, LockSees DEF Take, Next
<1>2. CASE ExecuteLockCommand \/ Finish \/ GRestart \/ Tick
  BY <1>2 DEF ExecuteLockCommand, Finish, GRestart, Tick, Next
<1>3. CASE Execute \/ (\E s \in Sessions : Progress(s)) \/ UNCHANGED gvars
  BY <1>3 DEF Execute, Progress, gvars
<1>q. QED BY <1>1, <1>2, <1>3 DEF GNext

(* The gateway uses the lock as ConversationLock allows, so that what is   *)
(* proved of it holds in the gateway.                                      *)
THEOREM GatewayImplementsLock == GSpec => Spec
  BY LoopCallsLock, PTL DEF GSpec, Spec, GInit

(* Between the check and the call a conversation does not get locked: a    *)
(* text let through is of one that is open, or is an /unlock.              *)
GateInv ==
  /\ DOMAIN task = {"session", "text", "outcome"}
  /\ task.outcome = "open" /\ loop.step = "record" =>
       /\ task.session \in Sessions
       /\ ~states[task.session].locked \/ task.text.name = "unlock"

(* The invariant holds before the first message. *)
LEMMA InitGateInv == GInit => GateInv
  BY DEF GInit, GateInv, Idle

(* A message is let through by the check. *)
LEMMA TakeStep ==
  ASSUME LInv, GateInv, NEW s \in Sessions, NEW t \in Texts, Take(s, t)
  PROVE  GateInv'
<1>1. CASE Blocked(t) /\ task' = [session |-> s, text |-> t, outcome |-> "blocked"]
  BY <1>1 DEF GateInv
<1>2. ASSUME NEW m \in LockMessages(t), IsLocked(s, m),
             task' = [session |-> s, text |-> t,
                      outcome |-> IF loop' = loop THEN "locked" ELSE "open"]
      PROVE  GateInv'
  <2>1. CASE loop' = loop
    BY <1>2, <2>1 DEF GateInv
  <2>2. CASE loop' # loop
    <3> DEFINE locked == Current(s).locked \/ ShouldAutoLock(Current(s))
               st == [Current(s) EXCEPT !.locked = locked]
    <3>1. states' = [states EXCEPT ![s] = st] /\ (~locked \/ IsUnlockCommand(m))
      BY <1>2, <2>2 DEF IsLocked
    <3>2. st.locked = locked
      BY CurrentKeeps, FieldsAre
    <3>3. states'[s] = st
      BY <3>1 DEF LInv, Shaped
    <3> HIDE DEF locked, st
    <3>4. ~states'[s].locked \/ t.name = "unlock"
      BY <3>1, <3>2, <3>3, LockSees
    <3>q. QED BY <1>2, <3>4 DEF GateInv
  <2>q. QED BY <2>1, <2>2
<1>q. QED BY <1>1, <1>2 DEF Take

(* No other step lets a message through, and none locks the conversation   *)
(* of one that has been.                                                   *)
LEMMA GateStep == LInv /\ GateInv /\ [GNext]_gvars => GateInv'
<1> SUFFICES ASSUME LInv, GateInv, [GNext]_gvars PROVE GateInv'
  OBVIOUS
<1>1. CASE ExecuteLockCommand
  BY <1>1 DEF ExecuteLockCommand, GateInv
<1>2. CASE Execute
  BY <1>2 DEF Execute, HandledAs, GateInv
<1>3. CASE Finish
  BY <1>3 DEF Finish, RecordActivity, IdleLoop, GateInv
<1>4. CASE GRestart
  BY <1>4 DEF GRestart, Idle, GateInv
<1>5. CASE Tick \/ (\E s \in Sessions : Progress(s)) \/ UNCHANGED gvars
  BY <1>5 DEF Tick, ClockTicks, gatewayVars, Progress, gvars, vars, GateInv
<1>q. QED BY <1>1, <1>2, <1>3, <1>4, <1>5, TakeStep DEF GNext

GateHolds ==
  task.outcome = "open" /\ task'.outcome \in {"agent", "done"}
    => ~states[task.session].locked

(* Only Execute calls the agent or a command with an effect, and it does   *)
(* not take an /unlock for one.                                            *)
LEMMA GateStepHolds == GateInv /\ [GNext]_gvars => [GateHolds]_gvars
<1> SUFFICES ASSUME GateInv, GNext, task.outcome = "open", task'.outcome \in {"agent", "done"}
             PROVE  ~states[task.session].locked
  BY DEF GateHolds
<1>1. Execute
  <2>1. ASSUME NEW s \in Sessions, NEW t \in Texts, Take(s, t) PROVE FALSE
    BY <2>1 DEF Take
  <2>2. ~ExecuteLockCommand
    BY DEF ExecuteLockCommand, GateInv
  <2>3. ~(Finish \/ GRestart \/ Tick \/ \E s \in Sessions : Progress(s))
    BY DEF Finish, GRestart, Tick, Progress, Idle, gatewayVars
  <2>q. QED BY <2>1, <2>2, <2>3 DEF GNext
<1>2. task.text.name # "unlock"
  BY <1>1 DEF Execute, Passthrough, HandledAs, GateInv
<1>q. QED BY <1>1, <1>2 DEF Execute, GateInv

(* A message of a locked conversation reaches neither the agent nor a      *)
(* command that does anything but lock and unlock.                         *)
THEOREM LockedIsShutOut == GSpec => LockedReachesNothing
<1>1. GSpec => []LInv
  BY GatewayImplementsLock, InitLInv, NextLInv, PTL DEF Spec
<1>2. GSpec => []GateInv
  BY <1>1, InitGateInv, GateStep, PTL DEF GSpec
<1>3. GSpec => [][GateHolds]_gvars
  BY <1>2, GateStepHolds, PTL DEF GSpec
<1>q. QED BY <1>3, PTL DEF GateHolds, LockedReachesNothing
--------------------------------------------------------------------------------------
(* The types, and the limit of wrong codes.  It is not inductive: what is  *)
(* needed is that a conversation that is not locked out has an attempt     *)
(* left, which holds because the last one locks out in the same step.      *)

(* A record's fields have their types, and a conversation that is not      *)
(* locked out has an attempt left.                                         *)
Sound(st) ==
  /\ st \in SessionStates
  /\ st.attempts <= MaxAttempts
  /\ st.lockedOut \/ st.attempts < MaxAttempts

LockTypes == TypeOK /\ \A s \in Sessions : Sound(states[s])

(* What the helpers make of a record is sound again. *)
LEMMA UnknownIsSound == Sound(Unknown)
  BY LockAssumption DEF Sound, SessionStates, Unknown, None

(* ensure fills in times.                                                  *)
LEMMA EnsureIsSound ==
  ASSUME NEW st, Sound(st), now \in Nat PROVE Sound(Ensure(st))
<1>1. Ensure(st) \in SessionStates
  BY DEF Ensure, Sound, SessionStates
<1>2. Ensure(st).attempts = st.attempts /\ Ensure(st).lockedOut = st.lockedOut
  BY DEF Ensure, Sound, SessionStates
<1>q. QED BY <1>1, <1>2 DEF Sound

(* A lockout that has run out gives all attempts back.                     *)
LEMMA ClearIsSound ==
  ASSUME NEW st, Sound(st) PROVE Sound(ClearExpiredLockout(st))
<1>1. ClearExpiredLockout(st) \in SessionStates
  BY DEF ClearExpiredLockout, Sound, SessionStates, None
<1>q. QED BY <1>1, LockAssumption DEF Sound, SessionStates, ClearExpiredLockout

(* What every operation begins with.                                       *)
LEMMA CurrentIsSound ==
  ASSUME LockTypes, NEW s \in Sessions PROVE Sound(Current(s))
  BY EnsureIsSound, ClearIsSound DEF Current, LockTypes, TypeOK

(* Locking and unlocking.                                                  *)
LEMMA LockingIsSound ==
  ASSUME NEW st, Sound(st), NEW b \in BOOLEAN PROVE Sound([st EXCEPT !.locked = b])
<1>1. [st EXCEPT !.locked = b] \in SessionStates
  BY DEF Sound, SessionStates
<1>q. QED BY <1>1 DEF Sound, SessionStates

(* A code is made.                                                         *)
LEMMA CodeIsSound ==
  ASSUME NEW st, Sound(st), NEW c \in Nat, NEW x \in Nat
  PROVE  Sound([st EXCEPT !.locked = TRUE, !.code = c, !.codeExpiry = x])
<1>1. [st EXCEPT !.locked = TRUE, !.code = c, !.codeExpiry = x] \in SessionStates
  BY DEF Sound, SessionStates
<1>q. QED BY <1>1 DEF Sound, SessionStates

(* A code that has run out is forgotten.                                   *)
LEMMA TriedIsSound ==
  ASSUME NEW st, Sound(st) PROVE Sound([st EXCEPT !.code = None])
<1>1. [st EXCEPT !.code = None] \in SessionStates
  BY DEF Sound, SessionStates, None
<1>q. QED BY <1>1 DEF Sound, SessionStates

(* A conversation is opened.                                               *)
LEMMA OpenedIsSound ==
  ASSUME NEW st, Sound(st), now \in Nat PROVE Sound(Opened(st))
<1>1. Opened(st) \in SessionStates
  BY DEF Opened, Sound, SessionStates, None
<1>q. QED BY <1>1, LockAssumption DEF Opened, Sound, SessionStates

(* The time of the last message.                                           *)
LEMMA ActivityIsSound ==
  ASSUME NEW st, Sound(st), now \in Nat PROVE Sound([st EXCEPT !.lastActivity = now])
<1>1. [st EXCEPT !.lastActivity = now] \in SessionStates
  BY DEF Sound, SessionStates
<1>q. QED BY <1>1 DEF Sound, SessionStates

(* The count stops at the limit, because reaching it locks out. *)
LEMMA CountIsBounded ==
  ASSUME NEW st, Sound(st), ~st.lockedOut, now \in Nat
  PROVE  /\ CountedAttempt(st) \in SessionStates
         /\ CountedAttempt(st).attempts <= MaxAttempts
         /\ ~TooMany(CountedAttempt(st)) => Sound(CountedAttempt(st))
         /\ Sound(LockOut(CountedAttempt(st)))
<1> DEFINE c == CountedAttempt(st)
<1>0. st.attempts \in Nat /\ st.attempts + 1 \in Nat
  BY DEF Sound, SessionStates
<1>1. c \in SessionStates
  <2>1. [st EXCEPT !.attempts = 1, !.firstAttempt = now] \in SessionStates
    BY DEF Sound, SessionStates
  <2>2. [st EXCEPT !.attempts = st.attempts + 1] \in SessionStates
    BY <1>0 DEF Sound, SessionStates
  <2>q. QED BY <2>1, <2>2 DEF CountedAttempt
<1>2. c.attempts <= MaxAttempts
  BY LockAssumption DEF CountedAttempt, Sound, SessionStates
<1> HIDE DEF c
<1>3. c.attempts \in Nat /\ MaxAttempts \in Nat
  BY <1>1, LockAssumption DEF SessionStates
<1>4. ~TooMany(c) => Sound(c)
  BY <1>1, <1>2, <1>3 DEF TooMany, Sound
<1>5. now + LockoutDuration \in Nat
  BY LockAssumption
<1>6. LockOut(c) \in SessionStates
  BY <1>1, <1>5 DEF LockOut, SessionStates, None
<1>7. LockOut(c).attempts = c.attempts /\ LockOut(c).lockedOut = TRUE
  BY <1>1 DEF LockOut, SessionStates
<1>8. Sound(LockOut(c))
  BY <1>2, <1>6, <1>7 DEF Sound
<1>q. QED BY <1>1, <1>2, <1>4, <1>8 DEF c

(* A step that writes one conversation's record, and nothing else of it. *)
LEMMA OneRecord ==
  ASSUME LockTypes, NEW s \in Sessions, NEW st, Sound(st),
         states' = [states EXCEPT ![s] = st]
  PROVE  /\ states' \in [Sessions -> SessionStates]
         /\ \A u \in Sessions : Sound(states'[u])
<1>1. states \in [Sessions -> SessionStates] /\ \A u \in Sessions : Sound(states[u])
  BY DEF LockTypes, TypeOK
<1>2. st \in SessionStates
  BY DEF Sound
<1>q. QED BY <1>1, <1>2

(* What saving the lockouts makes of sound records. *)
LEMMA SavedAreSound ==
  ASSUME LockTypes, NEW all, \A u \in Sessions : Sound(all[u]), SaveLockouts(all)
  PROVE  /\ states' \in [Sessions -> SessionStates]
         /\ \A u \in Sessions : Sound(states'[u])
         /\ file' \in [Sessions -> Nat]
         /\ promised' \in [Sessions -> Nat]
<1>1. states' = [u \in Sessions |-> ClearExpiredLockout(all[u])]
  BY DEF SaveLockouts
<1>2. \A u \in Sessions : Sound(states'[u])
  BY <1>1, ClearIsSound
<1>3. states' \in [Sessions -> SessionStates]
  BY <1>1, <1>2 DEF Sound
<1>4. CASE UNCHANGED <<file, promised>>
  BY <1>2, <1>3, <1>4 DEF LockTypes, TypeOK
<1>5. CASE /\ file' = SavedLockouts(states')
           /\ promised' = [u \in Sessions |->
                             IF file'[u] > promised[u] THEN file'[u] ELSE promised[u]]
  <2>1. \A u \in Sessions : states'[u].lockedUntil \in Nat
    BY <1>3 DEF SessionStates
  <2>2. file' \in [Sessions -> Nat]
    BY <1>5, <2>1 DEF SavedLockouts, None
  <2>3. promised' \in [Sessions -> Nat]
    BY <1>5, <2>2 DEF LockTypes, TypeOK
  <2>q. QED BY <1>2, <1>3, <2>2, <2>3
<1>q. QED BY <1>4, <1>5 DEF SaveLockouts

(* A wrong code. *)
LEMMA FailedIsSound ==
  ASSUME LockTypes, NEW s \in Sessions, NEW st, Sound(st), ~st.lockedOut,
         FailedAttempt(s, st)
  PROVE  /\ states' \in [Sessions -> SessionStates]
         /\ \A u \in Sessions : Sound(states'[u])
         /\ file' \in [Sessions -> Nat]
         /\ promised' \in [Sessions -> Nat]
<1> DEFINE c == CountedAttempt(st)
<1>1. Sound(LockOut(c)) /\ (~TooMany(c) => Sound(c))
  BY CountIsBounded DEF LockTypes, TypeOK
<1>2. \/ SaveLockouts([states EXCEPT ![s] = LockOut(c)])
      \/ ~TooMany(c) /\ states' = [states EXCEPT ![s] = c] /\ UNCHANGED <<file, promised>>
  BY DEF FailedAttempt
<1> HIDE DEF c
<1>3. CASE SaveLockouts([states EXCEPT ![s] = LockOut(c)])
  <2>1. \A u \in Sessions : Sound([states EXCEPT ![s] = LockOut(c)][u])
    BY <1>1 DEF LockTypes, TypeOK
  <2>q. QED BY <1>3, <2>1, SavedAreSound
<1>4. CASE ~TooMany(c) /\ states' = [states EXCEPT ![s] = c] /\ UNCHANGED <<file, promised>>
  BY <1>1, <1>4, OneRecord DEF LockTypes, TypeOK
<1>q. QED BY <1>2, <1>3, <1>4

(* The loop holds a message of somebody, or of nobody. *)
LoopIsTyped ==
  loop \in [step: {"idle", "handle", "record"}, session: Sessions \union {Nobody},
           msg: Messages]

(* The loop waits for a message.                                           *)
LEMMA IdleIsTyped == IdleLoop \in [step: {"idle", "handle", "record"},
                                   session: Sessions \union {Nobody}, msg: Messages]
  BY DEF IdleLoop, Messages

(* The loop goes on with the same message.                                 *)
LEMMA LoopGoesOn ==
  ASSUME LoopIsTyped, loop' = [loop EXCEPT !.step = "record"] PROVE LoopIsTyped'
  BY DEF LoopIsTyped

(* The records of the others stay; what is left is each step's own. *)
LEMMA Together ==
  ASSUME LockTypes, now' \in Nat,
         states' \in [Sessions -> SessionStates], \A u \in Sessions : Sound(states'[u]),
         file' \in [Sessions -> Nat], promised' \in [Sessions -> Nat], LoopIsTyped',
         codes' \in Seq([session: Sessions, made: Nat]), used' \subseteq Nat, boot' \in Nat,
         restarts' \in Nat
  PROVE  LockTypes'
<1>1. \A u \in Sessions : states'[u].attempts <= MaxAttempts
  BY DEF Sound
<1>q. QED BY <1>1 DEF LockTypes, TypeOK, LoopIsTyped, Sound

(* The types are right at the start, and all attempts are left.            *)
LEMMA InitLockTypes == Init => LockTypes
<1> SUFFICES ASSUME Init PROVE LockTypes
  OBVIOUS
<1>1. \A s \in Sessions : states[s] = Unknown
  BY DEF Init
<1>2. \A s \in Sessions : Sound(states[s])
  BY <1>1, UnknownIsSound
<1>3. states \in [Sessions -> SessionStates]
  BY UnknownIsSound DEF Init, Sound
<1>4. file \in [Sessions -> Nat] /\ promised \in [Sessions -> Nat]
  BY DEF Init, None
<1>q. QED BY <1>2, <1>3, <1>4, IdleIsTyped DEF Init, LockTypes, TypeOK, Sound

(* The steps of the loop, each for the message it has taken.               *)
LEMMA IsLockedTypes ==
  ASSUME LockTypes, NEW s \in Sessions, NEW m \in Messages, IsLocked(s, m) PROVE LockTypes'
<1> DEFINE b == Current(s).locked \/ ShouldAutoLock(Current(s))
<1>1. states' = [states EXCEPT ![s] = [Current(s) EXCEPT !.locked = b]]
  BY DEF IsLocked
<1>2. b \in BOOLEAN
  BY DEF ShouldAutoLock
<1> HIDE DEF b
<1>3. Sound([Current(s) EXCEPT !.locked = b])
  BY <1>2, CurrentIsSound, LockingIsSound
<1>4. LoopIsTyped'
  BY DEF IsLocked, LoopIsTyped, LockTypes, TypeOK
<1>q. QED BY <1>1, <1>3, <1>4, OneRecord, Together DEF IsLocked, LockTypes, TypeOK

(* /lock.                                                                  *)
LEMMA LockStepTypes == ASSUME LockTypes, LInv, Lock PROVE LockTypes'
<1> DEFINE s == loop.session
<1>1. s \in Sessions
  BY DEF LInv, LoopHasSession, Lock, Handling
<1>2. states' = [states EXCEPT ![s] = [Ensure(states[s]) EXCEPT !.locked = TRUE]]
  BY DEF Lock
<1>3. Sound([Ensure(states[s]) EXCEPT !.locked = TRUE])
  BY <1>1, EnsureIsSound, LockingIsSound DEF LockTypes, TypeOK
<1>4. LoopIsTyped'
  BY LoopGoesOn DEF Lock, LoopIsTyped, LockTypes, TypeOK
<1> HIDE DEF s
<1>q. QED BY <1>1, <1>2, <1>3, <1>4, OneRecord, Together DEF Lock, LockTypes, TypeOK

(* /unlock without a code.                                                 *)
LEMMA RequestTypes == ASSUME LockTypes, LInv, RequestUnlock PROVE LockTypes'
<1> DEFINE s == loop.session
           st == [Current(s) EXCEPT !.locked = TRUE, !.code = Len(codes'),
                                    !.codeExpiry = now + OTAExpiry]
<1>1. s \in Sessions
  BY DEF LInv, LoopHasSession, RequestUnlock, Handling
<1>2. Sound(Current(s))
  BY <1>1, CurrentIsSound
<1>3. \/ states' = [states EXCEPT ![s] = Current(s)] /\ UNCHANGED codes
      \/ /\ codes' = Append(codes, [session |-> s, made |-> now])
         /\ states' = [states EXCEPT ![s] = st]
      \/ UNCHANGED <<states, codes>>
  BY DEF RequestUnlock
<1>4. codes' \in Seq([session: Sessions, made: Nat])
  <2> DEFINE Codes == [session: Sessions, made: Nat]
             e == [session |-> s, made |-> now]
  <2>1. e \in Codes /\ codes \in Seq(Codes)
    BY <1>1 DEF LockTypes, TypeOK
  <2>2. codes' = codes \/ codes' = Append(codes, e)
    BY <1>3
  <2> HIDE DEF Codes, e
  <2>3. codes' \in Seq(Codes)
    BY <2>1, <2>2
  <2>q. QED BY <2>3 DEF Codes
<1>5. Len(codes') \in Nat /\ now + OTAExpiry \in Nat
  BY <1>4, LockAssumption DEF LockTypes, TypeOK
<1>6. Sound(st)
  BY <1>2, <1>5, CodeIsSound
<1> HIDE DEF s, st
<1>7. states' \in [Sessions -> SessionStates] /\ \A u \in Sessions : Sound(states'[u])
  BY <1>1, <1>2, <1>3, <1>6, OneRecord DEF LockTypes, TypeOK
<1>8. LoopIsTyped'
  BY LoopGoesOn DEF RequestUnlock, LoopIsTyped, LockTypes, TypeOK
<1>q. QED BY <1>4, <1>7, <1>8, Together DEF RequestUnlock, LockTypes, TypeOK

(* /unlock with a code: the only step that counts attempts.                *)
LEMMA VerifyTypes == ASSUME LockTypes, LInv, VerifyUnlock PROVE LockTypes'
<1> DEFINE s == loop.session
           st == Current(s)
           tried == IF now >= st.codeExpiry THEN [st EXCEPT !.code = None] ELSE st
<1>1. s \in Sessions
  BY DEF LInv, LoopHasSession, VerifyUnlock, Handling
<1>2. Sound(st)
  BY <1>1, CurrentIsSound
<1>3. \/ states' = [states EXCEPT ![s] = st] /\ UNCHANGED <<file, promised, used>>
      \/ /\ states' = [states EXCEPT ![s] = Opened(st)] /\ UNCHANGED <<file, promised>>
         /\ used' = used \union {st.code}
      \/ ~st.lockedOut /\ FailedAttempt(s, tried) /\ UNCHANGED used
  BY DEF VerifyUnlock
<1>4. st.code \in Nat
  BY <1>2 DEF Sound, SessionStates
<1>5. used' \subseteq Nat
  BY <1>3, <1>4 DEF LockTypes, TypeOK
<1>6. Sound(Opened(st))
  BY <1>2, OpenedIsSound DEF LockTypes, TypeOK
<1>7. Sound(tried) /\ (~st.lockedOut => ~tried.lockedOut)
  BY <1>2, TriedIsSound DEF Sound, SessionStates
<1>8. LoopIsTyped'
  BY LoopGoesOn DEF VerifyUnlock, LoopIsTyped, LockTypes, TypeOK
<1> HIDE DEF s, st, tried
<1>9. /\ states' \in [Sessions -> SessionStates] /\ \A u \in Sessions : Sound(states'[u])
      /\ file' \in [Sessions -> Nat] /\ promised' \in [Sessions -> Nat]
  <2>1. CASE ~st.lockedOut /\ FailedAttempt(s, tried)
    BY <1>1, <1>7, <2>1, FailedIsSound
  <2>2. CASE /\ states' = [states EXCEPT ![s] = st] \/ states' = [states EXCEPT ![s] = Opened(st)]
             /\ UNCHANGED <<file, promised>>
    BY <1>1, <1>2, <1>6, <2>2, OneRecord DEF LockTypes, TypeOK
  <2>q. QED BY <1>3, <2>1, <2>2
<1>q. QED BY <1>5, <1>8, <1>9, Together DEF VerifyUnlock, LockTypes, TypeOK

(* RecordActivity.                                                         *)
LEMMA ActivityTypes == ASSUME LockTypes, LInv, RecordActivity PROVE LockTypes'
<1> DEFINE s == loop.session
           st == IF Current(s).locked THEN Current(s)
                 ELSE [Current(s) EXCEPT !.lastActivity = now]
<1>1. s \in Sessions
  BY DEF LInv, LoopHasSession, RecordActivity
<1>2. states' = [states EXCEPT ![s] = st]
  BY DEF RecordActivity
<1>3. Sound(st)
  BY <1>1, CurrentIsSound, ActivityIsSound DEF LockTypes, TypeOK
<1>4. LoopIsTyped'
  BY IdleIsTyped DEF RecordActivity, LoopIsTyped
<1> HIDE DEF s, st
<1>q. QED BY <1>1, <1>2, <1>3, <1>4, OneRecord, Together DEF RecordActivity, LockTypes, TypeOK

(* What is loaded from the file has all its attempts.                      *)
LEMMA RestartTypes == ASSUME LockTypes, Restart PROVE LockTypes'
<1>1. ASSUME NEW s \in Sessions PROVE Sound(LoadLockouts(s))
  <2>1. file[s] \in Nat /\ now \in Nat
    BY DEF LockTypes, TypeOK
  <2>2. LoadLockouts(s) \in SessionStates
    BY <2>1, UnknownIsSound DEF LoadLockouts, Unknown, SessionStates, None
  <2>3. LoadLockouts(s).attempts = 0
    BY DEF LoadLockouts, Unknown
  <2>q. QED BY <2>2, <2>3, LockAssumption DEF Sound
<1>2. states' = [s \in Sessions |-> LoadLockouts(s)]
  BY DEF Restart
<1>3. states' \in [Sessions -> SessionStates] /\ \A u \in Sessions : Sound(states'[u])
  BY <1>1, <1>2 DEF Sound
<1>4. LoopIsTyped'
  BY IdleIsTyped DEF Restart, LoopIsTyped
<1>5. Len(codes) \in Nat /\ restarts + 1 \in Nat
  BY DEF LockTypes, TypeOK
<1>q. QED BY <1>3, <1>4, <1>5, Together DEF Restart, LockTypes, TypeOK

(* Time goes on.                                                           *)
LEMMA TickTypes == ASSUME LockTypes, ClockTicks PROVE LockTypes'
  BY DEF ClockTicks, LockTypes, TypeOK, Sound

(* Every step of the lock keeps the types and the limit.                   *)
LEMMA NextLockTypes == LInv /\ LockTypes /\ [Next]_vars => LockTypes'
<1>1. LockTypes /\ UNCHANGED vars => LockTypes'
  BY DEF vars, LockTypes, TypeOK, Sound
<1>q. QED BY <1>1, IsLockedTypes, LockStepTypes, RequestTypes, VerifyTypes, ActivityTypes,
             RestartTypes, TickTypes DEF Next

(* The loop's message and the debug switch have their types as well. *)
TaskTypes ==
  /\ task \in [session: Sessions \union {Nobody}, text: Texts,
              outcome: {"none", "blocked", "locked", "open", "handled", "done", "agent"}]
  /\ debug \subseteq Sessions
  /\ report \in Sessions \union {Nobody}
  /\ task.outcome = "open" => task.session \in Sessions

(* The fields of the task that is none.                                    *)
LEMMA IdleTask == Idle.session = Nobody /\ Idle.outcome = "none" /\ Idle.text \in Texts
  BY DEF Idle, Texts, Names

(* No message has been taken.                                              *)
LEMMA InitTaskTypes == GInit => TaskTypes
  BY IdleTask DEF GInit, TaskTypes, Idle

(* Every step of the loop keeps the types of what it adds to the lock.     *)
LEMMA NextTaskTypes == TaskTypes /\ [GNext]_gvars => TaskTypes'
<1> SUFFICES ASSUME TaskTypes, [GNext]_gvars PROVE TaskTypes'
  OBVIOUS
<1> USE DEF TaskTypes
<1>1. ASSUME NEW s \in Sessions, NEW t \in Texts, Take(s, t) PROVE TaskTypes'
  <2>1. \E o \in {"blocked", "locked", "open"} : task' = [session |-> s, text |-> t, outcome |-> o]
    BY <1>1 DEF Take
  <2>q. QED BY <1>1, <2>1 DEF Take
<1>2. CASE ExecuteLockCommand
  <2>1. task' = [task EXCEPT !.outcome = "handled"] /\ UNCHANGED <<debug, report>>
    BY <1>2 DEF ExecuteLockCommand
  <2>q. QED BY <2>1
<1>3. CASE Execute
  <2>1. \E o \in {"agent", "done", "handled"} : task' = [task EXCEPT !.outcome = o]
    BY <1>3 DEF Execute, HandledAs
  <2>2. task.session \in Sessions
    BY <1>3 DEF Execute
  <2>3. debug' \subseteq Sessions
    <3>1. CASE UNCHANGED debug
      BY <3>1
    <3>2. CASE task.text.name = "debug" /\ SetDebug(task.session, task.text.arg)
      <4>1. task.text.arg \in {"none", "on", "off", "more"}
        BY <3>2 DEF Texts
      <4>q. QED BY <2>2, <3>2, <4>1 DEF SetDebug
    <3>q. QED BY <1>3, <3>1, <3>2 DEF Execute
  <2>q. QED BY <1>3, <2>1, <2>2, <2>3 DEF Execute
<1>4. CASE Finish
  BY <1>4 DEF Finish
<1>5. ASSUME NEW s \in Sessions, Progress(s) PROVE TaskTypes'
  BY <1>5 DEF Progress
<1>6. CASE GRestart
  BY <1>6, IdleTask DEF GRestart, Idle
<1>7. CASE Tick \/ UNCHANGED gvars
  BY <1>7 DEF Tick, gvars, gatewayVars
<1>q. QED BY <1>1, <1>2, <1>3, <1>4, <1>5, <1>6, <1>7 DEF GNext

(* The types of the lock, and the limit: however wrong codes, requests,    *)
(* lockouts that run out and restarts follow each other, no conversation   *)
(* ever has more wrong codes counted than allowed.                         *)
THEOREM AttemptsAreLimited == Spec => []TypeOK
<1>1. Spec => []LInv
  BY InitLInv, NextLInv, PTL DEF Spec
<1>2. LockTypes => TypeOK
  BY DEF LockTypes
<1>q. QED BY <1>1, <1>2, InitLockTypes, NextLockTypes, PTL DEF Spec

(* The types of the gateway's loop with the lock. *)
THEOREM GatewayTypesHold == GSpec => []GTypeOK
<1>1. GSpec => []TypeOK
  BY GatewayImplementsLock, AttemptsAreLimited, PTL
<1>2. GSpec => []TaskTypes
  BY InitTaskTypes, NextTaskTypes, PTL DEF GSpec
<1>3. TypeOK /\ TaskTypes => GTypeOK
  BY DEF GTypeOK, TaskTypes
<1>q. QED BY <1>1, <1>2, <1>3, PTL
================================================================================
