----------------------------- MODULE ConversationLock -----------------------------
(***************************************************************************)
(* internal/conversationlock/manager.go and its use in the gateway loop:   *)
(* conversations that lock themselves, unlock codes sent by mail, lockouts *)
(* after too many wrong codes, and the file that keeps lockouts across a   *)
(* restart.                                                                *)
(*                                                                         *)
(* The gateway loop handles one message at a time, but time goes on        *)
(* between its calls of the manager: IsLocked, the command, which may wait *)
(* for the mail to be sent, and RecordActivity are steps of their own.     *)
(* Codes are numbered in the order they are made; a user may type any code *)
(* ever made, or 0 for one that never was.  The feature is enabled.        *)
(*                                                                         *)
(* Bounds: MaxTime, MaxCodes (codes made), MaxRestarts.                    *)
(***************************************************************************)
EXTENDS Naturals, Sequences

CONSTANTS
  Sessions,         (* session keys                                          *)
  Nobody,           (* the session of no message                             *)
  StandbyTimeout,   (* StandbyTimeout; 0 switches it off                     *)
  GlobalTimeout,    (* GlobalTimeout; 0 switches it off                      *)
  OTAExpiry,        (* how long a code is good for                           *)
  MaxAttempts,      (* wrong codes until the lockout                         *)
  LockoutDuration,
  MaxTime, MaxCodes, MaxRestarts

ASSUME LockAssumption ==
  /\ Nobody \notin Sessions
  /\ {StandbyTimeout, GlobalTimeout} \subseteq Nat
  /\ {OTAExpiry, MaxAttempts, LockoutDuration} \subseteq Nat \ {0}
  /\ {MaxTime, MaxCodes, MaxRestarts} \subseteq Nat

None == 0

VARIABLES
  now,        (* the clock                                                   *)
  states,     (* states[s]: m.states                                         *)
  file,       (* file[s]: lockedUntil in the lockout file, or None           *)
  loop,       (* what the gateway loop is doing: the message and the step    *)
  codes,      (* codes[c]: the session code c was made for and when          *)
  used,       (* history: codes that have opened a conversation              *)
  boot,       (* history: codes made before the process started              *)
  promised,   (* history: the latest lockedUntil ever written for a session  *)
  restarts    (* restarts so far                                             *)

vars == <<now, states, file, loop, codes, used, boot, promised, restarts>>

(* "chat" stands for whatever is not a command of the lock, "usage" for an *)
(* /unlock with more than a code, which only explains itself.              *)
Messages ==
  [kind: {"chat", "usage", "lock", "request"}, code: {None}]
    \union [kind: {"verify"}, code: 0..MaxCodes]

IsUnlockCommand(m) == m.kind \in {"usage", "request", "verify"}

IdleLoop == [step |-> "idle", session |-> Nobody, msg |-> [kind |-> "chat", code |-> None]]

(* Records of the map m.states; a session not in the map has known FALSE. *)
Unknown ==
  [known |-> FALSE, locked |-> FALSE, lastActivity |-> 0, lastUnlock |-> 0,
   code |-> None, codeExpiry |-> 0, attempts |-> 0, firstAttempt |-> 0,
   lockedOut |-> FALSE, lockedUntil |-> 0]
--------------------------------------------------------------------------------
(* The manager's helpers *)

Ensure(st) ==
  IF st.known THEN st
  ELSE [st EXCEPT !.known = TRUE, !.lastActivity = now, !.lastUnlock = now]

ClearExpiredLockout(st) ==
  IF ~st.lockedOut \/ now < st.lockedUntil THEN st
  ELSE [st EXCEPT !.lockedOut = FALSE, !.lockedUntil = 0, !.attempts = 0,
                  !.firstAttempt = 0, !.code = None, !.codeExpiry = 0]

(* What every operation begins with. *)
Current(s) == ClearExpiredLockout(Ensure(states[s]))

ShouldAutoLock(st) ==
  \/ st.lockedOut
  \/ /\ ~st.locked
     /\ \/ StandbyTimeout > 0 /\ now >= st.lastActivity + StandbyTimeout
        \/ GlobalTimeout > 0 /\ now >= st.lastUnlock + GlobalTimeout

(* One more wrong code.  FirstAttempt opens a window of LockoutDuration;   *)
(* attempts of an older window do not count.                               *)
CountedAttempt(st) ==
  IF st.attempts = 0 \/ now >= st.firstAttempt + LockoutDuration
  THEN [st EXCEPT !.attempts = 1, !.firstAttempt = now]
  ELSE [st EXCEPT !.attempts = @ + 1]

LockOut(st) ==
  [st EXCEPT !.locked = TRUE, !.lockedOut = TRUE, !.code = None, !.codeExpiry = 0,
             !.lockedUntil = now + LockoutDuration]

TooMany_OffByOne(st) == st.attempts > MaxAttempts

TooMany(st) == st.attempts >= MaxAttempts

SavedLockouts_OnlyNew(all) ==
  [u \in Sessions |->
    IF all[u].lockedOut /\ ~states[u].lockedOut THEN all[u].lockedUntil ELSE None]

SavedLockouts(all) ==
  [u \in Sessions |-> IF all[u].lockedOut THEN all[u].lockedUntil ELSE None]

(* saveLockouts ends lockouts that have run out on its way, and a failure  *)
(* to write the file is ignored.                                           *)
SaveLockouts(all) ==
  /\ states' = [u \in Sessions |-> ClearExpiredLockout(all[u])]
  /\ \/ /\ file' = SavedLockouts(states')
        /\ promised' = [u \in Sessions |->
                          IF file'[u] > promised[u] THEN file'[u] ELSE promised[u]]
     \/ UNCHANGED <<file, promised>>

FailedAttempt(s, st) ==
  LET counted == CountedAttempt(st) IN
  \/ /\ TooMany(counted)
     /\ SaveLockouts([states EXCEPT ![s] = LockOut(counted)])
  \/ /\ ~TooMany(counted)
     /\ states' = [states EXCEPT ![s] = counted]
     /\ UNCHANGED <<file, promised>>
--------------------------------------------------------------------------------
Init ==
  /\ now = 0
  /\ states = [s \in Sessions |-> Unknown]
  /\ file = [s \in Sessions |-> None]
  /\ loop = IdleLoop
  /\ codes = <<>>
  /\ used = {}
  /\ boot = 0
  /\ promised = [s \in Sessions |-> None]
  /\ restarts = 0

Handling(kind) == loop.step = "handle" /\ loop.msg.kind = kind

(* A message arrives and IsLocked decides whether it is handled. *)
IsLocked(s, m) ==
  LET st == Current(s)
      locked == st.locked \/ ShouldAutoLock(st)
  IN
  /\ loop.step = "idle"
  /\ m.code <= Len(codes)
  /\ states' = [states EXCEPT ![s] = [st EXCEPT !.locked = locked]]
  /\ \/ locked /\ ~IsUnlockCommand(m) /\ UNCHANGED loop
     \/ /\ ~locked \/ IsUnlockCommand(m)
        /\ loop' = [step |-> IF m.kind \in {"chat", "usage"} THEN "record" ELSE "handle",
                    session |-> s, msg |-> m]
  /\ UNCHANGED <<now, file, codes, used, boot, promised, restarts>>

Lock ==
  LET s == loop.session IN
  /\ Handling("lock")
  /\ states' = [states EXCEPT ![s] = [Ensure(@) EXCEPT !.locked = TRUE]]
  /\ loop' = [loop EXCEPT !.step = "record"]
  /\ UNCHANGED <<now, file, codes, used, boot, promised, restarts>>

(* The code is made first, whether it is needed or not.  Sending it, which *)
(* may fail, changes nothing here.                                         *)
RequestUnlock ==
  LET s == loop.session
      st == Current(s)
  IN
  /\ Handling("request")
  /\ \/ /\ st.lockedOut \/ ~(st.locked \/ ShouldAutoLock(st))
        /\ states' = [states EXCEPT ![s] = st]
        /\ UNCHANGED codes
     \/ /\ ~st.lockedOut
        /\ st.locked \/ ShouldAutoLock(st)
        /\ Len(codes) < MaxCodes
        /\ codes' = Append(codes, [session |-> s, made |-> now])
        /\ states' = [states EXCEPT ![s] =
                       [st EXCEPT !.locked = TRUE, !.code = Len(codes'),
                                  !.codeExpiry = now + OTAExpiry]]
     \/ UNCHANGED <<states, codes>>  \* no address, no sender or no random number
  /\ loop' = [loop EXCEPT !.step = "record"]
  /\ UNCHANGED <<now, file, used, boot, promised, restarts>>

Opened_KeepsCode(st) ==
  [st EXCEPT !.locked = FALSE, !.lastActivity = now, !.lastUnlock = now,
             !.attempts = 0, !.firstAttempt = 0]

Opened(st) ==
  [st EXCEPT !.locked = FALSE, !.lastActivity = now, !.lastUnlock = now,
             !.code = None, !.codeExpiry = 0, !.attempts = 0, !.firstAttempt = 0]

VerifyUnlock ==
  LET s == loop.session
      st == Current(s)
      expired == now >= st.codeExpiry
      right == st.code # None /\ ~expired /\ loop.msg.code = st.code
  IN
  /\ Handling("verify")
  /\ \/ /\ st.lockedOut \/ ~(st.locked \/ ShouldAutoLock(st))
        /\ states' = [states EXCEPT ![s] = st]
        /\ UNCHANGED <<file, promised, used>>
     \/ /\ ~st.lockedOut
        /\ st.locked \/ ShouldAutoLock(st)
        /\ right
        /\ states' = [states EXCEPT ![s] = Opened(st)]
        /\ used' = used \union {st.code}
        /\ UNCHANGED <<file, promised>>
     \/ /\ ~st.lockedOut
        /\ st.locked \/ ShouldAutoLock(st)
        /\ ~right
        /\ FailedAttempt(s, IF expired THEN [st EXCEPT !.code = None] ELSE st)
        /\ UNCHANGED used
  /\ loop' = [loop EXCEPT !.step = "record"]
  /\ UNCHANGED <<now, codes, boot, restarts>>

(* A chat message goes to the agent after this. *)
RecordActivity ==
  LET s == loop.session
      st == Current(s)
  IN
  /\ loop.step = "record"
  /\ states' = [states EXCEPT ![s] =
                 IF st.locked THEN st ELSE [st EXCEPT !.lastActivity = now]]
  /\ loop' = IdleLoop
  /\ UNCHANGED <<now, file, codes, used, boot, promised, restarts>>

LoadLockouts(s) ==
  IF file[s] = None \/ now >= file[s] THEN Unknown
  ELSE [Unknown EXCEPT !.known = TRUE, !.locked = TRUE, !.lockedOut = TRUE,
                       !.lockedUntil = file[s], !.lastActivity = now,
                       !.lastUnlock = now]

(* The process ends at any point and NewManager reads the file. *)
Restart ==
  /\ restarts < MaxRestarts
  /\ restarts' = restarts + 1
  /\ states' = [s \in Sessions |-> LoadLockouts(s)]
  /\ loop' = IdleLoop
  /\ boot' = Len(codes)
  /\ UNCHANGED <<now, file, codes, used, promised>>

ClockTicks ==
  /\ now < MaxTime
  /\ now' = now + 1
  /\ UNCHANGED <<states, file, loop, codes, used, boot, promised, restarts>>

Next ==
  \/ \E s \in Sessions, m \in Messages : IsLocked(s, m)
  \/ Lock
  \/ RequestUnlock
  \/ VerifyUnlock
  \/ RecordActivity
  \/ Restart
  \/ ClockTicks

Spec == Init /\ [][Next]_vars
--------------------------------------------------------------------------------
SessionStates ==
  [known: BOOLEAN, locked: BOOLEAN, lastActivity: Nat, lastUnlock: Nat, code: Nat,
   codeExpiry: Nat, attempts: Nat, firstAttempt: Nat, lockedOut: BOOLEAN,
   lockedUntil: Nat]

TypeOK ==
  /\ now \in Nat
  /\ states \in [Sessions -> SessionStates]
  /\ \A s \in Sessions : states[s].attempts <= MaxAttempts
  /\ file \in [Sessions -> Nat]
  /\ loop \in [step: {"idle", "handle", "record"}, session: Sessions \union {Nobody},
              msg: Messages]
  /\ codes \in Seq([session: Sessions, made: Nat])
  /\ used \subseteq Nat
  /\ boot \in Nat
  /\ promised \in [Sessions -> Nat]
  /\ restarts \in Nat

(* A conversation is opened only by the last code made for it, in this     *)
(* process, within its time, once, and never during a lockout: whatever    *)
(* requests, wrong codes, restarts and waiting came before.                *)
Opens(s) == states[s].locked /\ ~states'[s].locked /\ restarts' = restarts

IsGood(c, s) ==
  /\ c \in (boot + 1)..Len(codes)
  /\ codes[c].session = s
  /\ \A d \in (c + 1)..Len(codes) : codes[d].session # s
  /\ now < codes[c].made + OTAExpiry
  /\ c \notin used

UnlockIsEarned ==
  [][\A s \in Sessions :
       Opens(s) => /\ loop.session = s
                   /\ IsGood(loop.msg.code, s)
                   /\ now >= promised[s]]_vars

(* A lockout that has been written keeps its conversation locked until it  *)
(* runs out, across restarts, and when other conversations are locked out  *)
(* and the file is written for them.                                       *)
LockoutSurvives ==
  \A s \in Sessions :
    now < promised[s] =>
      /\ states[s].locked
      /\ states[s].lockedOut
      /\ states[s].lockedUntil >= promised[s]
================================================================================
