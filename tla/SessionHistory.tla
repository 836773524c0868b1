----------------------------- MODULE SessionHistory -----------------------------
(***************************************************************************)
(* internal/agent/sqlite_memory.go and the parts of session.go that use    *)
(* it: where the messages of one conversation are kept.                    *)
(*                                                                         *)
(* Messages are rows under a backing key.  A conversation begins under its *)
(* stable key 0; when it grows too long, a turn hands it off: the summary  *)
(* becomes the first row of a new key, lineage and head are written, and   *)
(* the Session's agent and memory are exchanged.  /clear deletes the rows  *)
(* of all keys of the lineage.  Each SQL statement is a step of its own;   *)
(* with StoreFails it may fail, and it fails when its context is done.     *)
(*                                                                         *)
(* A message is represented by the inputs it tells of: the input of turn t *)
(* by {t}, a summary by the union of what it sums up.  The agent is        *)
(* external: a run stores the input, then answers, fails or overflows.     *)
(* Which turns startTurn and stopTurn cancel is taken from SessionTurns:   *)
(* all unfinished turns of the Session.  The session TTL is 30 days, so    *)
(* eviction meets idle Sessions.  Summaries are enabled.                   *)
(*                                                                         *)
(* Bounds: NumTurns, MaxHandoffs (keys made), MaxClears, MaxRestarts,      *)
(* MaxEvictions.                                                           *)
(***************************************************************************)
EXTENDS Naturals, Sequences

CONSTANTS NumTurns, MaxHandoffs, MaxClears, MaxRestarts, MaxEvictions,
          StoreFails   (* may a statement fail although its context is alive? *)

ASSUME HistoryAssumption ==
  /\ {NumTurns, MaxHandoffs, MaxClears, MaxRestarts, MaxEvictions} \subseteq Nat
  /\ StoreFails \in BOOLEAN

Turns == 1..NumTurns
Keys == 0..MaxHandoffs
NoKey == MaxHandoffs + 1
None == 0

VARIABLES
  rows,        (* messages: rows[k] tells of these inputs                     *)
  head,        (* session_heads: the active key, or NoKey                     *)
  lineage,     (* session_lineage: backing keys                               *)
  mems,        (* SQLiteSessionMemory objects: key, messages, open handle     *)
  sess,        (* sess[o]: the memory (and agent) of Session object o         *)
  registered,  (* sm.sessions[key]                                            *)
  clear,       (* ClearHistory: the step, its memory, the keys to delete, and *)
               (* what they told of when it began                             *)
  pc,          (* pc[t]: where turn t's goroutine is                          *)
  local,       (* local[t]: its Session, memory, old memory, transcript, and  *)
               (* whether it is in the handoff before the run                 *)
  cancelled,   (* turns whose context is done                                 *)
  counts,      (* keys made, clears, restarts, evictions so far               *)
  answered,    (* history: turns answered by a Session that had not diverged  *)
  wiped,       (* history: inputs of which /clear has deleted rows            *)
  cleared,     (* history: inputs stored when a successful /clear began       *)
  ghost,       (* history: a turn began on a Session /clear was dropping or   *)
               (* had dropped                                                 *)
  diverged     (* history: since the Session was made a /clear failed, or a   *)
               (* turn began between SetHead and Swap of another one          *)

vars == <<rows, head, lineage, mems, sess, registered, clear, pc, local, cancelled,
          counts, answered, wiped, cleared, ghost, diverged>>

store == <<rows, head, lineage>>
objects == <<mems, sess, registered>>
history == <<answered, wiped, cleared, ghost, diverged>>

NoClear == [step |-> "none", mem |-> None, keys |-> {}, told |-> {}]
NoLocal == [obj |-> None, mem |-> None, old |-> None, text |-> {}, before |-> FALSE]

Goto(t, l) == pc' = [pc EXCEPT ![t] = l]
Done(t) ==
  /\ Goto(t, "done")
  /\ local' = [local EXCEPT ![t] = NoLocal]
Started(t) == pc[t] \notin {"new", "start", "done"}
TurnsOf(o) == {t \in Turns : Started(t) /\ local[t].obj = o}
MutexFree == clear.step = "none"

Closed(ms, m) == IF m = None THEN ms ELSE [ms EXCEPT ![m].open = FALSE]
(* May a statement of turn t on memory m get through? *)
Works(t, m) == mems[m].open /\ t \notin cancelled
Outcome(t, m, ok) == IF ok THEN Works(t, m) ELSE StoreFails \/ ~Works(t, m)
--------------------------------------------------------------------------------
Init ==
  /\ rows = [k \in Keys |-> {}]
  /\ head = NoKey
  /\ lineage = {}
  /\ mems = <<>>
  /\ sess = <<>>
  /\ registered = None
  /\ clear = NoClear
  /\ pc = [t \in Turns |-> "new"]
  /\ local = [t \in Turns |-> NoLocal]
  /\ cancelled = {}
  /\ counts = [keys |-> 0, clears |-> 0, restarts |-> 0, evictions |-> 0]
  /\ answered = {} /\ wiped = {} /\ cleared = {}
  /\ ghost = FALSE /\ diverged = FALSE

Resolve_StableOnly == 0

Resolve == IF head = NoKey THEN 0 ELSE head
--------------------------------------------------------------------------------
(* A turn up to its run *)

(* Turns are numbered in the order in which they ask for their Session.    *)
Arrives(t) == pc[t] = "new" /\ \A u \in Turns : u < t => pc[u] # "new"

Lookup(t) ==
  /\ Arrives(t)
  /\ MutexFree
  /\ registered # None
  /\ Goto(t, "start")
  /\ local' = [local EXCEPT ![t].obj = registered]
  /\ UNCHANGED <<store, objects, clear, cancelled, counts, history>>

(* All under sm.mu, with nobody else writing this conversation; a failure  *)
(* may come before the lineage row or after it.                            *)
Create(t) ==
  /\ Arrives(t)
  /\ MutexFree
  /\ registered = None
  /\ \/ /\ mems' = Append(mems, [key |-> Resolve, cache |-> rows[Resolve], open |-> TRUE])
        /\ sess' = Append(sess, Len(mems'))
        /\ registered' = Len(sess')
        /\ lineage' = lineage \union {Resolve}
        /\ Goto(t, "start")
        /\ local' = [local EXCEPT ![t].obj = registered']
        /\ diverged' = FALSE
     \/ /\ StoreFails
        /\ lineage' \in {lineage, lineage \union {Resolve}}
        /\ Done(t)
        /\ UNCHANGED <<objects, diverged>>
  /\ UNCHANGED <<rows, head, clear, cancelled, counts, answered, wiped, cleared,
                 ghost>>

StartTurn(t) ==
  LET o == local[t].obj IN
  /\ pc[t] = "start"
  /\ Goto(t, "decide")
  /\ cancelled' = cancelled \union TurnsOf(o)
  /\ ghost' = (ghost \/ registered # o \/ ~MutexFree)
  /\ diverged' = (diverged \/ \E u \in TurnsOf(o) : pc[u] = "swap")
  /\ UNCHANGED <<store, objects, clear, local, counts, answered, wiped, cleared>>

(* shouldSummarizeBeforeTurn: the number of tokens is left open. *)
Decide(t) ==
  /\ pc[t] = "decide"
  /\ \/ Goto(t, "run") /\ UNCHANGED local
     \/ Goto(t, "read") /\ local' = [local EXCEPT ![t].before = TRUE]
  /\ UNCHANGED <<store, objects, clear, cancelled, counts, history>>

AddMessage_CacheFirst(t, m, ok) ==
  /\ mems' = [mems EXCEPT ![m].cache = @ \union {t}]
  /\ IF ok THEN rows' = [rows EXCEPT ![mems[m].key] = @ \union {t}] ELSE UNCHANGED rows

(* The input of turn t goes to memory m: the row, then the cache. *)
AddMessage(t, m, ok) ==
  IF ok
  THEN /\ rows' = [rows EXCEPT ![mems[m].key] = @ \union {t}]
       /\ mems' = [mems EXCEPT ![m].cache = @ \union {t}]
  ELSE UNCHANGED <<rows, mems>>

(* runDetailedTurn reads s.agent, whose memory gets the input. *)
RunBegins(t, ok) ==
  LET m == sess[local[t].obj] IN
  /\ pc[t] = "run"
  /\ Outcome(t, m, ok)
  /\ AddMessage(t, m, ok)
  /\ IF ok THEN Goto(t, "think") /\ local' = [local EXCEPT ![t].mem = m]
           ELSE Done(t)
  /\ UNCHANGED <<head, lineage, sess, registered, clear, cancelled, counts, history>>

(* The answer is stored too, so it needs the memory.  A run that overflows *)
(* the context of the model is handed off.                                 *)
RunEnds(t) ==
  /\ pc[t] = "think"
  /\ \/ Works(t, local[t].mem) /\ Goto(t, "check") /\ UNCHANGED local
     \/ t \notin cancelled /\ Goto(t, "read") /\ local' = [local EXCEPT ![t].before = FALSE]
     \/ Done(t)
  /\ UNCHANGED <<store, objects, clear, cancelled, counts, history>>

(* turnCanceled, then the publish; a superseded turn is a cancelled one. *)
Answer(t) ==
  /\ pc[t] = "check"
  /\ answered' = IF t \in cancelled \/ diverged THEN answered ELSE answered \union {t}
  /\ Done(t)
  /\ UNCHANGED <<store, objects, clear, cancelled, counts, wiped, cleared, ghost,
                 diverged>>
--------------------------------------------------------------------------------
(* handoffToSummarySession.  When it fails before the run, the input is    *)
(* run all the same; after an overflow the turn has failed.                *)

HandoffFails(t) ==
  IF local[t].before
  THEN Goto(t, "run") /\ local' = [local EXCEPT ![t] = [NoLocal EXCEPT !.obj = local[t].obj]]
  ELSE Done(t)

(* The transcript is that of the memory's cache, closed or not. *)
ReadHistory(t) ==
  LET cache == mems[sess[local[t].obj]].cache IN
  /\ pc[t] = "read"
  /\ \/ cache # {} /\ Goto(t, "seed") /\ local' = [local EXCEPT ![t].text = cache]
     \/ cache = {} /\ HandoffFails(t)
  /\ UNCHANGED <<store, objects, clear, cancelled, counts, history>>

(* generateSummary, a memory of its own for the new key, its first row. *)
SeedSummary(t) ==
  LET k == counts.keys + 1 IN
  /\ pc[t] = "seed"
  /\ \/ /\ t \notin cancelled
        /\ k <= MaxHandoffs
        /\ counts' = [counts EXCEPT !.keys = k]
        /\ rows' = [rows EXCEPT ![k] = local[t].text]
        /\ mems' = Append(mems, [key |-> k, cache |-> local[t].text, open |-> TRUE])
        /\ local' = [local EXCEPT ![t].mem = Len(mems'), ![t].text = {}]
        /\ Goto(t, "stable")
     \/ HandoffFails(t) /\ UNCHANGED <<rows, mems, counts>>
  /\ UNCHANGED <<head, lineage, sess, registered, clear, cancelled, history>>

(* What an error between the seed and the exchange does. *)
DropSummary(t) ==
  /\ mems' = Closed(mems, local[t].mem)
  /\ HandoffFails(t)

(* buildSessionAgent, which may fail, and the first row of the lineage. *)
KeepStableKey(t) ==
  /\ pc[t] = "stable"
  /\ \/ /\ Works(t, local[t].mem)
        /\ lineage' = lineage \union {0}
        /\ Goto(t, "backing")
        /\ UNCHANGED <<mems, local>>
     \/ DropSummary(t) /\ UNCHANGED lineage
  /\ UNCHANGED <<rows, head, sess, registered, clear, cancelled, counts, history>>

KeepBackingKey_Skipped(t) ==
  /\ pc[t] = "backing"
  /\ Goto(t, "head")
  /\ UNCHANGED <<store, objects, clear, local, cancelled, counts, history>>

KeepBackingKey(t) ==
  /\ pc[t] = "backing"
  /\ \/ /\ Outcome(t, local[t].mem, TRUE)
        /\ lineage' = lineage \union {mems[local[t].mem].key}
        /\ Goto(t, "head")
        /\ UNCHANGED <<mems, local>>
     \/ Outcome(t, local[t].mem, FALSE) /\ DropSummary(t) /\ UNCHANGED lineage
  /\ UNCHANGED <<rows, head, sess, registered, clear, cancelled, counts, history>>

SetHead(t) ==
  /\ pc[t] = "head"
  /\ \/ /\ Outcome(t, local[t].mem, TRUE)
        /\ head' = mems[local[t].mem].key
        /\ Goto(t, "swap")
        /\ UNCHANGED <<mems, local>>
     \/ Outcome(t, local[t].mem, FALSE) /\ DropSummary(t) /\ UNCHANGED head
  /\ UNCHANGED <<rows, lineage, sess, registered, clear, cancelled, counts, history>>

Swap_Skipped(t) ==
  /\ pc[t] = "swap"
  /\ local' = [local EXCEPT ![t].old = sess[local[t].obj]]
  /\ Goto(t, "close")
  /\ UNCHANGED <<store, objects, clear, cancelled, counts, history>>

Swap(t) ==
  LET o == local[t].obj IN
  /\ pc[t] = "swap"
  /\ sess' = [sess EXCEPT ![o] = local[t].mem]
  /\ local' = [local EXCEPT ![t].old = sess[o]]
  /\ Goto(t, "close")
  /\ UNCHANGED <<store, mems, registered, clear, cancelled, counts, history>>

CloseOld(t) ==
  /\ pc[t] = "close"
  /\ mems' = Closed(mems, local[t].old)
  /\ Goto(t, "summaryRun")
  /\ UNCHANGED <<store, sess, registered, clear, local, cancelled, counts, history>>

(* The new agent runs the input.  After a handoff before the run the       *)
(* answer is published without asking turnCanceled; the publish itself     *)
(* fails when the turn is cancelled.                                       *)
SummaryRunBegins(t, ok) ==
  LET m == local[t].mem IN
  /\ pc[t] = "summaryRun"
  /\ Outcome(t, m, ok)
  /\ AddMessage(t, m, ok)
  /\ IF ok THEN Goto(t, "summaryThink") /\ UNCHANGED local ELSE HandoffFails(t)
  /\ UNCHANGED <<head, lineage, sess, registered, clear, cancelled, counts, history>>

SummaryRunEnds(t) ==
  /\ pc[t] = "summaryThink"
  /\ \/ Works(t, local[t].mem) /\ Goto(t, "check") /\ UNCHANGED local
     \/ HandoffFails(t)
  /\ UNCHANGED <<store, objects, clear, cancelled, counts, history>>
--------------------------------------------------------------------------------
(* ClearHistory, in the gateway loop, under sm.mu from end to end *)

ClearKeys_OnlyActive == {Resolve}

ClearKeys == IF lineage = {} THEN {0} ELSE lineage

(* stopTurn, then the keys; without a Session a memory of its own is used. *)
ClearBegins ==
  /\ MutexFree
  /\ counts.clears < MaxClears
  /\ counts' = [counts EXCEPT !.clears = @ + 1]
  /\ cancelled' = IF registered = None THEN cancelled
                  ELSE cancelled \union TurnsOf(registered)
  /\ clear' = [step |-> "rows", keys |-> ClearKeys,
               told |-> UNION {rows[k] : k \in ClearKeys},
               mem |-> IF registered = None THEN None ELSE sess[registered]]
  /\ UNCHANGED <<store, objects, pc, local, history>>

(* The handoff of a cancelled turn may close the memory meanwhile. *)
ClearWorks == clear.mem # None => mems[clear.mem].open

ClearRows ==
  /\ clear.step = "rows" /\ ClearWorks
  /\ \E k \in clear.keys :
       /\ rows' = [rows EXCEPT ![k] = {}]
       /\ wiped' = wiped \union rows[k]
       /\ clear' = [clear EXCEPT !.keys = @ \ {k}]
  /\ UNCHANGED <<head, lineage, objects, pc, local, cancelled, counts, answered,
                 cleared, ghost, diverged>>

ClearHead ==
  /\ clear.step = "rows" /\ clear.keys = {} /\ ClearWorks
  /\ head' = NoKey
  /\ clear' = [clear EXCEPT !.step = "lineage"]
  /\ UNCHANGED <<rows, lineage, objects, pc, local, cancelled, counts, history>>

ClearLineage ==
  /\ clear.step = "lineage" /\ ClearWorks
  /\ lineage' = {}
  /\ mems' = IF registered = None THEN mems ELSE Closed(mems, sess[registered])
  /\ registered' = None
  /\ clear' = NoClear
  /\ cleared' = cleared \union clear.told
  /\ UNCHANGED <<rows, head, sess, pc, local, cancelled, counts, answered, wiped,
                 ghost, diverged>>

ClearFails ==
  /\ ~MutexFree
  /\ StoreFails \/ ~ClearWorks
  /\ clear' = NoClear
  /\ diverged' = TRUE
  /\ UNCHANGED <<store, objects, pc, local, cancelled, counts, answered, wiped,
                 cleared, ghost>>
--------------------------------------------------------------------------------
(* The cleanup goroutine drops a Session nobody has used for the TTL. *)
Evict ==
  /\ MutexFree
  /\ registered # None
  /\ \A t \in Turns : local[t].obj # registered
  /\ counts.evictions < MaxEvictions
  /\ counts' = [counts EXCEPT !.evictions = @ + 1]
  /\ mems' = Closed(mems, sess[registered])
  /\ registered' = None
  /\ UNCHANGED <<store, sess, clear, pc, local, cancelled, history>>

(* The process ends at any point and starts again. *)
Restart ==
  /\ counts.restarts < MaxRestarts
  /\ counts' = [counts EXCEPT !.restarts = @ + 1]
  /\ mems' = <<>> /\ sess' = <<>> /\ registered' = None
  /\ clear' = NoClear
  /\ pc' = [t \in Turns |-> IF pc[t] = "new" THEN "new" ELSE "done"]
  /\ local' = [t \in Turns |-> NoLocal]
  /\ UNCHANGED <<store, cancelled, history>>

Idle ==
  /\ \A t \in Turns : pc[t] = "done"
  /\ UNCHANGED vars

TurnStep(t) ==
  \/ Lookup(t) \/ Create(t) \/ StartTurn(t) \/ Decide(t)
  \/ \E ok \in BOOLEAN : RunBegins(t, ok) \/ SummaryRunBegins(t, ok)
  \/ RunEnds(t) \/ SummaryRunEnds(t) \/ Answer(t)

HandoffStep(t) ==
  \/ ReadHistory(t) \/ SeedSummary(t) \/ KeepStableKey(t) \/ KeepBackingKey(t)
  \/ SetHead(t) \/ Swap(t) \/ CloseOld(t)

ClearStep == ClearBegins \/ ClearRows \/ ClearHead \/ ClearLineage \/ ClearFails

Next ==
  \/ \E t \in Turns : TurnStep(t) \/ HandoffStep(t)
  \/ ClearStep
  \/ Evict
  \/ Restart
  \/ Idle

Spec == Init /\ [][Next]_vars
--------------------------------------------------------------------------------
(* What /clear deletes is what a new Session would read: the active key is *)
(* in the lineage whatever statement of whichever operation failed last,   *)
(* as long as no turn began on a Session /clear was dropping or had        *)
(* dropped.                                                                *)
HeadIsKnown == ghost \/ head = NoKey \/ head \in lineage

(* An answered turn stays in the conversation: the active key tells of its *)
(* input through handoffs, failures, evictions and restarts, unless /clear *)
(* has deleted rows of it.  The exceptions are answers of a Session that   *)
(* had diverged, and the revival of a Session /clear was dropping.         *)
AnsweredIsKept == ghost \/ answered \ wiped \subseteq rows[Resolve]

(* The Session works on the active key, so its turns are answered from the *)
(* memory a restart would open.  Only the moment of an exchange is exempt, *)
(* and a Session that has met a failed /clear or two handoffs at once: the *)
(* turn begun between SetHead and Swap may hand off too, and then the      *)
(* older memory comes back last.                                           *)
SessionOnActiveKey ==
  (registered # None /\ MutexFree /\ ~diverged /\ ~ghost) =>
    \/ \E t \in TurnsOf(registered) : pc[t] = "swap"
    \/ mems[sess[registered]].key = Resolve

(* What the agent of the Session sees is what is stored, so a restart does *)
(* not change the conversation.                                            *)
CacheMatchesStore ==
  (registered # None /\ MutexFree /\ ~diverged /\ ~ghost) =>
    LET m == mems[sess[registered]] IN m.cache = rows[m.key]

(* README.md:108: the /clear command removes the current session's         *)
(* persisted history; inputs cleared do not come back.                     *)
ClearIsFinal == MutexFree => cleared \intersect rows[Resolve] = {}

(* The same with the one exception there is: a turn that had looked the    *)
(* Session up before /clear and began after /clear had stopped the turns.  *)
ClearedStaysCleared == ghost \/ ClearIsFinal
--------------------------------------------------------------------------------
(* Turns whose statements get through. *)
Writing == {t \in Turns : Started(t) /\ t \notin cancelled}

Abstract ==
  INSTANCE Conversation WITH
    Inputs <- Turns, told <- rows[Resolve], turn <- Writing,
    clearing <- ~MutexFree, settled <- ~ghost /\ ~diverged

(* The rows of the active key are one conversation: it grows by the input  *)
(* of the one turn at work, and a handoff, a statement that fails, an      *)
(* eviction or a restart at any point leave it as it is; only /clear       *)
(* empties it, as a whole, and meanwhile nobody adds to it.  Until the     *)
(* Session is made anew this is not promised of one that has diverged, nor *)
(* of one /clear was dropping.                                             *)
ConversationHolds == Abstract!Spec
================================================================================
