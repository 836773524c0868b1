--------------------------- MODULE SessionHistoryProofs ---------------------------
(***************************************************************************)
(* What holds of the stored conversation for any number of turns,          *)
(* handoffs, /clears, restarts and evictions, with statements that may     *)
(* fail.                                                                   *)
(*                                                                         *)
(* As long as no turn begins on a Session /clear is dropping, at most one  *)
(* turn can get a statement through (OneWriter): it works on the           *)
(* registered Session while nobody clears.  So whatever may become the     *)
(* conversation - the rows of the active key, the cache of the Session's   *)
(* memory, the summary on its way to become one - is written by that turn  *)
(* only, and stays Faithful: it tells of all that is to be kept and of     *)
(* nothing that was cleared.  Hence the history implements Conversation.   *)
(***************************************************************************)
EXTENDS SessionHistory, TLAPS

Steps == {"new", "start", "decide", "run", "think", "check", "read", "seed", "stable",
          "backing", "head", "swap", "close", "summaryRun", "summaryThink", "done"}

Memories == [key : Keys, cache : SUBSET Turns, open : BOOLEAN]
Locals == [obj : Nat, mem : Nat, old : Nat, text : SUBSET Turns, before : BOOLEAN]
Clears == [step : {"none", "rows", "lineage"}, mem : Nat, keys : SUBSET Keys,
           told : SUBSET Turns]

StoreOK ==
  /\ rows \in [Keys -> SUBSET Turns]
  /\ head \in Keys \union {NoKey}
  /\ lineage \subseteq Keys

(* Sessions refer to memories that exist, the registry to a Session. *)
ObjectsOK ==
  /\ mems \in Seq(Memories)
  /\ sess \in Seq(Nat)
  /\ \A o \in DOMAIN sess : sess[o] \in DOMAIN mems
  /\ registered \in DOMAIN sess \union {None}

(* A turn past the lookup has its Session, one that has made or found a    *)
(* memory has that.                                                        *)
HasMemory == {"think", "check", "stable", "backing", "head", "swap", "close", "summaryRun",
              "summaryThink"}

TurnsOK ==
  /\ pc \in [Turns -> Steps]
  /\ local \in [Turns -> Locals]
  /\ \A t \in Turns :
       /\ pc[t] \in {"new", "done"} => local[t].obj = None
       /\ pc[t] \notin {"new", "done"} => local[t].obj \in DOMAIN sess
       /\ pc[t] \in HasMemory => local[t].mem \in DOMAIN mems

HistoryOK ==
  /\ {cancelled, answered, wiped, cleared} \subseteq SUBSET Turns
  /\ {ghost, diverged} \subseteq BOOLEAN

(* Keys are numbered as they are made; a new one is nobody's yet. *)
KeysMade ==
  /\ counts \in [keys : Keys, clears : Nat, restarts : Nat, evictions : Nat]
  /\ head # NoKey => head <= counts.keys
  /\ \A i \in DOMAIN mems : mems[i].key <= counts.keys

(* Only inputs of turns that have begun are told of. *)
Begun == {t \in Turns : pc[t] \notin {"new", "start"}}

OnlyBegunStored ==
  /\ \A k \in Keys : rows[k] \subseteq Begun
  /\ \A i \in DOMAIN mems : mems[i].cache \subseteq Begun
  /\ \A t \in Turns : local[t].text \subseteq Begun
  /\ clear \in Clears /\ clear.told \subseteq Begun

ShapeInv ==
  StoreOK /\ ObjectsOK /\ TurnsOK /\ HistoryOK /\ KeysMade /\ OnlyBegunStored
--------------------------------------------------------------------------------
(* The turn whose statements get through. *)
Writer(t) == Started(t) /\ t \notin cancelled

OneWriter ==
  /\ \A t \in Turns : Writer(t) => local[t].obj = registered /\ MutexFree
  /\ \A t, u \in Turns : Writer(t) /\ Writer(u) => t = u

LineageIsWhole ==
  /\ head = NoKey \/ head \in lineage
  /\ lineage = {} \/ 0 \in lineage

(* /clear deletes what it said it would, and nobody writes meanwhile. *)
ClearIsThorough ==
  /\ ~MutexFree => \A k \in ClearKeys \ clear.keys : rows[k] = {}
  /\ clear.step = "lineage" => head = NoKey /\ clear.keys = {}

Kept == answered \ wiped
Faithful(inputs) == Kept \subseteq inputs /\ inputs \intersect cleared = {}

ClearedAreOver == \A t \in cleared : t \in Begun /\ ~Writer(t)

(* What is the conversation, or becomes it by an exchange of memories. *)
ConversationFaithful ==
  /\ Faithful(rows[Resolve])
  /\ registered # None => Faithful(mems[sess[registered]].cache)
  /\ \A t \in Turns : pc[t] = "swap" /\ local[t].obj = registered =>
       Faithful(mems[local[t].mem].cache)

(* Unless the Session has diverged, only the writer exchanges its memory,  *)
(* and otherwise that memory is on the active key and up to date.          *)
InStep ==
  ~diverged =>
    /\ \A t \in Turns : pc[t] = "swap" /\ local[t].obj = registered /\ MutexFree => Writer(t)
    /\ registered # None /\ MutexFree =>
         /\ (\E t \in Turns : Writer(t) /\ pc[t] = "swap") \/ mems[sess[registered]].key = Resolve
         /\ mems[sess[registered]].cache = rows[mems[sess[registered]].key]

(* How far the writer has come: the summary it carries may become the      *)
(* conversation, and unless the Session has diverged it tells of all that  *)
(* the conversation does, and the input it works on is in it.              *)
SummaryReady(t) ==
  LET m == mems[local[t].mem] IN
  /\ pc[t] \in {"backing", "head"} => 0 \in lineage
  /\ pc[t] = "head" => m.key \in lineage
  /\ pc[t] = "seed" => Faithful(local[t].text)
  /\ pc[t] \in {"stable", "backing", "head"} => Faithful(m.cache)
  /\ pc[t] \in {"stable", "backing", "head", "swap"} => rows[m.key] = m.cache
  /\ pc[t] = "swap" => m.key = head

UpToDate(t) ==
  ~diverged =>
    /\ pc[t] \in {"think", "check", "close", "summaryRun", "summaryThink"} =>
         local[t].mem = sess[registered]
    /\ pc[t] \in {"think", "check", "summaryThink"} =>
         t \in rows[Resolve] /\ t \in mems[local[t].mem].cache
    /\ pc[t] = "seed" => local[t].text = rows[Resolve]
    /\ pc[t] \in {"stable", "backing", "head"} => mems[local[t].mem].cache = rows[Resolve]

WritersProgress == \A t \in Turns : Writer(t) => SummaryReady(t) /\ UpToDate(t)

ConversationInv ==
  /\ OneWriter /\ LineageIsWhole /\ ClearIsThorough /\ ClearedAreOver
  /\ ConversationFaithful /\ InStep /\ WritersProgress

IInv == ShapeInv /\ (ghost \/ ConversationInv)
--------------------------------------------------------------------------------
(* Keys, and the key that stands for none. *)
LEMMA KeysAre ==
  /\ 0 \in Keys /\ NoKey \notin Keys /\ Keys \subseteq Nat
  /\ \A k \in Nat : k <= MaxHandoffs => k \in Keys
  BY HistoryAssumption DEF Keys, NoKey

(* The active key is one. *)
LEMMA ResolveIsKey == StoreOK => Resolve \in Keys
  BY KeysAre DEF StoreOK, Resolve

(* A longer sequence has its old elements and the new one at the end. *)
LEMMA Appended ==
  ASSUME NEW S, NEW s \in Seq(S), NEW e \in S
  PROVE  /\ Append(s, e) \in Seq(S)
         /\ Len(Append(s, e)) \in DOMAIN Append(s, e)
         /\ Len(Append(s, e)) \notin DOMAIN s
         /\ DOMAIN Append(s, e) = DOMAIN s \union {Len(Append(s, e))}
         /\ Append(s, e)[Len(Append(s, e))] = e
         /\ \A i \in DOMAIN s : Append(s, e)[i] = s[i]
         /\ Len(Append(s, e)) \in Nat /\ Len(Append(s, e)) # None
  BY DEF None

(* Closing a memory leaves what it tells and where it is kept. *)
LEMMA ClosedMemory ==
  ASSUME NEW ms \in Seq(Memories), NEW m
  PROVE  /\ Closed(ms, m) \in Seq(Memories)
         /\ DOMAIN Closed(ms, m) = DOMAIN ms
         /\ \A i \in DOMAIN ms : /\ Closed(ms, m)[i].key = ms[i].key
                                 /\ Closed(ms, m)[i].cache = ms[i].cache
                                 /\ Closed(ms, m)[i].open => ms[i].open
  <1>1. CASE m = None
    BY <1>1 DEF Closed
  <1>2. CASE m # None
    <2>1. \A i \in 1..Len(ms) : ms[i] \in Memories
      OBVIOUS
    <2>4. Len(ms) \in Nat /\ DOMAIN ms = 1..Len(ms)
      OBVIOUS
    <2>2. Closed(ms, m) = [i \in 1..Len(ms) |->
                             IF i = m THEN [ms[i] EXCEPT !.open = FALSE] ELSE ms[i]]
      BY <1>2, <2>4, Zenon DEF Closed
    <2>3. \A i \in 1..Len(ms) : IF i = m THEN [ms[i] EXCEPT !.open = FALSE] \in Memories
                                          ELSE ms[i] \in Memories
      BY <2>1 DEF Memories
    <2>5. Closed(ms, m) \in Seq(Memories)
      BY <2>2, <2>3
    <2>6. \A i \in DOMAIN ms : /\ Closed(ms, m)[i].key = ms[i].key
                               /\ Closed(ms, m)[i].cache = ms[i].cache
                               /\ Closed(ms, m)[i].open => ms[i].open
      BY <2>1, <2>2 DEF Memories
    <2>q. QED BY <2>2, <2>4, <2>5, <2>6
  <1>q. QED BY <1>1, <1>2

(* A turn without a Session or a memory has none of either. *)
LEMMA NoLocalIsLocal == NoLocal \in Locals /\ NoLocal.obj = None /\ NoLocal.text = {}
  BY DEF NoLocal, Locals, None

--------------------------------------------------------------------------------
(* The shape holds when nothing is stored. *)
LEMMA InitShape == Init => ShapeInv
  <1> SUFFICES ASSUME Init PROVE ShapeInv
    OBVIOUS
  <1> USE KeysAre, HistoryAssumption, NoLocalIsLocal DEF Init
  <1>1. StoreOK
    BY DEF StoreOK
  <1>2. ObjectsOK
    BY DEF ObjectsOK, None
  <1>3. TurnsOK
    BY DEF TurnsOK, Steps, HasMemory
  <1>4. HistoryOK
    BY DEF HistoryOK
  <1>5. KeysMade
    BY DEF KeysMade
  <1>6. OnlyBegunStored
    BY DEF OnlyBegunStored, Begun, Clears, NoClear, None
  <1>q. QED BY <1>1, <1>2, <1>3, <1>4, <1>5, <1>6 DEF ShapeInv

--------------------------------------------------------------------------------
(* What the steps do to the turns, one at a time. *)
Moves(t) ==
  /\ pc' \in [Turns -> Steps] /\ local' \in [Turns -> Locals]
  /\ \A u \in Turns : u # t => pc'[u] = pc[u] /\ local'[u] = local[u]

LEMMA GotoMoves ==
  ASSUME TurnsOK, NEW t \in Turns, NEW l \in Steps, NEW r \in Locals,
         Goto(t, l), local' = [local EXCEPT ![t] = r]
  PROVE  Moves(t) /\ pc'[t] = l /\ local'[t] = r
  BY DEF Goto, Moves, TurnsOK

LEMMA GotoStays ==
  ASSUME TurnsOK, NEW t \in Turns, NEW l \in Steps, Goto(t, l), UNCHANGED local
  PROVE  Moves(t) /\ pc'[t] = l /\ local'[t] = local[t]
  BY DEF Goto, Moves, TurnsOK

(* A handoff that fails lets the turn run as it is or ends it. *)
LEMMA FailureMoves ==
  ASSUME TurnsOK, NEW t \in Turns, HandoffFails(t)
  PROVE  /\ Moves(t) /\ pc'[t] \in {"run", "done"}
         /\ local'[t].obj = IF pc'[t] = "run" THEN local[t].obj ELSE None
         /\ local'[t].text = {}
  <1>1. local[t] \in Locals /\ local[t].obj \in Nat
    BY DEF TurnsOK, Locals
  <1>2. CASE local[t].before
    <2> DEFINE r == [NoLocal EXCEPT !.obj = local[t].obj]
    <2>1. r \in Locals /\ r.obj = local[t].obj /\ r.text = {}
      BY <1>1 DEF NoLocal, Locals, None
    <2>2. Goto(t, "run") /\ local' = [local EXCEPT ![t] = r]
      BY <1>2 DEF HandoffFails
    <2>3. "run" \in Steps
      BY DEF Steps
    <2> HIDE DEF r
    <2>q. QED BY <2>1, <2>2, <2>3, GotoMoves
  <1>3. CASE ~local[t].before
    <2>1. Goto(t, "done") /\ local' = [local EXCEPT ![t] = NoLocal]
      BY <1>3 DEF HandoffFails, Done
    <2>2. "done" \in Steps
      BY DEF Steps
    <2>3. Moves(t) /\ pc'[t] = "done" /\ local'[t] = NoLocal
      BY <2>1, <2>2, GotoMoves, NoLocalIsLocal
    <2>q. QED BY <2>3, NoLocalIsLocal
  <1>q. QED BY <1>2, <1>3

LEMMA DoneMoves ==
  ASSUME TurnsOK, NEW t \in Turns, Done(t)
  PROVE  Moves(t) /\ pc'[t] = "done" /\ local'[t].obj = None /\ local'[t].text = {}
  <1>1. "done" \in Steps
    BY DEF Steps
  <1>q. QED BY <1>1, GotoMoves, NoLocalIsLocal DEF Done

(* The fields of a local record that is changed in one of them. *)
LEMMA LocalFields ==
  ASSUME NEW r \in Locals, NEW n \in Nat, NEW told \in SUBSET Turns, NEW b \in BOOLEAN
  PROVE  /\ LET s == [r EXCEPT !.obj = n]
            IN  s \in Locals /\ s.obj = n /\ s.text = r.text
         /\ LET s == [r EXCEPT !.before = b]
            IN  s \in Locals /\ s.obj = r.obj /\ s.mem = r.mem /\ s.text = r.text
         /\ LET s == [r EXCEPT !.mem = n]
            IN  s \in Locals /\ s.obj = r.obj /\ s.mem = n /\ s.text = r.text
         /\ LET s == [r EXCEPT !.old = n]
            IN  s \in Locals /\ s.obj = r.obj /\ s.mem = r.mem /\ s.text = r.text
         /\ LET s == [r EXCEPT !.text = told]
            IN  s \in Locals /\ s.obj = r.obj /\ s.text = told
         /\ LET s == [[r EXCEPT !.mem = n] EXCEPT !.text = {}]
            IN  s \in Locals /\ s.obj = r.obj /\ s.mem = n /\ s.text = {}
  <1> USE DEF Locals
  <1>1. LET s == [r EXCEPT !.obj = n]
        IN  s \in Locals /\ s.obj = n /\ s.text = r.text
    OBVIOUS
  <1>2. LET s == [r EXCEPT !.before = b]
        IN  s \in Locals /\ s.obj = r.obj /\ s.mem = r.mem /\ s.text = r.text
    OBVIOUS
  <1>3. LET s == [r EXCEPT !.mem = n]
        IN  s \in Locals /\ s.obj = r.obj /\ s.mem = n /\ s.text = r.text
    OBVIOUS
  <1>4. LET s == [r EXCEPT !.old = n]
        IN  s \in Locals /\ s.obj = r.obj /\ s.mem = r.mem /\ s.text = r.text
    OBVIOUS
  <1>5. LET s == [r EXCEPT !.text = told]
        IN  s \in Locals /\ s.obj = r.obj /\ s.text = told
    OBVIOUS
  <1>6. LET s == [[r EXCEPT !.mem = n] EXCEPT !.text = {}]
        IN  s \in Locals /\ s.obj = r.obj /\ s.mem = n /\ s.text = {}
    OBVIOUS
  <1>q. QED BY <1>1, <1>2, <1>3, <1>4, <1>5, <1>6

(* The steps that change a turn's own record. *)
LEMMA LookupMoves ==
  ASSUME TurnsOK, ObjectsOK, NEW t \in Turns, Lookup(t)
  PROVE  /\ Moves(t) /\ pc[t] = "new" /\ pc'[t] = "start"
         /\ local'[t].obj = registered /\ local'[t].text = local[t].text
  <1> DEFINE r == [local[t] EXCEPT !.obj = registered]
  <1>1. registered \in Nat /\ local[t] \in Locals
    BY DEF TurnsOK, ObjectsOK, None
  <1>2. r \in Locals /\ r.obj = registered /\ r.text = local[t].text
    BY <1>1, LocalFields
  <1>3. Goto(t, "start") /\ local' = [local EXCEPT ![t] = r] /\ pc[t] = "new" /\ "start" \in Steps
    BY DEF Lookup, Arrives, Steps
  <1> HIDE DEF r
  <1>4. Moves(t) /\ pc'[t] = "start" /\ local'[t] = r
    BY <1>2, <1>3, GotoMoves
  <1>q. QED BY <1>2, <1>3, <1>4

LEMMA DecideMoves ==
  ASSUME TurnsOK, NEW t \in Turns, Decide(t)
  PROVE  /\ Moves(t) /\ pc[t] = "decide" /\ pc'[t] \in {"run", "read"}
         /\ local'[t].obj = local[t].obj /\ local'[t].text = local[t].text
  <1> DEFINE r == [local[t] EXCEPT !.before = TRUE]
  <1>1. r \in Locals /\ r.obj = local[t].obj /\ r.text = local[t].text
    BY LocalFields DEF TurnsOK
  <1>2. "run" \in Steps /\ "read" \in Steps /\ pc[t] = "decide"
    BY DEF Decide, Steps
  <1>3. CASE Goto(t, "run") /\ UNCHANGED local
    BY <1>2, <1>3, GotoStays
  <1>4. CASE Goto(t, "read") /\ local' = [local EXCEPT ![t] = r]
    <2> HIDE DEF r
    <2>1. Moves(t) /\ pc'[t] = "read" /\ local'[t] = r
      BY <1>1, <1>2, <1>4, GotoMoves
    <2>q. QED BY <1>1, <1>2, <2>1
  <1>q. QED BY <1>3, <1>4 DEF Decide

LEMMA RunBeginsMoves ==
  ASSUME TurnsOK, ObjectsOK, NEW t \in Turns, NEW ok \in BOOLEAN, RunBegins(t, ok)
  PROVE  /\ Moves(t) /\ pc[t] = "run" /\ pc'[t] = IF ok THEN "think" ELSE "done"
         /\ ok => /\ local'[t].obj = local[t].obj /\ local'[t].mem = sess[local[t].obj]
                  /\ local'[t].text = local[t].text
         /\ ~ok => local'[t].obj = None /\ local'[t].text = {}
  <1> DEFINE r == [local[t] EXCEPT !.mem = sess[local[t].obj]]
  <1>1. pc[t] = "run" /\ local[t] \in Locals
    BY DEF RunBegins, TurnsOK
  <1>2. sess[local[t].obj] \in Nat
    BY <1>1 DEF TurnsOK, ObjectsOK
  <1>3. r \in Locals /\ r.obj = local[t].obj /\ r.mem = sess[local[t].obj] /\ r.text = local[t].text
    BY <1>1, <1>2 DEF Locals
  <1>4. CASE ok
    <2>1. Goto(t, "think") /\ local' = [local EXCEPT ![t] = r] /\ "think" \in Steps
      BY <1>4 DEF RunBegins, Steps
    <2> HIDE DEF r
    <2>2. Moves(t) /\ pc'[t] = "think" /\ local'[t] = r
      BY <1>3, <2>1, GotoMoves
    <2>q. QED BY <1>1, <1>3, <1>4, <2>2
  <1>5. CASE ~ok
    BY <1>1, <1>5, DoneMoves DEF RunBegins
  <1>q. QED BY <1>4, <1>5

LEMMA RunEndsMoves ==
  ASSUME TurnsOK, NEW t \in Turns, RunEnds(t)
  PROVE  /\ Moves(t) /\ pc[t] = "think"
         /\ \/ pc'[t] = "check" /\ local'[t] = local[t]
            \/ /\ pc'[t] = "read" /\ t \notin cancelled
               /\ local'[t].obj = local[t].obj /\ local'[t].text = local[t].text
            \/ pc'[t] = "done" /\ local'[t].obj = None /\ local'[t].text = {}
  <1> DEFINE r == [local[t] EXCEPT !.before = FALSE]
  <1>1. r \in Locals /\ r.obj = local[t].obj /\ r.text = local[t].text
    BY LocalFields DEF TurnsOK
  <1>2. "check" \in Steps /\ "read" \in Steps /\ pc[t] = "think"
    BY DEF RunEnds, Steps
  <1>3. CASE Goto(t, "check") /\ UNCHANGED local
    BY <1>2, <1>3, GotoStays
  <1>4. CASE t \notin cancelled /\ Goto(t, "read") /\ local' = [local EXCEPT ![t] = r]
    <2> HIDE DEF r
    <2>1. Moves(t) /\ pc'[t] = "read" /\ local'[t] = r
      BY <1>1, <1>2, <1>4, GotoMoves
    <2>q. QED BY <1>1, <1>2, <1>4, <2>1
  <1>5. CASE Done(t)
    BY <1>2, <1>5, DoneMoves
  <1>q. QED BY <1>3, <1>4, <1>5 DEF RunEnds

LEMMA ReadHistoryMoves ==
  ASSUME TurnsOK, ObjectsOK, NEW t \in Turns, ReadHistory(t)
  PROVE  /\ Moves(t) /\ pc[t] = "read"
         /\ \/ /\ pc'[t] = "seed" /\ local'[t].obj = local[t].obj
               /\ local'[t].text = mems[sess[local[t].obj]].cache
            \/ HandoffFails(t)
  <1> DEFINE cache == mems[sess[local[t].obj]].cache
             r == [local[t] EXCEPT !.text = cache]
  <1>1. pc[t] = "read" /\ local[t] \in Locals
    BY DEF ReadHistory, TurnsOK
  <1>2. cache \in SUBSET Turns
    <2>1. mems[sess[local[t].obj]] \in Memories
      BY <1>1 DEF TurnsOK, ObjectsOK
    <2>q. QED BY <2>1 DEF Memories
  <1>3. r \in Locals /\ r.obj = local[t].obj /\ r.text = cache
    BY <1>1, <1>2 DEF Locals
  <1>4. CASE Goto(t, "seed") /\ local' = [local EXCEPT ![t] = r]
    <2>1. "seed" \in Steps
      BY DEF Steps
    <2> HIDE DEF r
    <2>2. Moves(t) /\ pc'[t] = "seed" /\ local'[t] = r
      BY <1>3, <1>4, <2>1, GotoMoves
    <2>q. QED BY <1>1, <1>3, <2>2
  <1>5. CASE HandoffFails(t)
    BY <1>1, <1>5, FailureMoves
  <1>q. QED BY <1>4, <1>5 DEF ReadHistory

LEMMA SeedSummaryMoves ==
  ASSUME TurnsOK, ObjectsOK, NEW t \in Turns, SeedSummary(t)
  PROVE  /\ Moves(t) /\ pc[t] = "seed"
         /\ \/ /\ pc'[t] = "stable" /\ t \notin cancelled /\ counts.keys + 1 <= MaxHandoffs
               /\ counts' = [counts EXCEPT !.keys = counts.keys + 1]
               /\ rows' = [rows EXCEPT ![counts.keys + 1] = local[t].text]
               /\ mems' = Append(mems, [key |-> counts.keys + 1, cache |-> local[t].text,
                                        open |-> TRUE])
               /\ local'[t].obj = local[t].obj /\ local'[t].mem = Len(mems')
               /\ local'[t].text = {}
            \/ HandoffFails(t) /\ UNCHANGED <<rows, mems, counts>>
  <1> DEFINE m == Len(mems')
             r == [[local[t] EXCEPT !.mem = m] EXCEPT !.text = {}]
  <1>1. pc[t] = "seed" /\ local[t] \in Locals
    BY DEF SeedSummary, TurnsOK
  <1>2. CASE HandoffFails(t) /\ UNCHANGED <<rows, mems, counts>>
    BY <1>1, <1>2, FailureMoves
  <1>3. CASE ~(HandoffFails(t) /\ UNCHANGED <<rows, mems, counts>>)
    <2>1. /\ t \notin cancelled /\ counts.keys + 1 <= MaxHandoffs
          /\ counts' = [counts EXCEPT !.keys = counts.keys + 1]
          /\ rows' = [rows EXCEPT ![counts.keys + 1] = local[t].text]
          /\ mems' = Append(mems, [key |-> counts.keys + 1, cache |-> local[t].text, open |-> TRUE])
          /\ local' = [local EXCEPT ![t].mem = Len(mems'), ![t].text = {}]
          /\ Goto(t, "stable")
      BY <1>3 DEF SeedSummary
    <2>2. m \in Nat
      <3>1. mems \in Seq(Memories) /\ Len(mems) \in Nat
        BY DEF ObjectsOK
      <3>q. QED BY <2>1, <3>1
    <2>3. r \in Locals /\ r.obj = local[t].obj /\ r.mem = m /\ r.text = {}
      BY <1>1, <2>2 DEF Locals
    <2>4. local' = [local EXCEPT ![t] = r]
      BY <2>1 DEF TurnsOK
    <2>5. "stable" \in Steps
      BY DEF Steps
    <2> HIDE DEF r
    <2>6. Moves(t) /\ pc'[t] = "stable" /\ local'[t] = r
      BY <2>1, <2>3, <2>4, <2>5, GotoMoves
    <2>q. QED BY <1>1, <2>1, <2>3, <2>6
  <1>q. QED BY <1>2, <1>3

LEMMA SwapMoves ==
  ASSUME TurnsOK, ObjectsOK, NEW t \in Turns, Swap(t)
  PROVE  /\ Moves(t) /\ pc[t] = "swap" /\ pc'[t] = "close"
         /\ local'[t].obj = local[t].obj /\ local'[t].mem = local[t].mem
         /\ local'[t].text = local[t].text
  <1> DEFINE r == [local[t] EXCEPT !.old = sess[local[t].obj]]
  <1>1. pc[t] = "swap" /\ local[t] \in Locals
    BY DEF Swap, TurnsOK
  <1>2. sess[local[t].obj] \in Nat
    BY <1>1 DEF TurnsOK, ObjectsOK
  <1>3. r \in Locals /\ r.obj = local[t].obj /\ r.mem = local[t].mem /\ r.text = local[t].text
    BY <1>1, <1>2, LocalFields
  <1>4. Goto(t, "close") /\ local' = [local EXCEPT ![t] = r] /\ "close" \in Steps
    BY DEF Swap, Steps
  <1> HIDE DEF r
  <1>5. Moves(t) /\ pc'[t] = "close" /\ local'[t] = r
    BY <1>3, <1>4, GotoMoves
  <1>q. QED BY <1>1, <1>3, <1>5
--------------------------------------------------------------------------------
(* What the steps do to the memories: most leave what they tell and where  *)
(* they are kept, and close one at most.                                   *)
MemsKept ==
  /\ mems' \in Seq(Memories) /\ DOMAIN mems' = DOMAIN mems
  /\ \A i \in DOMAIN mems : /\ mems'[i].key = mems[i].key
                            /\ mems'[i].cache = mems[i].cache
                            /\ mems'[i].open => mems[i].open

LEMMA SameMemories == ASSUME ObjectsOK, UNCHANGED mems PROVE MemsKept
  BY DEF ObjectsOK, MemsKept

LEMMA ClosingKeeps == ASSUME ObjectsOK, NEW m, mems' = Closed(mems, m) PROVE MemsKept
  <1>1. mems \in Seq(Memories)
    BY DEF ObjectsOK
  <1>q. QED BY <1>1, ClosedMemory DEF MemsKept

(* A memory's fields. *)
LEMMA MemoryFields ==
  ASSUME ObjectsOK, NEW i \in DOMAIN mems
  PROVE  mems[i].key \in Keys /\ mems[i].cache \in SUBSET Turns /\ mems[i].open \in BOOLEAN
  <1>1. mems[i] \in Memories
    BY DEF ObjectsOK
  <1>q. QED BY <1>1 DEF Memories

(* A turn that is past the lookup works for a Session, with a memory. *)
LEMMA SessionOf ==
  ASSUME TurnsOK, ObjectsOK, NEW t \in Turns, pc[t] \notin {"new", "done"}
  PROVE  /\ local[t].obj \in DOMAIN sess /\ local[t].obj # None
         /\ sess[local[t].obj] \in DOMAIN mems
  <1>1. local[t].obj \in DOMAIN sess
    BY DEF TurnsOK
  <1>2. Len(sess) \in Nat /\ DOMAIN sess = 1..Len(sess)
    BY DEF ObjectsOK
  <1>q. QED BY <1>1, <1>2 DEF ObjectsOK, None

(* A step of one turn keeps the shape when what it changes is in shape. *)
LEMMA TurnShape ==
  ASSUME ShapeInv, NEW t \in Turns, Moves(t), UNCHANGED clear,
         StoreOK', ObjectsOK', HistoryOK', KeysMade',
         DOMAIN sess \subseteq DOMAIN sess', DOMAIN mems \subseteq DOMAIN mems',
         pc'[t] \in {"new", "done"} => local'[t].obj = None,
         pc'[t] \notin {"new", "done"} => local'[t].obj \in DOMAIN sess',
         pc'[t] \in HasMemory => local'[t].mem \in DOMAIN mems',
         t \in Begun => t \in Begun',
         \A k \in Keys : rows'[k] \subseteq Begun \union (Begun' \intersect {t}),
         \A i \in DOMAIN mems' : mems'[i].cache \subseteq Begun \union (Begun' \intersect {t}),
         local'[t].text \subseteq Begun
  PROVE  ShapeInv'
  <1> USE DEF ShapeInv
  <1>1. Begun \subseteq Begun'
    BY DEF Moves, Begun
  <1>2. TurnsOK'
    <2> SUFFICES ASSUME NEW u \in Turns
                 PROVE  /\ pc'[u] \in {"new", "done"} => local'[u].obj = None
                        /\ pc'[u] \notin {"new", "done"} => local'[u].obj \in DOMAIN sess'
                        /\ pc'[u] \in HasMemory => local'[u].mem \in DOMAIN mems'
      BY DEF TurnsOK, Moves
    <2>1. CASE u = t
      BY <2>1
    <2>2. CASE u # t
      BY <2>2 DEF TurnsOK, Moves
    <2>q. QED BY <2>1, <2>2
  <1>3. OnlyBegunStored'
    <2>1. \A k \in Keys : rows'[k] \subseteq Begun'
      BY <1>1
    <2>2. \A i \in DOMAIN mems' : mems'[i].cache \subseteq Begun'
      BY <1>1
    <2>3. \A u \in Turns : local'[u].text \subseteq Begun'
      BY <1>1 DEF OnlyBegunStored, Moves
    <2>4. clear' \in Clears /\ clear'.told \subseteq Begun'
      BY <1>1 DEF OnlyBegunStored
    <2>q. QED BY <2>1, <2>2, <2>3, <2>4 DEF OnlyBegunStored
  <1>q. QED BY <1>2, <1>3

(* So does one that stores nothing. *)
LEMMA QuietShape ==
  ASSUME ShapeInv, NEW t \in Turns, Moves(t), MemsKept,
         UNCHANGED <<rows, sess, registered, clear, counts>>, HistoryOK',
         head' = head \/ \E i \in DOMAIN mems : head' = mems[i].key,
         lineage' \subseteq Keys,
         pc'[t] \in {"new", "done"} => local'[t].obj = None,
         pc'[t] \notin {"new", "done"} => local'[t].obj \in DOMAIN sess,
         pc'[t] \in HasMemory => local'[t].mem \in DOMAIN mems,
         t \in Begun => t \in Begun',
         local'[t].text \subseteq Begun
  PROVE  ShapeInv'
  <1> USE DEF ShapeInv
  <1>1. StoreOK'
    BY MemoryFields DEF StoreOK
  <1>2. ObjectsOK'
    BY DEF ObjectsOK, MemsKept
  <1>3. KeysMade'
    BY KeysAre DEF KeysMade, MemsKept, StoreOK
  <1>4. /\ \A k \in Keys : rows'[k] \subseteq Begun \union (Begun' \intersect {t})
        /\ \A i \in DOMAIN mems' : mems'[i].cache \subseteq Begun \union (Begun' \intersect {t})
    BY DEF OnlyBegunStored, MemsKept
  <1>5. DOMAIN sess \subseteq DOMAIN sess' /\ DOMAIN mems \subseteq DOMAIN mems'
    BY DEF MemsKept
  <1>6. UNCHANGED clear /\ DOMAIN mems' = DOMAIN mems /\ DOMAIN sess' = DOMAIN sess
    BY DEF MemsKept
  <1>q. QED BY <1>1, <1>2, <1>3, <1>4, <1>5, <1>6, TurnShape

--------------------------------------------------------------------------------
(* The steps of a turn keep the shape. *)

(* A turn whose handoff fails, or that ends. *)
LEMMA FailureShape ==
  ASSUME ShapeInv, NEW t \in Turns, pc[t] \notin {"new", "start", "done"},
         HandoffFails(t) \/ Done(t),
         MemsKept, UNCHANGED <<rows, head, lineage, sess, registered, clear, cancelled, counts, history>>
  PROVE  ShapeInv'
  <1> USE DEF ShapeInv
  <1>1. /\ Moves(t) /\ pc'[t] \in {"run", "done"} /\ local'[t].text = {}
        /\ local'[t].obj = IF pc'[t] = "run" THEN local[t].obj ELSE None
    BY FailureMoves, DoneMoves
  <1>2. local[t].obj \in DOMAIN sess
    BY SessionOf
  <1>3. HistoryOK' /\ lineage' \subseteq Keys /\ UNCHANGED <<rows, sess, registered, clear, counts>>
    BY DEF HistoryOK, history, StoreOK
  <1>4. /\ pc'[t] \in {"new", "done"} => local'[t].obj = None
        /\ pc'[t] \notin {"new", "done"} => local'[t].obj \in DOMAIN sess
        /\ pc'[t] \in HasMemory => local'[t].mem \in DOMAIN mems
        /\ t \in Begun => t \in Begun'
        /\ local'[t].text \subseteq Begun
    BY <1>1, <1>2 DEF HasMemory, Begun
  <1>q. QED BY <1>1, <1>3, <1>4, QuietShape

LEMMA LookupShape == ASSUME ShapeInv, NEW t \in Turns, Lookup(t) PROVE ShapeInv'
  <1> USE DEF ShapeInv
  <1>1. Moves(t) /\ pc[t] = "new" /\ pc'[t] = "start" /\ local'[t].obj = registered
        /\ local'[t].text = local[t].text /\ registered \in DOMAIN sess
    BY LookupMoves DEF Lookup, ObjectsOK
  <1>2. MemsKept
    BY SameMemories DEF Lookup, objects
  <1>3. /\ HistoryOK' /\ lineage' \subseteq Keys /\ UNCHANGED <<rows, sess, registered, clear, counts>>
        /\ head' = head \/ \E i \in DOMAIN mems : head' = mems[i].key
    BY DEF Lookup, HistoryOK, StoreOK, store, objects, history
  <1>4. /\ pc'[t] \in {"new", "done"} => local'[t].obj = None
        /\ pc'[t] \notin {"new", "done"} => local'[t].obj \in DOMAIN sess
        /\ pc'[t] \in HasMemory => local'[t].mem \in DOMAIN mems
        /\ t \in Begun => t \in Begun'
        /\ local'[t].text \subseteq Begun
    BY <1>1, SessionOf DEF HasMemory, Begun, OnlyBegunStored
  <1>q. QED BY <1>1, <1>2, <1>3, <1>4, QuietShape

LEMMA StartTurnShape == ASSUME ShapeInv, NEW t \in Turns, StartTurn(t) PROVE ShapeInv'
  <1> USE DEF ShapeInv
  <1>1. Moves(t) /\ pc[t] = "start" /\ pc'[t] = "decide" /\ local'[t] = local[t]
    BY GotoStays DEF StartTurn, Steps
  <1>2. MemsKept
    BY SameMemories DEF StartTurn, objects
  <1>3. /\ HistoryOK' /\ lineage' \subseteq Keys /\ UNCHANGED <<rows, sess, registered, clear, counts>>
        /\ head' = head \/ \E i \in DOMAIN mems : head' = mems[i].key
    BY DEF StartTurn, HistoryOK, StoreOK, TurnsOf, store, objects
  <1>4. /\ pc'[t] \in {"new", "done"} => local'[t].obj = None
        /\ pc'[t] \notin {"new", "done"} => local'[t].obj \in DOMAIN sess
        /\ pc'[t] \in HasMemory => local'[t].mem \in DOMAIN mems
        /\ t \in Begun => t \in Begun'
        /\ local'[t].text \subseteq Begun
    BY <1>1, SessionOf DEF HasMemory, Begun, OnlyBegunStored
  <1>q. QED BY <1>1, <1>2, <1>3, <1>4, QuietShape

LEMMA DecideShape == ASSUME ShapeInv, NEW t \in Turns, Decide(t) PROVE ShapeInv'
  <1> USE DEF ShapeInv
  <1>1. Moves(t) /\ pc[t] = "decide" /\ pc'[t] \in {"run", "read"}
        /\ local'[t].obj = local[t].obj /\ local'[t].text = local[t].text
    BY DecideMoves
  <1>2. MemsKept
    BY SameMemories DEF Decide, objects
  <1>3. /\ HistoryOK' /\ lineage' \subseteq Keys /\ UNCHANGED <<rows, sess, registered, clear, counts>>
        /\ head' = head \/ \E i \in DOMAIN mems : head' = mems[i].key
    BY DEF Decide, HistoryOK, StoreOK, store, objects, history
  <1>4. /\ pc'[t] \in {"new", "done"} => local'[t].obj = None
        /\ pc'[t] \notin {"new", "done"} => local'[t].obj \in DOMAIN sess
        /\ pc'[t] \in HasMemory => local'[t].mem \in DOMAIN mems
        /\ t \in Begun => t \in Begun'
        /\ local'[t].text \subseteq Begun
    BY <1>1, SessionOf DEF HasMemory, Begun, OnlyBegunStored
  <1>q. QED BY <1>1, <1>2, <1>3, <1>4, QuietShape

LEMMA RunEndsShape == ASSUME ShapeInv, NEW t \in Turns, RunEnds(t) PROVE ShapeInv'
  <1> USE DEF ShapeInv
  <1>1. /\ Moves(t) /\ pc[t] = "think"
        /\ \/ pc'[t] = "check" /\ local'[t] = local[t]
           \/ /\ pc'[t] = "read" /\ t \notin cancelled
              /\ local'[t].obj = local[t].obj /\ local'[t].text = local[t].text
           \/ pc'[t] = "done" /\ local'[t].obj = None /\ local'[t].text = {}
    BY RunEndsMoves
  <1>2. MemsKept
    BY SameMemories DEF RunEnds, objects
  <1>3. /\ HistoryOK' /\ lineage' \subseteq Keys /\ UNCHANGED <<rows, sess, registered, clear, counts>>
        /\ head' = head \/ \E i \in DOMAIN mems : head' = mems[i].key
    BY DEF RunEnds, HistoryOK, StoreOK, store, objects, history
  <1>4. /\ pc'[t] \in {"new", "done"} => local'[t].obj = None
        /\ pc'[t] \notin {"new", "done"} => local'[t].obj \in DOMAIN sess
        /\ pc'[t] \in HasMemory => local'[t].mem \in DOMAIN mems
        /\ t \in Begun => t \in Begun'
        /\ local'[t].text \subseteq Begun
    BY <1>1, SessionOf DEF HasMemory, Begun, OnlyBegunStored, TurnsOK
  <1>q. QED BY <1>1, <1>2, <1>3, <1>4, QuietShape

LEMMA AnswerShape == ASSUME ShapeInv, NEW t \in Turns, Answer(t) PROVE ShapeInv'
  <1> USE DEF ShapeInv
  <1>1. Moves(t) /\ pc[t] = "check" /\ pc'[t] = "done" /\ local'[t].obj = None /\ local'[t].text = {}
    BY DoneMoves DEF Answer
  <1>2. MemsKept
    BY SameMemories DEF Answer, objects
  <1>3. /\ HistoryOK' /\ lineage' \subseteq Keys /\ UNCHANGED <<rows, sess, registered, clear, counts>>
        /\ head' = head \/ \E i \in DOMAIN mems : head' = mems[i].key
    BY DEF Answer, HistoryOK, StoreOK, store, objects
  <1>4. /\ pc'[t] \in {"new", "done"} => local'[t].obj = None
        /\ pc'[t] \notin {"new", "done"} => local'[t].obj \in DOMAIN sess
        /\ pc'[t] \in HasMemory => local'[t].mem \in DOMAIN mems
        /\ t \in Begun => t \in Begun'
        /\ local'[t].text \subseteq Begun
    BY <1>1, SessionOf DEF HasMemory, Begun, OnlyBegunStored
  <1>q. QED BY <1>1, <1>2, <1>3, <1>4, QuietShape
(* A summary that is given up. *)
LEMMA DropShape ==
  ASSUME ShapeInv, NEW t \in Turns, pc[t] \notin {"new", "start", "done"}, DropSummary(t),
         UNCHANGED <<rows, head, lineage, sess, registered, clear, cancelled, counts, history>>
  PROVE  ShapeInv'
  <1>1. MemsKept /\ HandoffFails(t)
    BY ClosingKeeps DEF DropSummary, ShapeInv
  <1>q. QED BY <1>1, FailureShape

LEMMA ReadHistoryShape == ASSUME ShapeInv, NEW t \in Turns, ReadHistory(t) PROVE ShapeInv'
  <1> USE DEF ShapeInv
  <1>1. pc[t] = "read" /\ Moves(t)
    BY ReadHistoryMoves
  <1>2. MemsKept
    BY SameMemories DEF ReadHistory, objects
  <1>3. CASE HandoffFails(t)
    <2>1. UNCHANGED <<rows, head, lineage, sess, registered, clear, cancelled, counts, history>>
      BY DEF ReadHistory, store, objects
    <2>q. QED BY <1>1, <1>2, <1>3, <2>1, FailureShape
  <1>4. CASE pc'[t] = "seed" /\ local'[t].obj = local[t].obj
             /\ local'[t].text = mems[sess[local[t].obj]].cache
    <2>1. local[t].obj \in DOMAIN sess /\ sess[local[t].obj] \in DOMAIN mems
      BY <1>1, SessionOf
    <2>2. /\ HistoryOK' /\ lineage' \subseteq Keys /\ head' = head
          /\ UNCHANGED <<rows, sess, registered, clear, counts>>
      BY DEF ReadHistory, HistoryOK, StoreOK, store, objects, history
    <2>3. local'[t].text \subseteq Begun
      BY <1>4, <2>1 DEF OnlyBegunStored
    <2>4. /\ pc'[t] \notin {"new", "done"} /\ pc'[t] \notin HasMemory
          /\ local'[t].obj \in DOMAIN sess /\ t \in Begun'
      BY <1>4, <2>1 DEF HasMemory, Begun
    <2>q. QED BY <1>1, <1>2, <2>2, <2>3, <2>4, QuietShape
  <1>q. QED BY <1>3, <1>4, ReadHistoryMoves

LEMMA KeepStableKeyShape == ASSUME ShapeInv, NEW t \in Turns, KeepStableKey(t) PROVE ShapeInv'
  <1> USE DEF ShapeInv
  <1>1. pc[t] = "stable" /\ UNCHANGED <<rows, head, sess, registered, clear, cancelled, counts, history>>
    BY DEF KeepStableKey
  <1>2. CASE DropSummary(t) /\ UNCHANGED lineage
    BY <1>1, <1>2, DropShape
  <1>3. CASE lineage' = lineage \union {0} /\ Goto(t, "backing") /\ UNCHANGED <<mems, local>>
    <2>1. Moves(t) /\ pc'[t] = "backing" /\ local'[t] = local[t]
      BY <1>3, GotoStays DEF Steps
    <2>2. MemsKept
      BY <1>3, SameMemories
    <2>3. HistoryOK' /\ lineage' \subseteq Keys
      BY <1>1, <1>3, KeysAre DEF HistoryOK, StoreOK, history
    <2>4. /\ pc'[t] \notin {"new", "done"} /\ local'[t].obj \in DOMAIN sess
          /\ local'[t].mem \in DOMAIN mems /\ t \in Begun' /\ local'[t].text \subseteq Begun
      BY <1>1, <2>1, SessionOf DEF TurnsOK, HasMemory, Begun, OnlyBegunStored
    <2>q. QED BY <1>1, <2>1, <2>2, <2>3, <2>4, QuietShape
  <1>q. QED BY <1>2, <1>3 DEF KeepStableKey

LEMMA KeepBackingKeyShape == ASSUME ShapeInv, NEW t \in Turns, KeepBackingKey(t) PROVE ShapeInv'
  <1> USE DEF ShapeInv
  <1>1. pc[t] = "backing" /\ UNCHANGED <<rows, head, sess, registered, clear, cancelled, counts, history>>
    BY DEF KeepBackingKey
  <1>2. CASE DropSummary(t) /\ UNCHANGED lineage
    BY <1>1, <1>2, DropShape
  <1>3. CASE /\ lineage' = lineage \union {mems[local[t].mem].key} /\ Goto(t, "head")
             /\ UNCHANGED <<mems, local>>
    <2>1. Moves(t) /\ pc'[t] = "head" /\ local'[t] = local[t]
      BY <1>3, GotoStays DEF Steps
    <2>2. MemsKept
      BY <1>3, SameMemories
    <2>4. /\ pc'[t] \notin {"new", "done"} /\ local'[t].obj \in DOMAIN sess
          /\ local'[t].mem \in DOMAIN mems /\ t \in Begun' /\ local'[t].text \subseteq Begun
      BY <1>1, <2>1, SessionOf DEF TurnsOK, HasMemory, Begun, OnlyBegunStored
    <2>5. mems[local[t].mem].key \in Keys
      BY <2>1, <2>4, MemoryFields
    <2>3. HistoryOK' /\ lineage' \subseteq Keys
      BY <1>1, <1>3, <2>5 DEF HistoryOK, StoreOK, history
    <2>q. QED BY <1>1, <2>1, <2>2, <2>3, <2>4, QuietShape
  <1>q. QED BY <1>2, <1>3 DEF KeepBackingKey

LEMMA SetHeadShape == ASSUME ShapeInv, NEW t \in Turns, SetHead(t) PROVE ShapeInv'
  <1> USE DEF ShapeInv
  <1>1. pc[t] = "head" /\ UNCHANGED <<rows, lineage, sess, registered, clear, cancelled, counts, history>>
    BY DEF SetHead
  <1>2. CASE DropSummary(t) /\ UNCHANGED head
    BY <1>1, <1>2, DropShape
  <1>3. CASE head' = mems[local[t].mem].key /\ Goto(t, "swap") /\ UNCHANGED <<mems, local>>
    <2>1. Moves(t) /\ pc'[t] = "swap" /\ local'[t] = local[t]
      BY <1>3, GotoStays DEF Steps
    <2>2. MemsKept
      BY <1>3, SameMemories
    <2>4. /\ pc'[t] \notin {"new", "done"} /\ local'[t].obj \in DOMAIN sess
          /\ local'[t].mem \in DOMAIN mems /\ t \in Begun' /\ local'[t].text \subseteq Begun
      BY <1>1, <2>1, SessionOf DEF TurnsOK, HasMemory, Begun, OnlyBegunStored
    <2>5. \E i \in DOMAIN mems : head' = mems[i].key
      BY <1>3, <2>1, <2>4
    <2>3. HistoryOK' /\ lineage' \subseteq Keys
      BY <1>1 DEF HistoryOK, StoreOK, history
    <2>q. QED BY <1>1, <2>1, <2>2, <2>3, <2>4, <2>5, QuietShape
  <1>q. QED BY <1>2, <1>3 DEF SetHead

LEMMA CloseOldShape == ASSUME ShapeInv, NEW t \in Turns, CloseOld(t) PROVE ShapeInv'
  <1> USE DEF ShapeInv
  <1>1. /\ pc[t] = "close" /\ Goto(t, "summaryRun") /\ mems' = Closed(mems, local[t].old)
        /\ UNCHANGED <<rows, head, lineage, sess, registered, clear, local, cancelled, counts, history>>
    BY DEF CloseOld, store
  <1>2. MemsKept
    BY <1>1, ClosingKeeps
  <1>3. Moves(t) /\ pc'[t] = "summaryRun" /\ local'[t] = local[t]
    BY <1>1, GotoStays DEF Steps
  <1>4. /\ pc'[t] \notin {"new", "done"} /\ local'[t].obj \in DOMAIN sess
        /\ local'[t].mem \in DOMAIN mems /\ t \in Begun' /\ local'[t].text \subseteq Begun
    BY <1>1, <1>3, SessionOf DEF TurnsOK, HasMemory, Begun, OnlyBegunStored
  <1>5. HistoryOK' /\ lineage' \subseteq Keys
    BY <1>1 DEF HistoryOK, StoreOK, history
  <1>q. QED BY <1>1, <1>2, <1>3, <1>4, <1>5, QuietShape

LEMMA SummaryRunEndsShape == ASSUME ShapeInv, NEW t \in Turns, SummaryRunEnds(t) PROVE ShapeInv'
  <1> USE DEF ShapeInv
  <1>1. /\ pc[t] = "summaryThink"
        /\ UNCHANGED <<rows, head, lineage, mems, sess, registered, clear, cancelled, counts, history>>
    BY DEF SummaryRunEnds, store, objects
  <1>2. MemsKept
    BY <1>1, SameMemories
  <1>3. CASE HandoffFails(t)
    BY <1>1, <1>2, <1>3, FailureShape
  <1>4. CASE Goto(t, "check") /\ UNCHANGED local
    <2>1. Moves(t) /\ pc'[t] = "check" /\ local'[t] = local[t]
      BY <1>4, GotoStays DEF Steps
    <2>2. /\ pc'[t] \notin {"new", "done"} /\ local'[t].obj \in DOMAIN sess
          /\ local'[t].mem \in DOMAIN mems /\ t \in Begun' /\ local'[t].text \subseteq Begun
      BY <1>1, <2>1, SessionOf DEF TurnsOK, HasMemory, Begun, OnlyBegunStored
    <2>3. HistoryOK' /\ lineage' \subseteq Keys
      BY <1>1 DEF HistoryOK, StoreOK, history
    <2>q. QED BY <1>1, <1>2, <2>1, <2>2, <2>3, QuietShape
  <1>q. QED BY <1>3, <1>4 DEF SummaryRunEnds

(* A stored input is told by the memory and under its key, by no other. *)
LEMMA AddedMessage ==
  ASSUME ShapeInv, NEW t \in Turns, NEW m \in DOMAIN mems, AddMessage(t, m, TRUE)
  PROVE  /\ mems' \in Seq(Memories) /\ DOMAIN mems' = DOMAIN mems
         /\ \A i \in DOMAIN mems :
              /\ mems'[i].key = mems[i].key /\ mems'[i].open = mems[i].open
              /\ mems'[i].cache = IF i = m THEN mems[i].cache \union {t} ELSE mems[i].cache
         /\ rows' \in [Keys -> SUBSET Turns]
         /\ \A k \in Keys :
              rows'[k] = IF k = mems[m].key THEN rows[k] \union {t} ELSE rows[k]
  <1>1. mems \in Seq(Memories) /\ mems' = [mems EXCEPT ![m].cache = @ \union {t}]
    BY DEF AddMessage, ShapeInv, ObjectsOK
  <1>2. rows' = [rows EXCEPT ![mems[m].key] = @ \union {t}] /\ rows \in [Keys -> SUBSET Turns]
    BY DEF AddMessage, ShapeInv, StoreOK
  <1>3. mems[m].key \in Keys
    BY MemoryFields DEF ShapeInv
  <1>4. /\ mems' \in Seq(Memories) /\ DOMAIN mems' = DOMAIN mems
        /\ \A i \in DOMAIN mems :
             /\ mems'[i].key = mems[i].key /\ mems'[i].open = mems[i].open
             /\ mems'[i].cache = IF i = m THEN mems[i].cache \union {t} ELSE mems[i].cache
    <2>1. Len(mems) \in Nat /\ DOMAIN mems = 1..Len(mems)
      BY <1>1
    <2>2. \A i \in 1..Len(mems) : mems[i] \in Memories
      BY <1>1
    <2>3. mems' = [i \in 1..Len(mems) |->
                     IF i = m THEN [mems[i] EXCEPT !.cache = @ \union {t}] ELSE mems[i]]
      BY <1>1, <2>1, Zenon
    <2>4. \A i \in 1..Len(mems) :
             IF i = m THEN [mems[i] EXCEPT !.cache = @ \union {t}] \in Memories
                      ELSE mems[i] \in Memories
      BY <2>2 DEF Memories
    <2>5. mems' \in Seq(Memories)
      BY <2>1, <2>3, <2>4
    <2>6. \A i \in DOMAIN mems :
            /\ mems'[i].key = mems[i].key /\ mems'[i].open = mems[i].open
            /\ mems'[i].cache = IF i = m THEN mems[i].cache \union {t} ELSE mems[i].cache
      BY <2>1, <2>2, <2>3 DEF Memories
    <2>q. QED BY <2>1, <2>3, <2>5, <2>6
  <1>5. /\ rows' \in [Keys -> SUBSET Turns]
        /\ \A k \in Keys : rows'[k] = IF k = mems[m].key THEN rows[k] \union {t} ELSE rows[k]
    BY <1>2, <1>3
  <1>q. QED BY <1>4, <1>5

LEMMA AddMessageShape ==
  ASSUME ShapeInv, NEW t \in Turns, NEW m \in DOMAIN mems, AddMessage(t, m, TRUE),
         Moves(t), pc[t] \notin {"new", "start", "done"}, pc'[t] \notin {"new", "start", "done"},
         local'[t].obj = local[t].obj, local'[t].text = local[t].text,
         pc'[t] \in HasMemory => local'[t].mem \in DOMAIN mems,
         UNCHANGED <<head, lineage, sess, registered, clear, cancelled, counts, history>>
  PROVE  ShapeInv'
  <1> USE DEF ShapeInv
  <1>1. /\ mems' \in Seq(Memories) /\ DOMAIN mems' = DOMAIN mems
        /\ \A i \in DOMAIN mems :
             /\ mems'[i].key = mems[i].key /\ mems'[i].open = mems[i].open
             /\ mems'[i].cache = IF i = m THEN mems[i].cache \union {t} ELSE mems[i].cache
        /\ rows' \in [Keys -> SUBSET Turns]
        /\ \A k \in Keys : rows'[k] = IF k = mems[m].key THEN rows[k] \union {t} ELSE rows[k]
    BY AddedMessage
  <1>2. StoreOK' /\ ObjectsOK'
    BY <1>1 DEF StoreOK, ObjectsOK
  <1>3. HistoryOK' /\ KeysMade'
    BY <1>1 DEF HistoryOK, KeysMade, history
  <1>4. t \in Begun' /\ local'[t].obj \in DOMAIN sess' /\ local'[t].text \subseteq Begun
    BY SessionOf DEF Begun, OnlyBegunStored
  <1>5. \A k \in Keys : rows'[k] \subseteq Begun \union (Begun' \intersect {t})
    BY <1>1, <1>4 DEF OnlyBegunStored
  <1>6. \A i \in DOMAIN mems' : mems'[i].cache \subseteq Begun \union (Begun' \intersect {t})
    <2> SUFFICES ASSUME NEW i \in DOMAIN mems
                 PROVE  mems'[i].cache \subseteq Begun \union (Begun' \intersect {t})
      BY <1>1
    <2>1. mems[i].cache \subseteq Begun
      BY DEF OnlyBegunStored
    <2>2. mems'[i].cache \subseteq mems[i].cache \union {t}
      BY <1>1
    <2>q. QED BY <1>4, <2>1, <2>2
  <1>q. QED BY <1>1, <1>2, <1>3, <1>4, <1>5, <1>6, TurnShape

LEMMA RunBeginsShape ==
  ASSUME ShapeInv, NEW t \in Turns, NEW ok \in BOOLEAN, RunBegins(t, ok)
  PROVE  ShapeInv'
  <1> DEFINE m == sess[local[t].obj]
  <1> USE DEF ShapeInv
  <1>1. /\ pc[t] = "run" /\ AddMessage(t, m, ok)
        /\ UNCHANGED <<head, lineage, sess, registered, clear, cancelled, counts, history>>
    BY DEF RunBegins
  <1>2. m \in DOMAIN mems
    BY <1>1, SessionOf
  <1>3. CASE ok
    <2>1. /\ Moves(t) /\ pc'[t] = "think" /\ local'[t].obj = local[t].obj /\ local'[t].mem = m
          /\ local'[t].text = local[t].text
      BY <1>3, RunBeginsMoves
    <2>2. AddMessage(t, m, TRUE)
      BY <1>1, <1>3
    <2> HIDE DEF m
    <2>q. QED BY <1>1, <1>2, <2>1, <2>2, AddMessageShape
  <1>4. CASE ~ok
    <2>1. Done(t) /\ UNCHANGED <<rows, mems>>
      BY <1>1, <1>4 DEF AddMessage, RunBegins
    <2>2. MemsKept
      BY <2>1, SameMemories
    <2>q. QED BY <1>1, <2>1, <2>2, FailureShape
  <1>q. QED BY <1>3, <1>4

LEMMA SummaryRunBeginsShape ==
  ASSUME ShapeInv, NEW t \in Turns, NEW ok \in BOOLEAN, SummaryRunBegins(t, ok)
  PROVE  ShapeInv'
  <1> DEFINE m == local[t].mem
  <1> USE DEF ShapeInv
  <1>1. /\ pc[t] = "summaryRun" /\ AddMessage(t, m, ok)
        /\ UNCHANGED <<head, lineage, sess, registered, clear, cancelled, counts, history>>
    BY DEF SummaryRunBegins
  <1>2. m \in DOMAIN mems
    BY <1>1 DEF TurnsOK, HasMemory
  <1>3. CASE ok
    <2>1. Moves(t) /\ pc'[t] = "summaryThink" /\ local'[t] = local[t]
      BY <1>3, GotoStays DEF SummaryRunBegins, Steps
    <2>2. AddMessage(t, m, TRUE) /\ local'[t].mem = m
      BY <1>1, <1>3, <2>1
    <2> HIDE DEF m
    <2>q. QED BY <1>1, <1>2, <2>1, <2>2, AddMessageShape
  <1>4. CASE ~ok
    <2>1. HandoffFails(t) /\ UNCHANGED <<rows, mems>>
      BY <1>1, <1>4 DEF AddMessage, SummaryRunBegins
    <2>2. MemsKept
      BY <2>1, SameMemories
    <2>q. QED BY <1>1, <2>1, <2>2, FailureShape
  <1>q. QED BY <1>3, <1>4

(* A new memory is the last one. *)
LEMMA AddedMemory ==
  ASSUME ShapeInv, NEW r \in Memories, mems' = Append(mems, r)
  PROVE  /\ mems' \in Seq(Memories) /\ Len(mems') \in DOMAIN mems'
         /\ DOMAIN mems' = DOMAIN mems \union {Len(mems')} /\ Len(mems') \notin DOMAIN mems
         /\ mems'[Len(mems')] = r
         /\ \A i \in DOMAIN mems : mems'[i] = mems[i]
         /\ Len(mems') \in Nat
  <1>1. mems \in Seq(Memories)
    BY DEF ShapeInv, ObjectsOK
  <1>q. QED BY <1>1, Appended

(* The summary is seeded under a key nobody has. *)
LEMMA SeededSummary ==
  ASSUME ShapeInv, NEW t \in Turns, SeedSummary(t),
         ~(HandoffFails(t) /\ UNCHANGED <<rows, mems, counts>>)
  PROVE  LET k == counts.keys + 1 IN
         /\ Moves(t) /\ pc[t] = "seed" /\ pc'[t] = "stable" /\ t \notin cancelled
         /\ local'[t].obj = local[t].obj /\ local'[t].mem \in DOMAIN mems'
         /\ local'[t].text = {}
         /\ k \in Keys /\ counts'.keys = k /\ k # Resolve /\ (head # NoKey => head <= k)
         /\ counts' \in [keys : Keys, clears : Nat, restarts : Nat, evictions : Nat]
         /\ rows' \in [Keys -> SUBSET Turns] /\ rows'[k] = local[t].text
         /\ \A j \in Keys \ {k} : rows'[j] = rows[j]
         /\ mems' \in Seq(Memories)
         /\ DOMAIN mems' = DOMAIN mems \union {local'[t].mem} /\ local'[t].mem \notin DOMAIN mems
         /\ mems'[local'[t].mem].key = k /\ mems'[local'[t].mem].cache = local[t].text
         /\ \A i \in DOMAIN mems : mems'[i] = mems[i] /\ mems[i].key # k /\ mems[i].key <= k
  <1> DEFINE k == counts.keys + 1
             r == [key |-> k, cache |-> local[t].text, open |-> TRUE]
  <1> USE DEF ShapeInv
  <1>1. /\ Moves(t) /\ pc[t] = "seed" /\ pc'[t] = "stable" /\ t \notin cancelled
        /\ k <= MaxHandoffs /\ counts' = [counts EXCEPT !.keys = k]
        /\ rows' = [rows EXCEPT ![k] = local[t].text]
        /\ mems' = Append(mems, r)
        /\ local'[t].obj = local[t].obj /\ local'[t].mem = Len(mems') /\ local'[t].text = {}
    BY SeedSummaryMoves
  <1>2. /\ counts \in [keys : Keys, clears : Nat, restarts : Nat, evictions : Nat]
        /\ counts.keys \in Nat
    BY KeysAre DEF KeysMade
  <1>3. k \in Keys
    BY <1>1, <1>2, KeysAre
  <1>4. local[t].text \in SUBSET Turns
    BY DEF TurnsOK, Locals
  <1>5. r \in Memories
    BY <1>3, <1>4 DEF Memories
  <1>6. \A i \in DOMAIN mems : mems[i].key # k /\ mems[i].key <= k
    <2> SUFFICES ASSUME NEW i \in DOMAIN mems PROVE mems[i].key # k /\ mems[i].key <= k
      OBVIOUS
    <2>1. mems[i].key \in Nat /\ mems[i].key <= counts.keys
      BY MemoryFields, KeysAre DEF KeysMade
    <2>q. QED BY <1>2, <2>1
  <1>7. k # Resolve /\ (head # NoKey => head <= k)
    <2>1. head # NoKey => head \in Nat /\ head <= counts.keys
      BY KeysAre DEF KeysMade, StoreOK
    <2>q. QED BY <1>2, <2>1 DEF Resolve
  <1>8. counts' \in [keys : Keys, clears : Nat, restarts : Nat, evictions : Nat] /\ counts'.keys = k
    BY <1>1, <1>2, <1>3
  <1>9. /\ rows' \in [Keys -> SUBSET Turns] /\ rows'[k] = local[t].text
        /\ \A j \in Keys \ {k} : rows'[j] = rows[j]
    BY <1>1, <1>3, <1>4 DEF StoreOK
  <1> DEFINE m == Len(mems')
  <1>10. /\ mems' \in Seq(Memories) /\ m \in DOMAIN mems'
         /\ DOMAIN mems' = DOMAIN mems \union {m} /\ m \notin DOMAIN mems
         /\ mems'[m] = r
         /\ \A i \in DOMAIN mems : mems'[i] = mems[i]
    BY <1>1, <1>5, AddedMemory
  <1>11. mems'[m].key = k /\ mems'[m].cache = local[t].text
    BY <1>10
  <1>12. local'[t].mem = m
    BY <1>1
  <1> HIDE DEF m, k, r
  <1>q. QED BY <1>1, <1>3, <1>6, <1>7, <1>8, <1>9, <1>10, <1>11, <1>12 DEF k

LEMMA SeedSummaryShape == ASSUME ShapeInv, NEW t \in Turns, SeedSummary(t) PROVE ShapeInv'
  <1> USE DEF ShapeInv
  <1>1. UNCHANGED <<head, lineage, sess, registered, clear, cancelled, history>> /\ pc[t] = "seed"
    BY DEF SeedSummary
  <1>2. CASE HandoffFails(t) /\ UNCHANGED <<rows, mems, counts>>
    <2>1. MemsKept
      BY <1>2, SameMemories
    <2>q. QED BY <1>1, <1>2, <2>1, FailureShape
  <1>3. CASE ~(HandoffFails(t) /\ UNCHANGED <<rows, mems, counts>>)
    <2> DEFINE k == counts.keys + 1
    <2>1. /\ Moves(t) /\ pc[t] = "seed" /\ pc'[t] = "stable"
          /\ local'[t].obj = local[t].obj /\ local'[t].mem \in DOMAIN mems'
          /\ local'[t].text = {}
          /\ k \in Keys /\ counts'.keys = k /\ (head # NoKey => head <= k)
          /\ counts' \in [keys : Keys, clears : Nat, restarts : Nat, evictions : Nat]
          /\ rows' \in [Keys -> SUBSET Turns] /\ rows'[k] = local[t].text
          /\ \A j \in Keys \ {k} : rows'[j] = rows[j]
          /\ mems' \in Seq(Memories)
          /\ DOMAIN mems' = DOMAIN mems \union {local'[t].mem}
          /\ mems'[local'[t].mem].key = k /\ mems'[local'[t].mem].cache = local[t].text
          /\ \A i \in DOMAIN mems : mems'[i] = mems[i] /\ mems[i].key <= k
      BY <1>3, SeededSummary
    <2>0. k \in Nat
      BY <2>1, KeysAre
    <2> HIDE DEF k
    <2>2. StoreOK'
      BY <1>1, <2>1 DEF StoreOK
    <2>3. ObjectsOK'
      BY <1>1, <2>1 DEF ObjectsOK
    <2>4. KeysMade'
      BY <1>1, <2>0, <2>1 DEF KeysMade
    <2>5. HistoryOK'
      BY <1>1 DEF HistoryOK, history
    <2>6. /\ t \in Begun' /\ local'[t].obj \in DOMAIN sess' /\ local'[t].text \subseteq Begun
          /\ local[t].text \subseteq Begun
      BY <1>1, <2>1, SessionOf DEF Begun, OnlyBegunStored
    <2>7. /\ \A j \in Keys : rows'[j] \subseteq Begun \union (Begun' \intersect {t})
          /\ \A i \in DOMAIN mems' : mems'[i].cache \subseteq Begun \union (Begun' \intersect {t})
      BY <2>1, <2>6 DEF OnlyBegunStored
    <2>q. QED BY <1>1, <2>1, <2>2, <2>3, <2>4, <2>5, <2>6, <2>7, TurnShape
  <1>q. QED BY <1>2, <1>3

LEMMA SwapShape == ASSUME ShapeInv, NEW t \in Turns, Swap(t) PROVE ShapeInv'
  <1> USE DEF ShapeInv
  <1>1. /\ Moves(t) /\ pc[t] = "swap" /\ pc'[t] = "close"
        /\ local'[t].obj = local[t].obj /\ local'[t].mem = local[t].mem
        /\ local'[t].text = local[t].text
    BY SwapMoves
  <1>2. /\ sess' = [sess EXCEPT ![local[t].obj] = local[t].mem]
        /\ UNCHANGED <<rows, head, lineage, mems, registered, clear, cancelled, counts, history>>
    BY DEF Swap, store
  <1>3. local[t].obj \in DOMAIN sess /\ local[t].mem \in DOMAIN mems /\ local[t].mem \in Nat
    BY <1>1 DEF TurnsOK, HasMemory, Locals
  <1>4. ObjectsOK' /\ DOMAIN sess' = DOMAIN sess
    BY <1>2, <1>3 DEF ObjectsOK
  <1>5. StoreOK' /\ KeysMade' /\ HistoryOK'
    BY <1>2 DEF StoreOK, KeysMade, HistoryOK, history
  <1>6. /\ t \in Begun' /\ local'[t].obj \in DOMAIN sess' /\ local'[t].text \subseteq Begun
        /\ local'[t].mem \in DOMAIN mems'
    BY <1>1, <1>2, <1>3, <1>4 DEF Begun, OnlyBegunStored
  <1>7. /\ \A j \in Keys : rows'[j] \subseteq Begun \union (Begun' \intersect {t})
        /\ \A i \in DOMAIN mems' : mems'[i].cache \subseteq Begun \union (Begun' \intersect {t})
    BY <1>2 DEF OnlyBegunStored
  <1>q. QED BY <1>1, <1>2, <1>3, <1>4, <1>5, <1>6, <1>7, TurnShape

(* A Session is made on the active key. *)
LEMMA MadeSession ==
  ASSUME ShapeInv, NEW t \in Turns, Create(t), registered' # registered
  PROVE  /\ Moves(t) /\ pc[t] = "new" /\ pc'[t] = "start" /\ MutexFree /\ registered = None
         /\ local'[t].obj = registered' /\ local'[t].text = local[t].text
         /\ mems' \in Seq(Memories) /\ sess' \in Seq(Nat)
         /\ registered' \in DOMAIN sess' /\ registered' \notin DOMAIN sess
         /\ DOMAIN sess' = DOMAIN sess \union {registered'}
         /\ sess'[registered'] \notin DOMAIN mems
         /\ DOMAIN mems' = DOMAIN mems \union {sess'[registered']}
         /\ \A o \in DOMAIN sess : sess'[o] = sess[o]
         /\ \A i \in DOMAIN mems : mems'[i] = mems[i]
         /\ mems'[sess'[registered']].key = Resolve
         /\ mems'[sess'[registered']].cache = rows[Resolve]
         /\ lineage' = lineage \union {Resolve} /\ diverged' = FALSE /\ registered' # None
  <1> USE DEF ShapeInv
  <1> DEFINE m == [key |-> Resolve, cache |-> rows[Resolve], open |-> TRUE]
             n == Len(mems')
             r == [local[t] EXCEPT !.obj = registered']
  <1>1. /\ mems' = Append(mems, m) /\ sess' = Append(sess, n) /\ registered' = Len(sess')
        /\ lineage' = lineage \union {Resolve} /\ Goto(t, "start") /\ local' = [local EXCEPT ![t] = r]
        /\ diverged' = FALSE /\ pc[t] = "new" /\ MutexFree /\ registered = None
    BY DEF Create, Arrives, objects
  <1>2. Resolve \in Keys /\ rows[Resolve] \in SUBSET Turns
    BY ResolveIsKey DEF StoreOK
  <1>3. m \in Memories
    BY <1>2 DEF Memories
  <1>4. m.key = Resolve /\ m.cache = rows[Resolve]
    OBVIOUS
  <1> HIDE DEF m
  <1>5. /\ mems' \in Seq(Memories) /\ n \in DOMAIN mems' /\ DOMAIN mems' = DOMAIN mems \union {n}
        /\ n \notin DOMAIN mems /\ mems'[n] = m /\ \A i \in DOMAIN mems : mems'[i] = mems[i]
        /\ n \in Nat
    BY <1>1, <1>3, AddedMemory
  <1> HIDE DEF n
  <1>6. /\ sess' \in Seq(Nat) /\ Len(sess') \in DOMAIN sess' /\ Len(sess') \notin DOMAIN sess
        /\ DOMAIN sess' = DOMAIN sess \union {Len(sess')} /\ sess'[Len(sess')] = n
        /\ \A o \in DOMAIN sess : sess'[o] = sess[o]
        /\ Len(sess') \in Nat /\ Len(sess') # None
    <2>1. sess \in Seq(Nat)
      BY DEF ObjectsOK
    <2>q. QED BY <1>1, <1>5, <2>1, Appended
  <1>7. registered' \in Nat /\ local[t] \in Locals
    BY <1>1, <1>6 DEF TurnsOK
  <1>8. r \in Locals /\ r.obj = registered' /\ r.text = local[t].text
    BY <1>7 DEF Locals
  <1>9. "start" \in Steps
    BY DEF Steps
  <1> HIDE DEF r
  <1>10. Moves(t) /\ pc'[t] = "start" /\ local'[t] = r
    BY <1>1, <1>8, <1>9, GotoMoves
  <1>q. QED BY <1>1, <1>4, <1>5, <1>6, <1>8, <1>10

LEMMA CreateShape == ASSUME ShapeInv, NEW t \in Turns, Create(t) PROVE ShapeInv'
  <1> USE DEF ShapeInv
  <1>1. /\ UNCHANGED <<rows, head, clear, cancelled, counts, answered, wiped, cleared, ghost>>
        /\ pc[t] = "new"
    BY DEF Create, Arrives
  <1>2. CASE registered' # registered
    <2>1. /\ Moves(t) /\ pc[t] = "new" /\ pc'[t] = "start"
          /\ local'[t].obj = registered' /\ local'[t].text = local[t].text
          /\ mems' \in Seq(Memories) /\ sess' \in Seq(Nat) /\ registered' \in DOMAIN sess'
          /\ DOMAIN sess' = DOMAIN sess \union {registered'}
          /\ DOMAIN mems' = DOMAIN mems \union {sess'[registered']}
          /\ \A o \in DOMAIN sess : sess'[o] = sess[o]
          /\ \A i \in DOMAIN mems : mems'[i] = mems[i]
          /\ mems'[sess'[registered']].key = Resolve
          /\ mems'[sess'[registered']].cache = rows[Resolve]
          /\ lineage' = lineage \union {Resolve} /\ diverged' = FALSE
      BY <1>2, MadeSession
    <2>2. Resolve \in Keys /\ rows[Resolve] \subseteq Begun
      BY ResolveIsKey DEF OnlyBegunStored
    <2>3. StoreOK' /\ HistoryOK'
      BY <1>1, <2>1, <2>2 DEF StoreOK, HistoryOK
    <2>4. ObjectsOK'
      BY <2>1 DEF ObjectsOK
    <2>5. Resolve <= counts.keys
      <3>1. counts.keys \in Nat
        BY KeysAre DEF KeysMade
      <3>q. QED BY <3>1 DEF KeysMade, Resolve
    <2>6. KeysMade'
      BY <1>1, <2>1, <2>5 DEF KeysMade
    <2>7. local'[t].text \subseteq Begun /\ t \notin Begun
      BY <2>1 DEF OnlyBegunStored, Begun
    <2>8. /\ \A k \in Keys : rows'[k] \subseteq Begun \union (Begun' \intersect {t})
          /\ \A i \in DOMAIN mems' : mems'[i].cache \subseteq Begun \union (Begun' \intersect {t})
      BY <1>1, <2>1, <2>2 DEF OnlyBegunStored
    <2>q. QED BY <1>1, <2>1, <2>3, <2>4, <2>6, <2>7, <2>8, TurnShape DEF HasMemory
  <1>3. CASE registered' = registered
    <2>0. registered' # registered \/ (Done(t) /\ lineage' \in {lineage, lineage \union {Resolve}}
                                       /\ UNCHANGED <<mems, sess, registered, diverged>>)
      <3>1. CASE registered' = Len(sess') /\ sess' = Append(sess, Len(mems')) /\ mems' = Append(mems, [key |-> Resolve, cache |-> rows[Resolve], open |-> TRUE])
        <4>1. sess \in Seq(Nat) /\ Len(sess) \in Nat /\ mems \in Seq(Memories)
          BY DEF ObjectsOK
        <4>2. registered' = Len(sess) + 1
          BY <3>1, <4>1
        <4>3. registered = 0
          BY DEF Create, None
        <4>q. QED BY <4>1, <4>2, <4>3
      <3>2. CASE Done(t) /\ lineage' \in {lineage, lineage \union {Resolve}}
                 /\ UNCHANGED <<mems, sess, registered, diverged>>
        BY <3>2
      <3>q. QED BY <3>1, <3>2 DEF Create, objects
    <2>1. /\ Done(t) /\ lineage' \in {lineage, lineage \union {Resolve}}
          /\ UNCHANGED <<mems, sess, registered, diverged>>
      BY <1>3, <2>0
    <2>2. Moves(t) /\ pc'[t] = "done" /\ local'[t].obj = None /\ local'[t].text = {}
      BY <2>1, DoneMoves
    <2>3. MemsKept
      BY <2>1, SameMemories
    <2>4. lineage' \subseteq Keys
      BY <2>1, ResolveIsKey DEF StoreOK
    <2>5. HistoryOK'
      BY <1>1, <2>1 DEF HistoryOK
    <2>6. t \in Begun' /\ local'[t].text \subseteq Begun /\ pc'[t] \notin HasMemory
      BY <2>2 DEF Begun, HasMemory
    <2>q. QED BY <1>1, <2>1, <2>2, <2>3, <2>4, <2>5, <2>6, QuietShape
  <1>q. QED BY <1>2, <1>3

(* /clear, eviction and restart keep the shape. *)
LEMMA ClearShape == ASSUME ShapeInv, ClearStep PROVE ShapeInv'
  <1> USE DEF ShapeInv
  <1>0. ClearKeys \subseteq Keys
    BY KeysAre DEF ClearKeys, StoreOK
  <1>1. CASE ClearBegins
    <2>1. UNCHANGED <<rows, head, lineage, mems, sess, registered, pc, local, history>>
      BY <1>1 DEF ClearBegins, store, objects
    <2>2. StoreOK' /\ ObjectsOK' /\ TurnsOK'
      BY <2>1 DEF StoreOK, ObjectsOK, TurnsOK
    <2>3. HistoryOK'
      BY <1>1, <2>1 DEF ClearBegins, HistoryOK, TurnsOf, history
    <2>4. KeysMade'
      BY <1>1, <2>1 DEF ClearBegins, KeysMade
    <2>5. UNION {rows[k] : k \in ClearKeys} \subseteq Begun
      BY <1>0 DEF OnlyBegunStored
    <2>6. (IF registered = None THEN None ELSE sess[registered]) \in Nat
      BY DEF ObjectsOK, None
    <2>7. clear' \in Clears /\ clear'.told \subseteq Begun
      <3>1. Begun \subseteq Turns
        BY DEF Begun
      <3>2. clear' = [step |-> "rows", keys |-> ClearKeys,
                      told |-> UNION {rows[k] : k \in ClearKeys},
                      mem |-> IF registered = None THEN None ELSE sess[registered]]
        BY <1>1 DEF ClearBegins
      <3>q. QED BY <1>0, <2>5, <2>6, <3>1, <3>2 DEF Clears
    <2>8. Begun' = Begun
      BY <2>1 DEF Begun
    <2>9. OnlyBegunStored'
      BY <2>1, <2>7, <2>8 DEF OnlyBegunStored
    <2>q. QED BY <2>2, <2>3, <2>4, <2>9
  <1>2. CASE ClearRows
    <2>1. /\ UNCHANGED <<head, lineage, mems, sess, registered, pc, local, cancelled, counts,
                         answered, cleared, ghost, diverged>>
          /\ clear \in Clears
      BY <1>2 DEF ClearRows, objects, OnlyBegunStored
    <2>2. PICK k \in clear.keys : /\ rows' = [rows EXCEPT ![k] = {}]
                                  /\ wiped' = wiped \union rows[k]
                                  /\ clear' = [clear EXCEPT !.keys = @ \ {k}]
      BY <1>2 DEF ClearRows
    <2>3. k \in Keys
      BY <2>1, <2>2 DEF Clears
    <2>4. StoreOK' /\ \A j \in Keys : rows'[j] \subseteq rows[j]
      BY <2>1, <2>2, <2>3 DEF StoreOK
    <2>5. ObjectsOK' /\ TurnsOK' /\ KeysMade'
      BY <2>1 DEF ObjectsOK, TurnsOK, KeysMade
    <2>6. HistoryOK'
      BY <2>1, <2>2, <2>3 DEF HistoryOK, StoreOK
    <2>7. clear' \in Clears /\ clear'.told = clear.told
      BY <2>1, <2>2 DEF Clears
    <2>8. Begun' = Begun
      BY <2>1 DEF Begun
    <2>9. OnlyBegunStored'
      BY <2>1, <2>4, <2>7, <2>8 DEF OnlyBegunStored
    <2>q. QED BY <2>4, <2>5, <2>6, <2>9
  <1>3. CASE ClearHead
    <2>1. /\ UNCHANGED <<rows, lineage, mems, sess, registered, pc, local, cancelled, counts, history>>
          /\ head' = NoKey /\ clear' = [clear EXCEPT !.step = "lineage"] /\ clear \in Clears
      BY <1>3 DEF ClearHead, objects, OnlyBegunStored
    <2>2. StoreOK' /\ ObjectsOK' /\ TurnsOK' /\ KeysMade' /\ HistoryOK'
      BY <2>1 DEF StoreOK, ObjectsOK, TurnsOK, KeysMade, HistoryOK, history
    <2>3. clear' \in Clears /\ clear'.told = clear.told
      BY <2>1 DEF Clears
    <2>4. Begun' = Begun
      BY <2>1 DEF Begun
    <2>5. OnlyBegunStored'
      BY <2>1, <2>3, <2>4 DEF OnlyBegunStored
    <2>q. QED BY <2>2, <2>5
  <1>4. NoClear \in Clears /\ NoClear.told = {}
    BY DEF NoClear, Clears, None
  <1>5. CASE ClearLineage
    <2>1. /\ UNCHANGED <<rows, head, sess, pc, local, cancelled, counts, answered, wiped, ghost, diverged>>
          /\ lineage' = {} /\ registered' = None /\ clear' = NoClear
          /\ cleared' = cleared \union clear.told /\ clear \in Clears
          /\ mems' = mems \/ mems' = Closed(mems, sess[registered])
      BY <1>5 DEF ClearLineage, OnlyBegunStored
    <2>2. MemsKept
      BY <2>1, SameMemories, ClosingKeeps
    <2>3. StoreOK' /\ ObjectsOK' /\ TurnsOK' /\ KeysMade'
      BY <2>1, <2>2 DEF StoreOK, ObjectsOK, TurnsOK, KeysMade, MemsKept
    <2>4. HistoryOK'
      BY <2>1 DEF HistoryOK, Clears
    <2>5. Begun' = Begun
      BY <2>1 DEF Begun
    <2>6. OnlyBegunStored'
      BY <1>4, <2>1, <2>2, <2>5 DEF OnlyBegunStored, MemsKept
    <2>q. QED BY <2>3, <2>4, <2>6
  <1>6. CASE ClearFails
    <2>1. /\ UNCHANGED <<rows, head, lineage, mems, sess, registered, pc, local, cancelled, counts,
                         answered, wiped, cleared, ghost>>
          /\ clear' = NoClear /\ diverged' = TRUE
      BY <1>6 DEF ClearFails, store, objects
    <2>2. StoreOK' /\ ObjectsOK' /\ TurnsOK' /\ KeysMade' /\ HistoryOK'
      BY <2>1 DEF StoreOK, ObjectsOK, TurnsOK, KeysMade, HistoryOK
    <2>3. Begun' = Begun
      BY <2>1 DEF Begun
    <2>4. OnlyBegunStored'
      BY <1>4, <2>1, <2>3 DEF OnlyBegunStored
    <2>q. QED BY <2>2, <2>4
  <1>q. QED BY <1>1, <1>2, <1>3, <1>5, <1>6 DEF ClearStep

LEMMA EvictShape == ASSUME ShapeInv, Evict PROVE ShapeInv'
  <1> USE DEF ShapeInv
  <1>1. /\ UNCHANGED <<rows, head, lineage, sess, clear, pc, local, cancelled, history>>
        /\ registered' = None /\ mems' = Closed(mems, sess[registered])
    BY DEF Evict, store
  <1>2. MemsKept
    BY <1>1, ClosingKeeps
  <1>3. StoreOK' /\ ObjectsOK' /\ TurnsOK' /\ HistoryOK'
    BY <1>1, <1>2 DEF StoreOK, ObjectsOK, TurnsOK, HistoryOK, MemsKept, history
  <1>4. /\ counts' \in [keys : Keys, clears : Nat, restarts : Nat, evictions : Nat]
        /\ counts'.keys = counts.keys
    BY DEF Evict, KeysMade
  <1>5. KeysMade'
    BY <1>1, <1>2, <1>4 DEF KeysMade, MemsKept
  <1>6. Begun' = Begun
    BY <1>1 DEF Begun
  <1>7. OnlyBegunStored'
    BY <1>1, <1>2, <1>6 DEF OnlyBegunStored, MemsKept
  <1>q. QED BY <1>3, <1>5, <1>7

LEMMA RestartShape == ASSUME ShapeInv, Restart PROVE ShapeInv'
  <1> USE DEF ShapeInv
  <1>1. /\ UNCHANGED <<rows, head, lineage, cancelled, history>>
        /\ mems' = <<>> /\ sess' = <<>> /\ registered' = None /\ clear' = NoClear
        /\ pc' = [t \in Turns |-> IF pc[t] = "new" THEN "new" ELSE "done"]
        /\ local' = [t \in Turns |-> NoLocal]
    BY DEF Restart, store
  <1>2. StoreOK' /\ ObjectsOK' /\ HistoryOK'
    BY <1>1 DEF StoreOK, ObjectsOK, HistoryOK, history
  <1>3. TurnsOK'
    BY <1>1, NoLocalIsLocal DEF TurnsOK, Steps, HasMemory
  <1>4. /\ counts' \in [keys : Keys, clears : Nat, restarts : Nat, evictions : Nat]
        /\ counts'.keys = counts.keys
    BY DEF Restart, KeysMade
  <1>5. KeysMade'
    BY <1>1, <1>4 DEF KeysMade
  <1>6. Begun \subseteq Begun'
    BY <1>1 DEF Begun
  <1>7. NoClear \in Clears /\ NoClear.told = {}
    BY DEF NoClear, Clears, None
  <1>8. OnlyBegunStored'
    BY <1>1, <1>6, <1>7, NoLocalIsLocal DEF OnlyBegunStored
  <1>q. QED BY <1>2, <1>3, <1>5, <1>8

(* Every step keeps the shape. *)
LEMMA ShapeStep == ASSUME ShapeInv, [Next]_vars PROVE ShapeInv'
  <1>1. CASE \E t \in Turns : TurnStep(t) \/ HandoffStep(t)
    <2> PICK t \in Turns : TurnStep(t) \/ HandoffStep(t)
      BY <1>1
    <2>1. CASE TurnStep(t)
      BY <2>1, LookupShape, CreateShape, StartTurnShape, DecideShape, RunBeginsShape,
         SummaryRunBeginsShape, RunEndsShape, SummaryRunEndsShape, AnswerShape DEF TurnStep
    <2>2. CASE HandoffStep(t)
      BY <2>2, ReadHistoryShape, SeedSummaryShape, KeepStableKeyShape, KeepBackingKeyShape,
         SetHeadShape, SwapShape, CloseOldShape DEF HandoffStep
    <2>q. QED BY <2>1, <2>2
  <1>2. CASE ClearStep
    BY <1>2, ClearShape
  <1>3. CASE Evict
    BY <1>3, EvictShape
  <1>4. CASE Restart
    BY <1>4, RestartShape
  <1>5. CASE UNCHANGED vars
    <2>1. Begun' = Begun
      BY <1>5 DEF vars, Begun
    <2>q. QED BY <1>5, <2>1 DEF vars, ShapeInv, StoreOK, ObjectsOK, TurnsOK, HistoryOK, KeysMade,
                 OnlyBegunStored
  <1>q. QED BY <1>1, <1>2, <1>3, <1>4, <1>5 DEF Next, Idle

--------------------------------------------------------------------------------
(* A step that changes neither the store nor the Session nor what is to be *)
(* kept, and lets one turn move on without an exchange.                    *)
LEMMA QuietConversation ==
  ASSUME ShapeInv, ShapeInv', ConversationInv, NEW t \in Turns, Moves(t), MemsKept,
         UNCHANGED <<rows, head, sess, registered, clear, cancelled, history>>,
         pc[t] # "swap", pc'[t] # "swap",
         Started(t)' => Started(t) /\ local'[t].obj = local[t].obj,
         t \in Begun => t \in Begun',
         lineage' = lineage \/ (MutexFree /\ lineage \subseteq lineage' /\ 0 \in lineage'),
         Writer(t)' => SummaryReady(t)' /\ UpToDate(t)'
  PROVE  ConversationInv'
  <1> USE DEF ConversationInv, ShapeInv
  <1>1. /\ Resolve' = Resolve /\ MutexFree' = MutexFree
        /\ \A inputs : Faithful(inputs)' <=> Faithful(inputs)
    BY DEF Resolve, MutexFree, Faithful, Kept, history
  <1>2. \A u \in Turns : Writer(u)' => Writer(u) /\ local'[u].obj = local[u].obj
    BY DEF Writer, Moves, Started
  <1>3. \A u \in Turns : u # t => /\ pc'[u] = pc[u] /\ local'[u] = local[u]
                                  /\ (Writer(u)' <=> Writer(u))
    BY DEF Writer, Moves, Started
  <1>4. /\ registered # None => sess[registered] \in DOMAIN mems
        /\ \A u \in Turns : pc[u] \in HasMemory => local[u].mem \in DOMAIN mems
        /\ \A i \in DOMAIN mems : /\ mems'[i].key = mems[i].key /\ mems'[i].cache = mems[i].cache
                                  /\ mems'[i].open => mems[i].open
    BY DEF ObjectsOK, TurnsOK, MemsKept
  <1>5. OneWriter'
    BY <1>1, <1>2 DEF OneWriter
  <1>6. LineageIsWhole'
    BY DEF LineageIsWhole
  <1>7. ClearIsThorough'
    <2>1. CASE lineage' = lineage
      BY <1>1, <2>1 DEF ClearIsThorough, ClearKeys
    <2>2. CASE MutexFree
      BY <1>1, <2>2 DEF ClearIsThorough, MutexFree
    <2>q. QED BY <2>1, <2>2
  <1>8. ClearedAreOver'
    <2>1. Begun \subseteq Begun' /\ UNCHANGED cleared /\ cleared \subseteq Turns
      BY DEF Begun, Moves, history, HistoryOK
    <2>q. QED BY <1>2, <2>1 DEF ClearedAreOver
  <1>9. ConversationFaithful'
    <2>1. Faithful(rows[Resolve])' /\ (registered' # None => Faithful(mems[sess[registered]].cache)')
      BY <1>1, <1>4 DEF ConversationFaithful
    <2>2. ASSUME NEW u \in Turns, pc'[u] = "swap", local'[u].obj = registered'
          PROVE  Faithful(mems[local[u].mem].cache)'
      <3>1. u # t /\ pc[u] = "swap" /\ local[u].obj = registered /\ local'[u].mem = local[u].mem
        BY <1>3, <2>2
      <3>2. local[u].mem \in DOMAIN mems
        BY <1>4, <3>1 DEF HasMemory
      <3>q. QED BY <1>1, <1>4, <3>1, <3>2 DEF ConversationFaithful
    <2>q. QED BY <2>1, <2>2 DEF ConversationFaithful
  <1>10. InStep'
    <2> SUFFICES ASSUME ~diverged' PROVE InStep'
      BY DEF InStep
    <2>0. ~diverged
      BY DEF history
    <2>1. \A u \in Turns : pc'[u] = "swap" /\ local'[u].obj = registered' /\ MutexFree' => Writer(u)'
      BY <1>1, <1>3, <2>0 DEF InStep
    <2>2. ASSUME registered' # None, MutexFree'
          PROVE  /\ \/ \E u \in Turns : Writer(u)' /\ pc'[u] = "swap"
                    \/ (mems[sess[registered]].key)' = Resolve'
                 /\ (mems[sess[registered]].cache)' = (rows[mems[sess[registered]].key])'
      <3>1. /\ (\E u \in Turns : Writer(u) /\ pc[u] = "swap") \/ mems[sess[registered]].key = Resolve
            /\ mems[sess[registered]].cache = rows[mems[sess[registered]].key]
        BY <1>1, <2>0, <2>2 DEF InStep
      <3>2. (\E u \in Turns : Writer(u) /\ pc[u] = "swap") =>
              \E u \in Turns : Writer(u)' /\ pc'[u] = "swap"
        BY <1>3
      <3>3. /\ (mems[sess[registered]].key)' = mems[sess[registered]].key
            /\ (mems[sess[registered]].cache)' = mems[sess[registered]].cache
        BY <1>4, <2>2
      <3>4. (rows[mems[sess[registered]].key])' = rows[mems[sess[registered]].key]
        BY <3>3
      <3>q. QED BY <1>1, <3>1, <3>2, <3>3, <3>4
    <2>q. QED BY <2>1, <2>2 DEF InStep
  <1>11. WritersProgress'
    <2> SUFFICES ASSUME NEW u \in Turns, Writer(u)', u # t
                 PROVE  SummaryReady(u)' /\ UpToDate(u)'
      BY DEF WritersProgress
    <2>1. Writer(u) /\ pc'[u] = pc[u] /\ local'[u] = local[u] /\ registered # None
      BY <1>3, SessionOf DEF OneWriter, Writer, Started
    <2>2. SummaryReady(u) /\ UpToDate(u)
      BY <2>1 DEF WritersProgress
    <2>3. lineage \subseteq lineage' /\ UNCHANGED <<head, rows, sess, registered, diverged>>
      BY DEF history
    <2>4. pc[u] \in HasMemory => /\ mems'[local[u].mem].key = mems[local[u].mem].key
                                 /\ mems'[local[u].mem].cache = mems[local[u].mem].cache
      BY <1>4
    <2>5. SummaryReady(u)'
      BY <1>1, <2>1, <2>2, <2>3, <2>4 DEF SummaryReady, HasMemory
    <2>6. UpToDate(u)'
      BY <1>1, <2>1, <2>2, <2>3, <2>4 DEF UpToDate, HasMemory
    <2>q. QED BY <2>5, <2>6
  <1>q. QED BY <1>5, <1>6, <1>7, <1>8, <1>9, <1>10, <1>11

(* A handoff that fails, or a turn that ends. *)
LEMMA FailureConversation ==
  ASSUME ShapeInv, ShapeInv', ConversationInv, NEW t \in Turns,
         pc[t] \notin {"new", "start", "swap", "done"},
         HandoffFails(t) \/ Done(t), MemsKept,
         UNCHANGED <<rows, head, lineage, sess, registered, clear, cancelled, history>>
  PROVE  ConversationInv'
  <1>1. /\ Moves(t) /\ pc'[t] \in {"run", "done"}
        /\ local'[t].obj = IF pc'[t] = "run" THEN local[t].obj ELSE None
    BY FailureMoves, DoneMoves DEF ShapeInv
  <1>2. SummaryReady(t)' /\ UpToDate(t)'
    BY <1>1 DEF SummaryReady, UpToDate
  <1>3. /\ Started(t)' => Started(t) /\ local'[t].obj = local[t].obj
        /\ t \in Begun'
    BY <1>1 DEF Started, Begun
  <1>q. QED BY <1>1, <1>2, <1>3, QuietConversation

LEMMA DropConversation ==
  ASSUME ShapeInv, ShapeInv', ConversationInv, NEW t \in Turns,
         pc[t] \notin {"new", "start", "swap", "done"}, DropSummary(t),
         UNCHANGED <<rows, head, lineage, sess, registered, clear, cancelled, history>>
  PROVE  ConversationInv'
  <1>1. MemsKept /\ HandoffFails(t)
    BY ClosingKeeps DEF DropSummary, ShapeInv
  <1>q. QED BY <1>1, FailureConversation

LEMMA LookupConversation ==
  ASSUME ShapeInv, ShapeInv', ConversationInv, NEW t \in Turns, Lookup(t)
  PROVE  ConversationInv'
  <1>1. Moves(t) /\ pc[t] = "new" /\ pc'[t] = "start"
    BY LookupMoves DEF ShapeInv
  <1>2. UNCHANGED <<rows, head, lineage, mems, sess, registered, clear, cancelled, history>>
    BY DEF Lookup, store, objects
  <1>3. MemsKept
    BY <1>2, SameMemories DEF ShapeInv
  <1>4. ~Started(t)' /\ ~Writer(t)' /\ t \notin Begun
    BY <1>1 DEF Started, Writer, Begun
  <1>q. QED BY <1>1, <1>2, <1>3, <1>4, QuietConversation

LEMMA DecideConversation ==
  ASSUME ShapeInv, ShapeInv', ConversationInv, NEW t \in Turns, Decide(t)
  PROVE  ConversationInv'
  <1>1. /\ Moves(t) /\ pc[t] = "decide" /\ pc'[t] \in {"run", "read"}
        /\ local'[t].obj = local[t].obj
    BY DecideMoves DEF ShapeInv
  <1>2. UNCHANGED <<rows, head, lineage, mems, sess, registered, clear, cancelled, history>>
    BY DEF Decide, store, objects
  <1>3. MemsKept
    BY <1>2, SameMemories DEF ShapeInv
  <1>4. SummaryReady(t)' /\ UpToDate(t)' /\ Started(t) /\ t \in Begun'
    BY <1>1 DEF SummaryReady, UpToDate, Started, Begun
  <1>q. QED BY <1>1, <1>2, <1>3, <1>4, QuietConversation

LEMMA RunEndsConversation ==
  ASSUME ShapeInv, ShapeInv', ConversationInv, NEW t \in Turns, RunEnds(t)
  PROVE  ConversationInv'
  <1>1. /\ Moves(t) /\ pc[t] = "think"
        /\ \/ pc'[t] = "check" /\ local'[t] = local[t]
           \/ pc'[t] = "read" /\ local'[t].obj = local[t].obj
           \/ pc'[t] = "done"
    BY RunEndsMoves DEF ShapeInv
  <1>2. UNCHANGED <<rows, head, lineage, mems, sess, registered, clear, cancelled, history>>
    BY DEF RunEnds, store, objects
  <1>3. MemsKept
    BY <1>2, SameMemories DEF ShapeInv
  <1>4. /\ Started(t) /\ t \in Begun'
        /\ Started(t)' => local'[t].obj = local[t].obj
    BY <1>1 DEF Started, Begun
  <1>5. ASSUME Writer(t)' PROVE SummaryReady(t)' /\ UpToDate(t)'
    <2>1. Writer(t) /\ (~diverged' => ~diverged)
      BY <1>2, <1>4, <1>5 DEF Writer, history
    <2>2. UpToDate(t)
      BY <2>1 DEF ConversationInv, WritersProgress
    <2>3. Resolve' = Resolve
      BY <1>2 DEF Resolve
    <2>q. QED BY <1>1, <1>2, <2>1, <2>2, <2>3 DEF SummaryReady, UpToDate
  <1>q. QED BY <1>1, <1>2, <1>3, <1>4, <1>5, QuietConversation

LEMMA ReadHistoryConversation ==
  ASSUME ShapeInv, ShapeInv', ConversationInv, NEW t \in Turns, ReadHistory(t)
  PROVE  ConversationInv'
  <1>1. UNCHANGED <<rows, head, lineage, mems, sess, registered, clear, cancelled, history>>
    BY DEF ReadHistory, store, objects
  <1>2. MemsKept
    BY <1>1, SameMemories DEF ShapeInv
  <1>3. Moves(t) /\ pc[t] = "read"
    BY ReadHistoryMoves DEF ShapeInv
  <1>4. CASE HandoffFails(t)
    BY <1>1, <1>2, <1>3, <1>4, FailureConversation
  <1>5. CASE pc'[t] = "seed" /\ local'[t].obj = local[t].obj
             /\ local'[t].text = mems[sess[local[t].obj]].cache
    <2>1. Started(t) /\ t \in Begun'
      BY <1>3, <1>5 DEF Started, Begun
    <2>2. ASSUME Writer(t)' PROVE SummaryReady(t)' /\ UpToDate(t)'
      <3>1. Writer(t)
        BY <1>1, <2>1, <2>2 DEF Writer
      <3>2. local[t].obj = registered /\ registered # None
        BY <1>3, <3>1, SessionOf DEF ConversationInv, OneWriter, ShapeInv
      <3>3. Faithful(local'[t].text)
        BY <1>5, <3>2 DEF ConversationInv, ConversationFaithful
      <3>4. Faithful(local[t].text)'
        BY <1>1, <3>3 DEF Faithful, Kept, history
      <3>5. ASSUME ~diverged PROVE local'[t].text = rows[Resolve]
        <4>1. \A u \in Turns : Writer(u) => pc[u] # "swap"
          BY <1>3, <3>1 DEF ConversationInv, OneWriter
        <4>2. MutexFree
          BY <3>1 DEF ConversationInv, OneWriter
        <4>q. QED BY <1>5, <3>2, <3>5, <4>1, <4>2 DEF ConversationInv, InStep
      <3>6. Resolve' = Resolve /\ UNCHANGED <<rows, diverged>>
        BY <1>1 DEF Resolve, history
      <3>q. QED BY <1>5, <3>4, <3>5, <3>6 DEF SummaryReady, UpToDate
    <2>q. QED BY <1>1, <1>2, <1>3, <1>5, <2>1, <2>2, QuietConversation
  <1>q. QED BY <1>4, <1>5, ReadHistoryMoves DEF ShapeInv

(* The writer's summary is kept as it is. *)
LEMMA SummaryStays ==
  ASSUME NEW t \in Turns, UNCHANGED <<rows, mems, answered, wiped, cleared>>,
         local'[t] = local[t]
  PROVE  /\ (mems[local[t].mem].key)' = mems[local[t].mem].key
         /\ (mems[local[t].mem].cache)' = mems[local[t].mem].cache
         /\ (rows[mems[local[t].mem].key])' = rows[mems[local[t].mem].key]
         /\ \A inputs : Faithful(inputs)' <=> Faithful(inputs)
  BY DEF Faithful, Kept

LEMMA KeepStableKeyConversation ==
  ASSUME ShapeInv, ShapeInv', ConversationInv, NEW t \in Turns, KeepStableKey(t)
  PROVE  ConversationInv'
  <1>1. /\ pc[t] = "stable"
        /\ UNCHANGED <<rows, head, sess, registered, clear, cancelled, history>>
    BY DEF KeepStableKey
  <1>2. CASE DropSummary(t) /\ UNCHANGED lineage
    BY <1>1, <1>2, DropConversation
  <1>3. CASE /\ Works(t, local[t].mem) /\ lineage' = lineage \union {0} /\ Goto(t, "backing")
             /\ UNCHANGED <<mems, local>>
    <2>1. Moves(t) /\ pc'[t] = "backing" /\ local'[t] = local[t]
      BY <1>3, GotoStays DEF Steps, ShapeInv
    <2>2. MemsKept
      BY <1>3, SameMemories DEF ShapeInv
    <2>3. Writer(t) /\ Started(t) /\ t \in Begun'
      BY <1>1, <1>3, <2>1 DEF Works, Writer, Started, Begun
    <2>4. MutexFree /\ SummaryReady(t) /\ UpToDate(t)
      BY <2>3 DEF ConversationInv, OneWriter, WritersProgress
    <2>5. /\ (mems[local[t].mem].cache)' = mems[local[t].mem].cache
          /\ (rows[mems[local[t].mem].key])' = rows[mems[local[t].mem].key]
          /\ \A inputs : Faithful(inputs)' <=> Faithful(inputs)
      BY <1>1, <1>3, <2>1, <2>4, SummaryStays DEF history
    <2>7. Resolve' = Resolve /\ UNCHANGED <<rows, diverged>>
      BY <1>1 DEF Resolve, history
    <2>6. SummaryReady(t)' /\ UpToDate(t)'
      BY <1>1, <1>3, <2>1, <2>4, <2>5, <2>7 DEF SummaryReady, UpToDate
    <2>q. QED BY <1>1, <1>3, <2>1, <2>2, <2>3, <2>4, <2>6, QuietConversation
  <1>q. QED BY <1>2, <1>3 DEF KeepStableKey

LEMMA KeepBackingKeyConversation ==
  ASSUME ShapeInv, ShapeInv', ConversationInv, NEW t \in Turns, KeepBackingKey(t)
  PROVE  ConversationInv'
  <1>1. /\ pc[t] = "backing"
        /\ UNCHANGED <<rows, head, sess, registered, clear, cancelled, history>>
    BY DEF KeepBackingKey
  <1>2. CASE DropSummary(t) /\ UNCHANGED lineage
    BY <1>1, <1>2, DropConversation
  <1>3. CASE /\ Works(t, local[t].mem) /\ lineage' = lineage \union {mems[local[t].mem].key}
             /\ Goto(t, "head") /\ UNCHANGED <<mems, local>>
    <2>1. Moves(t) /\ pc'[t] = "head" /\ local'[t] = local[t]
      BY <1>3, GotoStays DEF Steps, ShapeInv
    <2>2. MemsKept
      BY <1>3, SameMemories DEF ShapeInv
    <2>3. Writer(t) /\ Started(t) /\ t \in Begun'
      BY <1>1, <1>3, <2>1 DEF Works, Writer, Started, Begun
    <2>4. MutexFree /\ SummaryReady(t) /\ UpToDate(t)
      BY <2>3 DEF ConversationInv, OneWriter, WritersProgress
    <2>5. /\ (mems[local[t].mem].cache)' = mems[local[t].mem].cache
          /\ (mems[local[t].mem].key)' = mems[local[t].mem].key
          /\ (rows[mems[local[t].mem].key])' = rows[mems[local[t].mem].key]
          /\ \A inputs : Faithful(inputs)' <=> Faithful(inputs)
      BY <1>1, <1>3, <2>1, <2>4, SummaryStays DEF history
    <2>6. 0 \in lineage'
      BY <1>1, <1>3, <2>4 DEF SummaryReady
    <2>8. Resolve' = Resolve /\ UNCHANGED <<rows, diverged>>
      BY <1>1 DEF Resolve, history
    <2>7. SummaryReady(t)' /\ UpToDate(t)'
      BY <1>1, <1>3, <2>1, <2>4, <2>5, <2>6, <2>8 DEF SummaryReady, UpToDate
    <2>q. QED BY <1>1, <1>3, <2>1, <2>2, <2>3, <2>4, <2>6, <2>7, QuietConversation
  <1>q. QED BY <1>2, <1>3 DEF KeepBackingKey, Outcome

LEMMA CloseOldConversation ==
  ASSUME ShapeInv, ShapeInv', ConversationInv, NEW t \in Turns, CloseOld(t)
  PROVE  ConversationInv'
  <1>1. /\ pc[t] = "close" /\ Goto(t, "summaryRun") /\ mems' = Closed(mems, local[t].old)
        /\ UNCHANGED <<rows, head, lineage, sess, registered, clear, local, cancelled, history>>
    BY DEF CloseOld, store
  <1>2. MemsKept
    BY <1>1, ClosingKeeps DEF ShapeInv
  <1>3. Moves(t) /\ pc'[t] = "summaryRun" /\ local'[t] = local[t]
    BY <1>1, GotoStays DEF Steps, ShapeInv
  <1>4. Started(t) /\ t \in Begun'
    BY <1>1, <1>3 DEF Started, Begun
  <1>5. ASSUME Writer(t)' PROVE SummaryReady(t)' /\ UpToDate(t)'
    <2>1. Writer(t)
      BY <1>1, <1>4, <1>5 DEF Writer
    <2>2. UpToDate(t)
      BY <2>1 DEF ConversationInv, WritersProgress
    <2>q. QED BY <1>1, <1>3, <2>2 DEF SummaryReady, UpToDate, history
  <1>q. QED BY <1>1, <1>2, <1>3, <1>4, <1>5, QuietConversation

LEMMA SummaryRunEndsConversation ==
  ASSUME ShapeInv, ShapeInv', ConversationInv, NEW t \in Turns, SummaryRunEnds(t)
  PROVE  ConversationInv'
  <1>1. /\ pc[t] = "summaryThink"
        /\ UNCHANGED <<rows, head, lineage, mems, sess, registered, clear, cancelled, history>>
    BY DEF SummaryRunEnds, store, objects
  <1>2. MemsKept
    BY <1>1, SameMemories DEF ShapeInv
  <1>3. CASE HandoffFails(t)
    BY <1>1, <1>2, <1>3, FailureConversation
  <1>4. CASE Goto(t, "check") /\ UNCHANGED local
    <2>1. Moves(t) /\ pc'[t] = "check" /\ local'[t] = local[t]
      BY <1>4, GotoStays DEF Steps, ShapeInv
    <2>2. Started(t) /\ t \in Begun'
      BY <1>1, <2>1 DEF Started, Begun
    <2>3. ASSUME Writer(t)' PROVE SummaryReady(t)' /\ UpToDate(t)'
      <3>1. Writer(t)
        BY <1>1, <2>2, <2>3 DEF Writer
      <3>2. UpToDate(t)
        BY <3>1 DEF ConversationInv, WritersProgress
      <3>3. Resolve' = Resolve
        BY <1>1 DEF Resolve
      <3>q. QED BY <1>1, <2>1, <3>2, <3>3 DEF SummaryReady, UpToDate, history
    <2>q. QED BY <1>1, <1>2, <2>1, <2>2, <2>3, QuietConversation
  <1>q. QED BY <1>3, <1>4 DEF SummaryRunEnds

(* The writer's input is stored: everything grows by an input that was not *)
(* cleared.                                                                *)
LEMMA AddMessageConversation ==
  ASSUME ShapeInv, ShapeInv', ConversationInv, NEW t \in Turns, NEW m \in DOMAIN mems,
         AddMessage(t, m, TRUE), Writer(t), Moves(t), local'[t].obj = local[t].obj,
         pc[t] \in {"run", "summaryRun"}, pc'[t] \in {"think", "summaryThink"},
         local'[t].mem = m, ~diverged => m = sess[registered],
         UNCHANGED <<head, lineage, sess, registered, clear, cancelled, history>>
  PROVE  ConversationInv'
  <1> USE DEF ConversationInv, ShapeInv
  <1>1. /\ mems' \in Seq(Memories) /\ DOMAIN mems' = DOMAIN mems
        /\ \A i \in DOMAIN mems :
             /\ mems'[i].key = mems[i].key /\ mems'[i].open = mems[i].open
             /\ mems'[i].cache = IF i = m THEN mems[i].cache \union {t} ELSE mems[i].cache
        /\ rows' \in [Keys -> SUBSET Turns]
        /\ \A k \in Keys : rows'[k] = IF k = mems[m].key THEN rows[k] \union {t} ELSE rows[k]
    BY AddedMessage
  <1>2. Resolve' = Resolve /\ Resolve \in Keys /\ MutexFree' = MutexFree
    BY ResolveIsKey DEF Resolve, MutexFree
  <1>3. MutexFree /\ registered # None /\ local[t].obj = registered
    BY SessionOf DEF OneWriter
  <1>4. t \notin cleared
    BY DEF ClearedAreOver
  <1>5. \A x : Faithful(x) => Faithful(x)' /\ Faithful(x \union {t})'
    BY <1>4 DEF Faithful, Kept, history
  <1>6. \A u \in Turns : (Writer(u) => u = t) /\ (Writer(u)' => u = t) /\ (u = t => Writer(u)')
    <2>1. \A u \in Turns : Writer(u) => u = t
      BY DEF OneWriter
    <2>2. \A u \in Turns : u # t => (Writer(u)' <=> Writer(u))
      BY DEF Writer, Started, Moves
    <2>3. Writer(t)'
      BY DEF Writer, Started
    <2>q. QED BY <2>1, <2>2, <2>3
  <1>7. /\ sess[registered] \in DOMAIN mems
        /\ \A u \in Turns : pc[u] \in HasMemory => local[u].mem \in DOMAIN mems
    BY <1>3 DEF ObjectsOK, TurnsOK
  <1>8. OneWriter'
    BY <1>2, <1>3, <1>6 DEF OneWriter
  <1>9. LineageIsWhole' /\ ClearIsThorough'
    BY <1>2, <1>3 DEF LineageIsWhole, ClearIsThorough, MutexFree
  <1>10. ClearedAreOver'
    <2>1. Begun \subseteq Begun' /\ UNCHANGED cleared /\ cleared \subseteq Turns
      BY DEF Begun, Moves, history, HistoryOK
    <2>q. QED BY <1>4, <1>6, <2>1 DEF ClearedAreOver
  <1>11. ConversationFaithful'
    <2>1. Faithful(rows[Resolve])'
      BY <1>1, <1>2, <1>5 DEF ConversationFaithful
    <2>2. Faithful(mems[sess[registered]].cache)'
      <3>1. UNCHANGED <<sess, registered>> /\ Faithful(mems[sess[registered]].cache)
        BY <1>3 DEF ConversationFaithful
      <3>2. \/ mems'[sess[registered]].cache = mems[sess[registered]].cache
            \/ mems'[sess[registered]].cache = mems[sess[registered]].cache \union {t}
        BY <1>1, <1>7
      <3>3. \/ (mems[sess[registered]].cache)' = mems[sess[registered]].cache
            \/ (mems[sess[registered]].cache)' = mems[sess[registered]].cache \union {t}
        BY <3>1, <3>2
      <3>q. QED BY <1>5, <3>1, <3>3
    <2>3. ASSUME NEW u \in Turns, pc'[u] = "swap", local'[u].obj = registered'
          PROVE  Faithful(mems[local[u].mem].cache)'
      <3>1. u # t /\ pc[u] = "swap" /\ local[u].obj = registered /\ local'[u].mem = local[u].mem
        BY <2>3 DEF Moves
      <3>2. local[u].mem \in DOMAIN mems /\ Faithful(mems[local[u].mem].cache)
        BY <1>7, <3>1 DEF HasMemory, ConversationFaithful
      <3>q. QED BY <1>1, <1>5, <3>1, <3>2
    <2>q. QED BY <2>1, <2>2, <2>3 DEF ConversationFaithful
  <1>12. ASSUME ~diverged
         PROVE  /\ m = sess[registered] /\ mems[m].key = Resolve
                /\ mems[m].cache = rows[mems[m].key]
                /\ \A u \in Turns : pc[u] = "swap" => local[u].obj # registered
    <2>1. \A u \in Turns : pc[u] = "swap" => ~Writer(u)
      BY <1>6
    <2>q. QED BY <1>3, <1>12, <2>1 DEF InStep
  <1>13. InStep'
    <2> SUFFICES ASSUME ~diverged' PROVE InStep'
      BY DEF InStep
    <2>1. ~diverged
      BY DEF history
    <2>2. \A u \in Turns : pc'[u] = "swap" => local'[u].obj # registered'
      BY <1>12, <2>1 DEF Moves
    <2>3. (mems[sess[registered]].key)' = Resolve'
      BY <1>1, <1>2, <1>7, <1>12, <2>1
    <2>4. (mems[sess[registered]].cache)' = (rows[mems[sess[registered]].key])'
      <3>1. /\ (mems[sess[registered]].cache)' = mems[m].cache \union {t}
            /\ (rows[mems[sess[registered]].key])' = rows[mems[m].key] \union {t}
        <4>1. UNCHANGED <<sess, registered>> /\ m = sess[registered] /\ mems[m].key \in Keys
          BY <1>12, <2>1, MemoryFields
        <4>2. /\ mems'[m].cache = mems[m].cache \union {t} /\ mems'[m].key = mems[m].key
              /\ rows'[mems[m].key] = rows[mems[m].key] \union {t}
          BY <1>1, <4>1
        <4>3. (mems[sess[registered]])' = mems'[m] /\ (mems[sess[registered]].key)' = mems[m].key
          BY <4>1, <4>2
        <4>q. QED BY <4>1, <4>2, <4>3
      <3>q. QED BY <1>12, <2>1, <3>1
    <2>q. QED BY <2>2, <2>3, <2>4 DEF InStep
  <1>14. WritersProgress'
    <2>1. SummaryReady(t)'
      BY DEF SummaryReady
    <2>2. ASSUME ~diverged'
          PROVE  local'[t].mem = sess'[registered'] /\ t \in rows'[Resolve']
                 /\ t \in mems'[local'[t].mem].cache
      <3>1. ~diverged
        BY <2>2 DEF history
      <3>q. QED BY <1>1, <1>2, <1>12, <3>1
    <2>3. UpToDate(t)'
      BY <2>2 DEF UpToDate
    <2>q. QED BY <1>6, <2>1, <2>3 DEF WritersProgress
  <1>q. QED BY <1>8, <1>9, <1>10, <1>11, <1>13, <1>14

LEMMA RunBeginsConversation ==
  ASSUME ShapeInv, ShapeInv', ConversationInv, NEW t \in Turns, NEW ok \in BOOLEAN,
         RunBegins(t, ok)
  PROVE  ConversationInv'
  <1> DEFINE m == sess[local[t].obj]
  <1>1. /\ pc[t] = "run" /\ AddMessage(t, m, ok) /\ Outcome(t, m, ok)
        /\ UNCHANGED <<head, lineage, sess, registered, clear, cancelled, history>>
    BY DEF RunBegins
  <1>2. m \in DOMAIN mems
    BY <1>1, SessionOf DEF ShapeInv
  <1>3. CASE ok
    <2>1. Moves(t) /\ pc'[t] = "think" /\ local'[t].obj = local[t].obj /\ local'[t].mem = m
      BY <1>3, RunBeginsMoves DEF ShapeInv
    <2>2. AddMessage(t, m, TRUE) /\ Writer(t)
      BY <1>1, <1>3 DEF Outcome, Works, Writer, Started
    <2>3. m = sess[registered]
      BY <2>2 DEF ConversationInv, OneWriter
    <2> HIDE DEF m
    <2>q. QED BY <1>1, <1>2, <2>1, <2>2, <2>3, AddMessageConversation
  <1>4. CASE ~ok
    <2>1. Done(t) /\ UNCHANGED <<rows, mems>>
      BY <1>1, <1>4 DEF AddMessage, RunBegins
    <2>2. MemsKept
      BY <2>1, SameMemories DEF ShapeInv
    <2>q. QED BY <1>1, <2>1, <2>2, FailureConversation
  <1>q. QED BY <1>3, <1>4

LEMMA SummaryRunBeginsConversation ==
  ASSUME ShapeInv, ShapeInv', ConversationInv, NEW t \in Turns, NEW ok \in BOOLEAN,
         SummaryRunBegins(t, ok)
  PROVE  ConversationInv'
  <1> DEFINE m == local[t].mem
  <1>1. /\ pc[t] = "summaryRun" /\ AddMessage(t, m, ok) /\ Outcome(t, m, ok)
        /\ UNCHANGED <<head, lineage, sess, registered, clear, cancelled, history>>
    BY DEF SummaryRunBegins
  <1>2. m \in DOMAIN mems
    BY <1>1 DEF TurnsOK, HasMemory, ShapeInv
  <1>3. CASE ok
    <2>1. Moves(t) /\ pc'[t] = "summaryThink" /\ local'[t] = local[t]
      BY <1>3, GotoStays DEF SummaryRunBegins, Steps, ShapeInv
    <2>2. AddMessage(t, m, TRUE) /\ Writer(t) /\ local'[t].mem = m
      BY <1>1, <1>3, <2>1 DEF Outcome, Works, Writer, Started
    <2>3. ~diverged => m = sess[registered]
      BY <1>1, <2>2 DEF ConversationInv, WritersProgress, UpToDate
    <2> HIDE DEF m
    <2>q. QED BY <1>1, <1>2, <2>1, <2>2, <2>3, AddMessageConversation
  <1>4. CASE ~ok
    <2>1. HandoffFails(t) /\ UNCHANGED <<rows, mems>>
      BY <1>1, <1>4 DEF AddMessage, SummaryRunBegins
    <2>2. MemsKept
      BY <2>1, SameMemories DEF ShapeInv
    <2>q. QED BY <1>1, <2>1, <2>2, FailureConversation
  <1>q. QED BY <1>3, <1>4

(* The writer seeds its summary: nothing that is the conversation changes. *)
LEMMA SeedSummaryConversation ==
  ASSUME ShapeInv, ShapeInv', ConversationInv, NEW t \in Turns, SeedSummary(t)
  PROVE  ConversationInv'
  <1> USE DEF ConversationInv, ShapeInv
  <1>1. UNCHANGED <<head, lineage, sess, registered, clear, cancelled, history>> /\ pc[t] = "seed"
    BY DEF SeedSummary
  <1>2. CASE HandoffFails(t) /\ UNCHANGED <<rows, mems, counts>>
    <2>1. MemsKept
      BY <1>2, SameMemories
    <2>q. QED BY <1>1, <1>2, <2>1, FailureConversation
  <1>3. CASE ~(HandoffFails(t) /\ UNCHANGED <<rows, mems, counts>>)
    <2> DEFINE k == counts.keys + 1
               m == local'[t].mem
    <2>1. /\ Moves(t) /\ pc'[t] = "stable" /\ t \notin cancelled
          /\ local'[t].obj = local[t].obj
          /\ k \in Keys /\ k # Resolve
          /\ rows'[k] = local[t].text
          /\ \A j \in Keys \ {k} : rows'[j] = rows[j]
          /\ m \notin DOMAIN mems
          /\ mems'[m].key = k /\ mems'[m].cache = local[t].text
          /\ \A i \in DOMAIN mems : mems'[i] = mems[i] /\ mems[i].key # k
      BY <1>3, SeededSummary
    <2> HIDE DEF k
    <2>2. Writer(t) /\ Started(t) /\ t \in Begun'
      BY <1>1, <2>1 DEF Writer, Started, Begun
    <2>3. /\ MutexFree /\ registered # None /\ local[t].obj = registered
          /\ SummaryReady(t) /\ UpToDate(t)
      BY <1>1, <2>2, SessionOf DEF OneWriter, WritersProgress
    <2>4. /\ Resolve' = Resolve /\ Resolve \in Keys /\ MutexFree' = MutexFree
          /\ \A inputs : Faithful(inputs)' <=> Faithful(inputs)
      BY <1>1, ResolveIsKey DEF Resolve, MutexFree, Faithful, Kept, history
    <2>5. \A u \in Turns : (Writer(u) => u = t) /\ (Writer(u)' => u = t)
      <3>1. \A u \in Turns : Writer(u) => u = t
        BY <2>2 DEF OneWriter
      <3>2. \A u \in Turns : u # t => (Writer(u)' <=> Writer(u))
        BY <1>1, <2>1 DEF Writer, Started, Moves
      <3>q. QED BY <3>1, <3>2
    <2>6. /\ sess[registered] \in DOMAIN mems
          /\ \A u \in Turns : pc[u] \in HasMemory => local[u].mem \in DOMAIN mems
      BY <2>3 DEF ObjectsOK, TurnsOK
    <2>7. \A i \in DOMAIN mems : rows'[mems[i].key] = rows[mems[i].key]
      BY <2>1, MemoryFields
    <2>8. OneWriter'
      BY <1>1, <2>1, <2>3, <2>4, <2>5 DEF OneWriter
    <2>9. LineageIsWhole' /\ ClearIsThorough'
      BY <1>1, <2>3, <2>4 DEF LineageIsWhole, ClearIsThorough, MutexFree
    <2>10. ClearedAreOver'
      <3>1. Begun \subseteq Begun' /\ UNCHANGED cleared /\ cleared \subseteq Turns
        BY <1>1, <2>1, <2>2 DEF Begun, Moves, history, HistoryOK
      <3>2. t \notin cleared
        BY <2>2 DEF ClearedAreOver
      <3>q. QED BY <2>5, <3>1, <3>2 DEF ClearedAreOver
    <2>11. ConversationFaithful'
      <3>1. Faithful(rows[Resolve])'
        BY <2>1, <2>4 DEF ConversationFaithful
      <3>2. Faithful(mems[sess[registered]].cache)'
        BY <1>1, <2>1, <2>3, <2>4, <2>6 DEF ConversationFaithful
      <3>3. ASSUME NEW u \in Turns, pc'[u] = "swap", local'[u].obj = registered'
            PROVE  Faithful(mems[local[u].mem].cache)'
        <4>1. u # t /\ pc[u] = "swap" /\ local[u].obj = registered /\ local'[u].mem = local[u].mem
          BY <1>1, <2>1, <3>3 DEF Moves
        <4>2. local[u].mem \in DOMAIN mems /\ Faithful(mems[local[u].mem].cache)
          BY <2>6, <4>1 DEF HasMemory, ConversationFaithful
        <4>q. QED BY <2>1, <2>4, <4>1, <4>2
      <3>q. QED BY <3>1, <3>2, <3>3 DEF ConversationFaithful
    <2>12. InStep'
      <3> SUFFICES ASSUME ~diverged' PROVE InStep'
        BY DEF InStep
      <3>1. ~diverged
        BY <1>1 DEF history
      <3>2. \A u \in Turns : pc[u] = "swap" => local[u].obj # registered
        BY <1>1, <2>3, <2>5, <3>1 DEF InStep
      <3>3. \A u \in Turns : pc'[u] = "swap" => local'[u].obj # registered'
        BY <1>1, <2>1, <3>2 DEF Moves
      <3>4. \A u \in Turns : ~(Writer(u) /\ pc[u] = "swap")
        BY <1>1, <2>5
      <3>5. /\ mems[sess[registered]].key = Resolve
            /\ mems[sess[registered]].cache = rows[mems[sess[registered]].key]
        BY <2>3, <3>1, <3>4 DEF InStep
      <3>6. (mems[sess[registered]])' = mems[sess[registered]]
        BY <1>1, <2>1, <2>6
      <3>7. (rows[mems[sess[registered]].key])' = rows[mems[sess[registered]].key]
        BY <2>6, <2>7, <3>6
      <3>q. QED BY <2>4, <3>3, <3>5, <3>6, <3>7 DEF InStep
    <2>13. WritersProgress'
      <3>2. Faithful(mems[local[t].mem].cache)' /\ (rows[mems[local[t].mem].key])' = (mems[local[t].mem].cache)'
        <4>1. Faithful(local[t].text)
          BY <1>1, <2>3 DEF SummaryReady
        <4>2. (mems[local[t].mem].cache)' = local[t].text /\ (mems[local[t].mem].key)' = k
          BY <2>1
        <4>q. QED BY <2>1, <2>4, <4>1, <4>2
      <3>4. ~diverged => (mems[local[t].mem].cache)' = rows'[Resolve']
        BY <1>1, <2>1, <2>3, <2>4 DEF UpToDate
      <3>3. SummaryReady(t)' /\ UpToDate(t)'
        BY <1>1, <2>1, <3>2, <3>4 DEF SummaryReady, UpToDate, history
      <3>q. QED BY <2>5, <3>3 DEF WritersProgress
    <2>q. QED BY <2>8, <2>9, <2>10, <2>11, <2>12, <2>13
  <1>q. QED BY <1>2, <1>3

(* The head is moved: the writer's summary becomes the conversation. *)
LEMMA SetHeadConversation ==
  ASSUME ShapeInv, ShapeInv', ConversationInv, NEW t \in Turns, SetHead(t)
  PROVE  ConversationInv'
  <1> USE DEF ConversationInv, ShapeInv
  <1>1. /\ pc[t] = "head"
        /\ UNCHANGED <<rows, lineage, sess, registered, clear, cancelled, history>>
    BY DEF SetHead
  <1>2. CASE DropSummary(t) /\ UNCHANGED head
    BY <1>1, <1>2, DropConversation
  <1>3. CASE /\ Works(t, local[t].mem) /\ head' = mems[local[t].mem].key
             /\ Goto(t, "swap") /\ UNCHANGED <<mems, local>>
    <2>1. Moves(t) /\ pc'[t] = "swap" /\ local'[t] = local[t]
      BY <1>3, GotoStays DEF Steps
    <2>2. Writer(t) /\ Started(t) /\ t \in Begun'
      BY <1>1, <1>3, <2>1 DEF Works, Writer, Started, Begun
    <2>3. /\ MutexFree /\ registered # None /\ local[t].obj = registered
          /\ SummaryReady(t)
      BY <1>1, <2>2, SessionOf DEF OneWriter, WritersProgress
    <2>4. /\ local[t].mem \in DOMAIN mems /\ mems[local[t].mem].key \in Keys
          /\ mems[local[t].mem].key \in lineage
          /\ Faithful(mems[local[t].mem].cache)
          /\ rows[mems[local[t].mem].key] = mems[local[t].mem].cache
      BY <1>1, <2>3, MemoryFields DEF SummaryReady, TurnsOK, HasMemory
    <2>5. /\ Resolve' = mems[local[t].mem].key /\ MutexFree' = MutexFree
          /\ \A inputs : Faithful(inputs)' <=> Faithful(inputs)
      BY <1>1, <1>3, <2>4, KeysAre DEF Resolve, MutexFree, Faithful, Kept, history
    <2>6. \A u \in Turns : (Writer(u) => u = t) /\ (Writer(u)' <=> u = t)
      <3>1. \A u \in Turns : Writer(u) => u = t
        BY <2>2 DEF OneWriter
      <3>2. \A u \in Turns : u # t => (Writer(u)' <=> Writer(u))
        BY <1>1, <2>1 DEF Writer, Started, Moves
      <3>3. Writer(t)'
        BY <1>1, <2>1, <2>2 DEF Writer, Started
      <3>q. QED BY <3>1, <3>2, <3>3
    <2>8. OneWriter'
      BY <1>1, <2>1, <2>3, <2>5, <2>6 DEF OneWriter
    <2>9. LineageIsWhole' /\ ClearIsThorough'
      BY <1>1, <1>3, <2>3, <2>4, <2>5 DEF LineageIsWhole, ClearIsThorough, MutexFree
    <2>10. ClearedAreOver'
      <3>1. Begun \subseteq Begun' /\ UNCHANGED cleared /\ cleared \subseteq Turns
        BY <1>1, <2>1, <2>2 DEF Begun, Moves, history, HistoryOK
      <3>2. t \notin cleared
        BY <2>2 DEF ClearedAreOver
      <3>q. QED BY <2>6, <3>1, <3>2 DEF ClearedAreOver
    <2>11. ConversationFaithful'
      <3>1. Faithful(rows[Resolve])'
        BY <1>1, <2>4, <2>5
      <3>2. Faithful(mems[sess[registered]].cache)'
        BY <1>1, <1>3, <2>3, <2>5 DEF ConversationFaithful
      <3>3. ASSUME NEW u \in Turns, pc'[u] = "swap", local'[u].obj = registered'
            PROVE  Faithful(mems[local[u].mem].cache)'
        <4>1. CASE u = t
          BY <1>3, <2>4, <2>5, <4>1
        <4>2. CASE u # t
          BY <1>1, <1>3, <2>1, <2>5, <3>3, <4>2 DEF Moves, ConversationFaithful
        <4>q. QED BY <4>1, <4>2
      <3>q. QED BY <3>1, <3>2, <3>3 DEF ConversationFaithful
    <2>12. InStep'
      <3> SUFFICES ASSUME ~diverged' PROVE InStep'
        BY DEF InStep
      <3>1. ~diverged
        BY <1>1 DEF history
      <3>2. \A u \in Turns : pc[u] = "swap" => local[u].obj # registered
        BY <1>1, <2>3, <2>6, <3>1 DEF InStep
      <3>3. \A u \in Turns : u # t => ~(pc'[u] = "swap" /\ local'[u].obj = registered')
        BY <1>1, <2>1, <3>2 DEF Moves
      <3>4. mems[sess[registered]].cache = rows[mems[sess[registered]].key]
        BY <2>3, <3>1 DEF InStep
      <3>q. QED BY <1>1, <1>3, <2>1, <2>6, <3>3, <3>4 DEF InStep
    <2>13. WritersProgress'
      <3>1. SummaryReady(t)' /\ UpToDate(t)'
        BY <1>1, <1>3, <2>1, <2>4 DEF SummaryReady, UpToDate
      <3>q. QED BY <2>6, <3>1 DEF WritersProgress
    <2>q. QED BY <2>8, <2>9, <2>10, <2>11, <2>12, <2>13
  <1>q. QED BY <1>2, <1>3 DEF SetHead, Outcome

(* The exchange: of the writer, or of a turn whose Session has diverged or *)
(* is not the registered one.                                              *)
LEMMA SwapConversation ==
  ASSUME ShapeInv, ShapeInv', ConversationInv, NEW t \in Turns, Swap(t)
  PROVE  ConversationInv'
  <1> USE DEF ConversationInv, ShapeInv
  <1> DEFINE o == local[t].obj
             m == local[t].mem
  <1>1. /\ Moves(t) /\ pc[t] = "swap" /\ pc'[t] = "close"
        /\ local'[t].obj = o /\ local'[t].mem = m
    BY SwapMoves
  <1>2. /\ sess' = [sess EXCEPT ![o] = m]
        /\ UNCHANGED <<rows, head, lineage, mems, registered, clear, cancelled, history>>
    BY DEF Swap, store
  <1>3. /\ o \in DOMAIN sess /\ m \in DOMAIN mems /\ mems[m].key \in Keys
    BY <1>1, MemoryFields DEF TurnsOK, HasMemory
  <1> HIDE DEF o
  <1>4. sess'[o] = m /\ \A p \in DOMAIN sess : p # o => sess'[p] = sess[p]
    BY <1>2, <1>3 DEF ObjectsOK
  <1>5. /\ Resolve' = Resolve /\ MutexFree' = MutexFree
        /\ \A inputs : Faithful(inputs)' <=> Faithful(inputs)
    BY <1>2 DEF Resolve, MutexFree, Faithful, Kept, history
  <1>6. \A u \in Turns : /\ Writer(u)' <=> Writer(u)
                         /\ local'[u].obj = local[u].obj /\ local'[u].mem = local[u].mem
                         /\ u # t => pc'[u] = pc[u]
    BY <1>1, <1>2 DEF Writer, Started, Moves, o
  <1>7. OneWriter' /\ LineageIsWhole' /\ ClearIsThorough'
    <2>1. OneWriter'
      BY <1>2, <1>5, <1>6 DEF OneWriter
    <2>2. LineageIsWhole' /\ ClearIsThorough'
      BY <1>2, <1>5 DEF LineageIsWhole, ClearIsThorough, ClearKeys
    <2>q. QED BY <2>1, <2>2
  <1>8. ClearedAreOver'
    <2>1. Begun \subseteq Begun' /\ UNCHANGED cleared /\ cleared \subseteq Turns
      BY <1>1, <1>2, <1>6 DEF Begun, history, HistoryOK
    <2>q. QED BY <1>6, <2>1 DEF ClearedAreOver
  <1>9. ConversationFaithful'
    <2>1. Faithful(rows[Resolve])'
      BY <1>2, <1>5 DEF ConversationFaithful
    <2>2. registered' # None => Faithful(mems[sess[registered]].cache)'
      <3>1. CASE registered = o
        <4>1. Faithful(mems[m].cache)
          BY <1>1, <3>1 DEF ConversationFaithful, o
        <4>q. QED BY <1>2, <1>4, <1>5, <3>1, <4>1
      <3>2. CASE registered # o /\ registered # None
        <4>1. sess'[registered] = sess[registered]
          BY <1>4, <3>2 DEF ObjectsOK
        <4>q. QED BY <1>2, <1>5, <3>2, <4>1 DEF ConversationFaithful
      <3>q. QED BY <1>2, <3>1, <3>2
    <2>3. \A u \in Turns : pc'[u] = "swap" /\ local'[u].obj = registered' =>
            Faithful(mems[local[u].mem].cache)'
      <3> SUFFICES ASSUME NEW u \in Turns, pc'[u] = "swap", local'[u].obj = registered'
                   PROVE  Faithful(mems[local[u].mem].cache)'
        OBVIOUS
      <3>1. pc[u] = "swap" /\ local[u].obj = registered /\ local'[u].mem = local[u].mem
        BY <1>1, <1>2, <1>6
      <3>q. QED BY <1>2, <1>5, <3>1 DEF ConversationFaithful
    <2>q. QED BY <2>1, <2>2, <2>3 DEF ConversationFaithful
  <1>10. InStep'
    <2> SUFFICES ASSUME ~diverged' PROVE InStep'
      BY DEF InStep
    <2>0. ~diverged
      BY <1>2 DEF history
    <2>1. \A u \in Turns : pc'[u] = "swap" /\ local'[u].obj = registered' /\ MutexFree' => Writer(u)'
      BY <1>1, <1>2, <1>5, <1>6, <2>0 DEF InStep
    <2>2. ASSUME registered # None, MutexFree, registered = o
          PROVE  /\ sess'[registered] = m /\ mems[m].key = Resolve
                 /\ mems[m].cache = rows[mems[m].key]
      <3>1. Writer(t)
        BY <1>1, <2>0, <2>2 DEF InStep, o
      <3>2. SummaryReady(t)
        BY <3>1 DEF WritersProgress
      <3>q. QED BY <1>1, <1>3, <1>4, <2>2, <3>2, KeysAre DEF SummaryReady, Resolve
    <2>3. ASSUME registered # None, MutexFree, registered # o
          PROVE  /\ sess'[registered] = sess[registered]
                 /\ \/ \E u \in Turns : Writer(u)' /\ pc'[u] = "swap"
                    \/ mems[sess[registered]].key = Resolve
                 /\ mems[sess[registered]].cache = rows[mems[sess[registered]].key]
      <3>1. sess'[registered] = sess[registered]
        BY <1>4, <2>3 DEF ObjectsOK
      <3>2. ~Writer(t)
        BY <2>3 DEF OneWriter, o
      <3>3. /\ (\E u \in Turns : Writer(u) /\ pc[u] = "swap") \/ mems[sess[registered]].key = Resolve
            /\ mems[sess[registered]].cache = rows[mems[sess[registered]].key]
        BY <2>0, <2>3 DEF InStep
      <3>4. \A u \in Turns : Writer(u) /\ pc[u] = "swap" => Writer(u)' /\ pc'[u] = "swap"
        BY <1>6, <3>2
      <3>q. QED BY <3>1, <3>3, <3>4
    <2>4. UNCHANGED <<rows, mems, registered>>
      BY <1>2
    <2>5. CASE registered = o
      BY <1>5, <2>1, <2>2, <2>4, <2>5 DEF InStep
    <2>6. CASE registered # o
      BY <1>5, <2>1, <2>3, <2>4, <2>6 DEF InStep
    <2>q. QED BY <2>5, <2>6
  <1>11. WritersProgress'
    <2>1. ASSUME Writer(t) PROVE SummaryReady(t)' /\ UpToDate(t)'
      <3>1. o = registered
        BY <2>1 DEF OneWriter, o
      <3>q. QED BY <1>1, <1>2, <1>4, <3>1 DEF SummaryReady, UpToDate
    <2>2. ASSUME NEW u \in Turns, u # t, Writer(u)
          PROVE  SummaryReady(u)' /\ UpToDate(u)'
      <3>1. /\ SummaryReady(u) /\ UpToDate(u) /\ MutexFree /\ local[u].obj = registered
            /\ ~Writer(t)
        BY <2>2 DEF OneWriter, WritersProgress
      <3>2. registered # None
        BY <2>2, <3>1, SessionOf DEF Writer, Started
      <3>3. ~diverged => sess'[registered] = sess[registered]
        <4> SUFFICES ASSUME ~diverged PROVE sess'[registered] = sess[registered]
          OBVIOUS
        <4>1. o # registered
          BY <1>1, <3>1 DEF InStep, o
        <4>q. QED BY <1>4, <3>2, <4>1 DEF ObjectsOK
      <3>4. pc'[u] = pc[u] /\ local'[u] = local[u]
        BY <1>1, <2>2 DEF Moves
      <3>5. SummaryReady(u)'
        BY <1>2, <1>5, <3>1, <3>4 DEF SummaryReady
      <3>6. UpToDate(u)'
        BY <1>2, <1>5, <3>1, <3>3, <3>4 DEF UpToDate, history
      <3>q. QED BY <3>5, <3>6
    <2>q. QED BY <1>6, <2>1, <2>2 DEF WritersProgress
  <1>q. QED BY <1>7, <1>8, <1>9, <1>10, <1>11

(* A new turn cancels those of its Session and becomes the writer. *)
LEMMA StartTurnConversation ==
  ASSUME ShapeInv, ShapeInv', ConversationInv, NEW t \in Turns, StartTurn(t), ~ghost'
  PROVE  ConversationInv'
  <1> USE DEF ConversationInv, ShapeInv
  <1>1. /\ Moves(t) /\ pc[t] = "start" /\ pc'[t] = "decide" /\ local'[t] = local[t]
        /\ UNCHANGED local
    BY GotoStays DEF StartTurn, Steps
  <1>2. /\ UNCHANGED <<rows, head, lineage, mems, sess, registered, clear, answered, wiped, cleared>>
        /\ registered = local[t].obj /\ MutexFree
        /\ cancelled' = cancelled \union TurnsOf(registered)
        /\ diverged' = (diverged \/ \E u \in TurnsOf(registered) : pc[u] = "swap")
    BY DEF StartTurn, store, objects
  <1>3. registered # None /\ registered \in DOMAIN sess
    BY <1>1, <1>2, SessionOf
  <1>4. /\ Resolve' = Resolve /\ MutexFree'
        /\ \A inputs : Faithful(inputs)' <=> Faithful(inputs)
    BY <1>2 DEF Resolve, MutexFree, Faithful, Kept
  <1>5. \A u \in Turns : Writer(u)' => u = t
    <2> SUFFICES ASSUME NEW u \in Turns, Writer(u)', u # t PROVE FALSE
      OBVIOUS
    <2>1. Writer(u) /\ u \notin TurnsOf(registered)
      BY <1>1, <1>2 DEF Writer, Started, Moves
    <2>2. local[u].obj = registered /\ Started(u)
      BY <2>1 DEF OneWriter, Writer
    <2>q. QED BY <2>1, <2>2 DEF TurnsOf
  <1>6. OneWriter'
    BY <1>1, <1>2, <1>4, <1>5 DEF OneWriter
  <1>7. LineageIsWhole' /\ ClearIsThorough'
    <2>1. LineageIsWhole'
      BY <1>2 DEF LineageIsWhole
    <2>2. ClearIsThorough'
      BY <1>2, <1>4 DEF ClearIsThorough, MutexFree
    <2>q. QED BY <2>1, <2>2
  <1>8. ClearedAreOver'
    <2>1. Begun \subseteq Begun' /\ cleared \subseteq Turns
      BY <1>1 DEF Begun, Moves, HistoryOK
    <2>2. t \notin cleared
      BY <1>1 DEF ClearedAreOver, Begun
    <2>q. QED BY <1>2, <1>5, <2>1, <2>2 DEF ClearedAreOver
  <1>9. ConversationFaithful'
    <2>1. \A u \in Turns : pc'[u] = "swap" => pc[u] = "swap"
      BY <1>1 DEF Moves
    <2>q. QED BY <1>1, <1>2, <1>4, <2>1 DEF ConversationFaithful
  <1>10. InStep'
    <2> SUFFICES ASSUME ~diverged' PROVE InStep'
      BY DEF InStep
    <2>1. ~diverged /\ \A u \in TurnsOf(registered) : pc[u] # "swap"
      BY <1>2
    <2>2. \A u \in Turns : pc[u] = "swap" => local[u].obj # registered
      BY <2>1 DEF TurnsOf, Started
    <2>3. \A u \in Turns : pc'[u] = "swap" => local'[u].obj # registered'
      BY <1>1, <1>2, <2>2 DEF Moves
    <2>4. \A u \in Turns : Writer(u) => pc[u] # "swap"
      BY <2>2 DEF OneWriter
    <2>5. /\ mems[sess[registered]].key = Resolve
          /\ mems[sess[registered]].cache = rows[mems[sess[registered]].key]
      BY <1>2, <1>3, <2>1, <2>4 DEF InStep
    <2>q. QED BY <1>2, <1>4, <2>3, <2>5 DEF InStep
  <1>11. WritersProgress'
    <2>1. SummaryReady(t)' /\ UpToDate(t)'
      BY <1>1 DEF SummaryReady, UpToDate
    <2>q. QED BY <1>5, <2>1 DEF WritersProgress
  <1>q. QED BY <1>6, <1>7, <1>8, <1>9, <1>10, <1>11

(* What is answered is in the conversation. *)
LEMMA AnswerConversation ==
  ASSUME ShapeInv, ShapeInv', ConversationInv, NEW t \in Turns, Answer(t)
  PROVE  ConversationInv'
  <1> USE DEF ConversationInv, ShapeInv
  <1>1. /\ pc[t] = "check" /\ Done(t)
        /\ answered' = IF t \in cancelled \/ diverged THEN answered ELSE answered \union {t}
        /\ UNCHANGED <<rows, head, lineage, mems, sess, registered, clear, cancelled, wiped,
                       cleared, ghost, diverged>>
    BY DEF Answer, store, objects
  <1>2. CASE t \in cancelled \/ diverged
    <2>1. UNCHANGED history /\ MemsKept
      BY <1>1, <1>2, SameMemories DEF history
    <2>q. QED BY <1>1, <2>1, FailureConversation
  <1>3. CASE t \notin cancelled /\ ~diverged
    <2>1. Moves(t) /\ pc'[t] = "done"
      BY <1>1, DoneMoves
    <2>2. Writer(t)
      BY <1>1, <1>3 DEF Writer, Started
    <2>3. /\ MutexFree /\ registered # None /\ local[t].obj = registered
          /\ local[t].mem = sess[registered] /\ t \in rows[Resolve]
          /\ t \in mems[sess[registered]].cache
      BY <1>1, <1>3, <2>2, SessionOf DEF OneWriter, WritersProgress, UpToDate
    <2>4. /\ Resolve' = Resolve /\ MutexFree' = MutexFree
          /\ \A inputs : Faithful(inputs) /\ t \in inputs => Faithful(inputs)'
      BY <1>1, <1>3 DEF Resolve, MutexFree, Faithful, Kept
    <2>5. \A u \in Turns : (Writer(u) => u = t) /\ ~Writer(u)'
      <3>1. \A u \in Turns : Writer(u) => u = t
        BY <2>2 DEF OneWriter
      <3>2. \A u \in Turns : Writer(u)' => Writer(u) /\ u # t
        BY <1>1, <2>1 DEF Writer, Started, Moves
      <3>q. QED BY <3>1, <3>2
    <2>6. \A u \in Turns : pc'[u] = "swap" => local'[u].obj # registered'
      <3> SUFFICES ASSUME NEW u \in Turns, pc'[u] = "swap", local'[u].obj = registered PROVE FALSE
        BY <1>1
      <3>1. pc[u] = "swap" /\ local[u].obj = registered
        BY <2>1 DEF Moves
      <3>q. QED BY <1>1, <1>3, <2>3, <2>5, <3>1 DEF InStep
    <2>7. OneWriter' /\ WritersProgress'
      BY <2>5 DEF OneWriter, WritersProgress
    <2>8. LineageIsWhole' /\ ClearIsThorough'
      BY <1>1, <2>3, <2>4 DEF LineageIsWhole, ClearIsThorough, MutexFree
    <2>9. ClearedAreOver'
      <3>1. Begun \subseteq Begun' /\ cleared \subseteq Turns
        BY <1>1, <2>1 DEF Begun, Moves, HistoryOK
      <3>q. QED BY <1>1, <2>5, <3>1 DEF ClearedAreOver
    <2>10. ConversationFaithful'
      <3>1. Faithful(rows[Resolve])' /\ Faithful(mems[sess[registered]].cache)'
        BY <1>1, <2>3, <2>4 DEF ConversationFaithful
      <3>q. QED BY <2>6, <3>1 DEF ConversationFaithful
    <2>11. InStep'
      <3>1. \A u \in Turns : ~(Writer(u) /\ pc[u] = "swap")
        BY <1>1, <2>5
      <3>2. /\ mems[sess[registered]].key = Resolve
            /\ mems[sess[registered]].cache = rows[mems[sess[registered]].key]
        BY <1>3, <2>3, <3>1 DEF InStep
      <3>q. QED BY <1>1, <2>4, <2>6, <3>2 DEF InStep
    <2>q. QED BY <2>7, <2>8, <2>9, <2>10, <2>11
  <1>q. QED BY <1>2, <1>3

(* A Session is made while nobody writes. *)
LEMMA CreateConversation ==
  ASSUME ShapeInv, ShapeInv', ConversationInv, NEW t \in Turns, Create(t)
  PROVE  ConversationInv'
  <1> USE DEF ConversationInv, ShapeInv
  <1>1. /\ UNCHANGED <<rows, head, clear, cancelled, answered, wiped, cleared, ghost>>
        /\ pc[t] = "new" /\ MutexFree /\ registered = None
    BY DEF Create, Arrives
  <1>2. \A u \in Turns : ~Writer(u)
    <2> SUFFICES ASSUME NEW u \in Turns, Writer(u) PROVE FALSE
      OBVIOUS
    <2>q. QED BY <1>1, SessionOf DEF OneWriter, Writer, Started
  <1>3. LineageIsWhole /\ (lineage' = lineage \union {Resolve} => 0 \in lineage' /\ LineageIsWhole')
    BY <1>1 DEF LineageIsWhole, Resolve
  <1>4. CASE registered' # registered
    <2>1. /\ Moves(t) /\ pc'[t] = "start"
          /\ registered' \notin DOMAIN sess
          /\ sess'[registered'] \notin DOMAIN mems
          /\ \A i \in DOMAIN mems : mems'[i] = mems[i]
          /\ mems'[sess'[registered']].key = Resolve
          /\ mems'[sess'[registered']].cache = rows[Resolve]
          /\ lineage' = lineage \union {Resolve}
      BY <1>4, MadeSession
    <2>2. /\ Resolve' = Resolve /\ MutexFree'
          /\ \A inputs : Faithful(inputs)' <=> Faithful(inputs)
      BY <1>1 DEF Resolve, MutexFree, Faithful, Kept
    <2>3. \A u \in Turns : ~Writer(u)'
      BY <1>1, <1>2, <2>1 DEF Writer, Started, Moves
    <2>4. \A u \in Turns : pc'[u] = "swap" => local'[u].obj # registered'
      <3> SUFFICES ASSUME NEW u \in Turns, pc'[u] = "swap" PROVE local'[u].obj # registered'
        OBVIOUS
      <3>1. pc[u] = "swap" /\ local'[u] = local[u]
        BY <2>1 DEF Moves
      <3>q. QED BY <2>1, <3>1, SessionOf
    <2>5. OneWriter' /\ WritersProgress' /\ LineageIsWhole' /\ ClearIsThorough'
      BY <1>1, <1>3, <2>1, <2>2, <2>3 DEF OneWriter, WritersProgress, ClearIsThorough, MutexFree
    <2>6. ClearedAreOver'
      <3>1. Begun \subseteq Begun' /\ cleared \subseteq Turns
        BY <1>1, <2>1 DEF Begun, Moves, HistoryOK
      <3>q. QED BY <1>1, <2>3, <3>1 DEF ClearedAreOver
    <2>7. ConversationFaithful'
      BY <1>1, <2>1, <2>2, <2>4 DEF ConversationFaithful
    <2>8. InStep'
      <3>1. rows'[Resolve] = rows[Resolve]
        BY <1>1
      <3>2. (mems[sess[registered]].key)' = Resolve' /\ (rows[mems[sess[registered]].key])' = (mems[sess[registered]].cache)'
        BY <2>1, <2>2, <3>1
      <3>q. QED BY <2>4, <3>2 DEF InStep
    <2>q. QED BY <2>5, <2>6, <2>7, <2>8
  <1>5. CASE registered' = registered
    <2>1. /\ Done(t) /\ lineage' \in {lineage, lineage \union {Resolve}}
          /\ UNCHANGED <<mems, sess, registered, diverged>>
      <3>1. CASE registered' = Len(sess') /\ sess' = Append(sess, Len(mems'))
                 /\ mems' = Append(mems, [key |-> Resolve, cache |-> rows[Resolve], open |-> TRUE])
        <4>1. sess \in Seq(Nat) /\ Len(sess) \in Nat /\ mems \in Seq(Memories)
          BY DEF ObjectsOK
        <4>2. registered' = Len(sess) + 1
          BY <3>1, <4>1
        <4>q. QED BY <1>1, <1>5, <4>1, <4>2 DEF None
      <3>2. CASE Done(t) /\ lineage' \in {lineage, lineage \union {Resolve}}
                 /\ UNCHANGED <<mems, sess, registered, diverged>>
        BY <3>2
      <3>q. QED BY <3>1, <3>2 DEF Create, objects
    <2>2. Moves(t) /\ pc'[t] = "done"
      BY <2>1, DoneMoves
    <2>3. MemsKept
      BY <2>1, SameMemories
    <2>4. UNCHANGED <<rows, head, sess, registered, clear, cancelled, history>>
      BY <1>1, <2>1 DEF history
    <2>5. ~Started(t)' /\ ~Writer(t)' /\ t \in Begun'
      BY <2>2 DEF Started, Writer, Begun
    <2>6. lineage' = lineage \/ (MutexFree /\ lineage \subseteq lineage' /\ 0 \in lineage')
      BY <1>1, <1>3, <2>1
    <2>q. QED BY <1>1, <2>2, <2>3, <2>4, <2>5, <2>6, QuietConversation
  <1>q. QED BY <1>4, <1>5

(* While /clear runs nobody writes. *)
LEMMA NobodyWrites ==
  ASSUME ShapeInv, ConversationInv, NEW t \in Turns, ~MutexFree \/ registered = None
  PROVE  ~Writer(t)
  BY SessionOf DEF ConversationInv, OneWriter, ShapeInv, Writer, Started

(* Without a writer and without a Session in step there is less to show. *)
LEMMA NoWriterLeft ==
  ASSUME ShapeInv', \A t \in Turns : ~Writer(t)',
         LineageIsWhole', ClearIsThorough', ConversationFaithful', cleared' \subseteq Begun',
         diverged' \/ ~MutexFree' \/ registered' = None
  PROVE  ConversationInv'
  <1>1. OneWriter' /\ WritersProgress'
    BY DEF OneWriter, WritersProgress
  <1>2. cleared' \subseteq Turns
    BY DEF ShapeInv, HistoryOK
  <1>3. ClearedAreOver'
    BY <1>2 DEF ClearedAreOver
  <1>4. registered' = None => \A t \in Turns : pc'[t] = "swap" => local'[t].obj # registered'
    <2> SUFFICES ASSUME NEW t \in Turns, pc'[t] = "swap", registered' = None
                 PROVE  local'[t].obj # None
      OBVIOUS
    <2>1. local'[t].obj \in DOMAIN sess' /\ sess' \in Seq(Nat)
      BY DEF ShapeInv, TurnsOK, ObjectsOK
    <2>2. Len(sess') \in Nat /\ DOMAIN sess' = 1..Len(sess')
      BY <2>1
    <2>q. QED BY <2>1, <2>2 DEF None
  <1>5. InStep'
    BY <1>4 DEF InStep
  <1>q. QED BY <1>1, <1>3, <1>5 DEF ConversationInv

LEMMA ClearBeginsConversation ==
  ASSUME ShapeInv, ShapeInv', ConversationInv, ClearBegins
  PROVE  ConversationInv'
  <1> USE DEF ConversationInv, ShapeInv
  <1>1. /\ UNCHANGED <<rows, head, lineage, mems, sess, registered, pc, local, history>>
        /\ clear'.step = "rows" /\ clear'.keys = ClearKeys /\ MutexFree
        /\ cancelled' = IF registered = None THEN cancelled
                        ELSE cancelled \union TurnsOf(registered)
    BY DEF ClearBegins, store, objects
  <1>2. \A t \in Turns : ~Writer(t)'
    <2> SUFFICES ASSUME NEW t \in Turns, Writer(t)' PROVE FALSE
      OBVIOUS
    <2>1. Writer(t)
      BY <1>1 DEF Writer, Started
    <2>2. local[t].obj = registered /\ registered # None
      BY <2>1, NobodyWrites DEF OneWriter
    <2>3. t \in TurnsOf(registered)
      BY <2>1, <2>2 DEF TurnsOf, Writer
    <2>q. QED BY <1>1, <2>2, <2>3 DEF Writer
  <1>3. ~MutexFree'
    BY <1>1 DEF MutexFree
  <1>4. LineageIsWhole'
    BY <1>1 DEF LineageIsWhole
  <1>5. ClearIsThorough'
    BY <1>1 DEF ClearIsThorough, ClearKeys
  <1>6. Resolve' = Resolve /\ \A inputs : Faithful(inputs)' <=> Faithful(inputs)
    BY <1>1 DEF Resolve, Faithful, Kept, history
  <1>7. ConversationFaithful'
    BY <1>1, <1>6 DEF ConversationFaithful
  <1>8. cleared' \subseteq Begun'
    BY <1>1 DEF history, ClearedAreOver, Begun, HistoryOK
  <1>q. QED BY <1>2, <1>3, <1>4, <1>5, <1>7, <1>8, NoWriterLeft

(* The rows of a key go, and with them the duty to keep what they told. *)
LEMMA ClearRowsConversation ==
  ASSUME ShapeInv, ShapeInv', ConversationInv, ClearRows
  PROVE  ConversationInv'
  <1> USE DEF ConversationInv, ShapeInv
  <1>1. /\ UNCHANGED <<head, lineage, mems, sess, registered, pc, local, cancelled, answered,
                       cleared, ghost, diverged>>
        /\ clear.step = "rows" /\ clear \in Clears
    BY DEF ClearRows, objects, OnlyBegunStored
  <1>2. PICK k \in clear.keys : /\ rows' = [rows EXCEPT ![k] = {}]
                                /\ wiped' = wiped \union rows[k]
                                /\ clear' = [clear EXCEPT !.keys = @ \ {k}]
    BY DEF ClearRows
  <1>3. /\ clear'.step = "rows" /\ clear'.keys = clear.keys \ {k} /\ k \in Keys
        /\ rows'[k] = {} /\ \A j \in Keys \ {k} : rows'[j] = rows[j]
    BY <1>1, <1>2 DEF Clears, StoreOK
  <1>4. ~MutexFree /\ ~MutexFree'
    BY <1>1, <1>3 DEF MutexFree
  <1>5. \A t \in Turns : ~Writer(t)'
    BY <1>1, <1>4, NobodyWrites DEF Writer, Started
  <1>6. LineageIsWhole'
    BY <1>1 DEF LineageIsWhole
  <1>7. ClearIsThorough'
    <2>1. ClearKeys' = ClearKeys /\ ClearKeys \subseteq Keys
      BY <1>1, KeysAre DEF ClearKeys, StoreOK
    <2>2. \A j \in ClearKeys' \ clear'.keys : rows'[j] = {}
      BY <1>3, <1>4, <2>1 DEF ClearIsThorough
    <2>q. QED BY <1>3, <2>2 DEF ClearIsThorough
  <1>8. /\ Resolve' = Resolve /\ Resolve \in Keys
        /\ \A inputs : Faithful(inputs) => Faithful(inputs)'
    BY <1>1, <1>2, ResolveIsKey DEF Resolve, Faithful, Kept
  <1>9. ConversationFaithful'
    <2>1. Faithful(rows[Resolve])'
      <3>1. CASE Resolve = k
        BY <1>1, <1>2, <1>3, <1>8, <3>1 DEF ConversationFaithful, Faithful, Kept
      <3>2. CASE Resolve # k
        BY <1>3, <1>8, <3>2 DEF ConversationFaithful
      <3>q. QED BY <3>1, <3>2
    <2>q. QED BY <1>1, <1>8, <2>1 DEF ConversationFaithful
  <1>10. cleared' \subseteq Begun'
    BY <1>1 DEF ClearedAreOver, Begun, HistoryOK
  <1>q. QED BY <1>4, <1>5, <1>6, <1>7, <1>9, <1>10, NoWriterLeft

(* The active key had no rows left: nothing is to be kept any more. *)
LEMMA ClearHeadConversation ==
  ASSUME ShapeInv, ShapeInv', ConversationInv, ClearHead
  PROVE  ConversationInv'
  <1> USE DEF ConversationInv, ShapeInv
  <1>1. /\ UNCHANGED <<rows, lineage, mems, sess, registered, pc, local, cancelled, history>>
        /\ head' = NoKey /\ clear.step = "rows" /\ clear.keys = {}
        /\ clear' = [clear EXCEPT !.step = "lineage"] /\ clear \in Clears
    BY DEF ClearHead, objects, OnlyBegunStored
  <1>2. clear'.step = "lineage" /\ clear'.keys = {}
    BY <1>1 DEF Clears
  <1>3. ~MutexFree /\ ~MutexFree'
    BY <1>1, <1>2 DEF MutexFree
  <1>4. \A t \in Turns : ~Writer(t)'
    BY <1>1, <1>3, NobodyWrites DEF Writer, Started
  <1>5. LineageIsWhole'
    BY <1>1 DEF LineageIsWhole
  <1>6. \A k \in ClearKeys : rows[k] = {}
    BY <1>1, <1>3 DEF ClearIsThorough
  <1>7. ClearIsThorough'
    BY <1>1, <1>2, <1>6 DEF ClearIsThorough, ClearKeys
  <1>8. \A inputs : Faithful(inputs)' <=> Faithful(inputs)
    BY <1>1 DEF Faithful, Kept, history
  <1>9. Faithful(rows[0])
    <2>1. CASE head = NoKey
      BY <2>1 DEF ConversationFaithful, Resolve
    <2>2. CASE head # NoKey
      <3>1. head \in lineage /\ 0 \in lineage
        BY <2>2 DEF LineageIsWhole
      <3>2. rows[head] = {} /\ rows[0] = {}
        BY <1>6, <3>1 DEF ClearKeys
      <3>q. QED BY <2>2, <3>2 DEF ConversationFaithful, Resolve
    <2>q. QED BY <2>1, <2>2
  <1>10. ConversationFaithful'
    BY <1>1, <1>8, <1>9 DEF ConversationFaithful, Resolve
  <1>11. cleared' \subseteq Begun'
    BY <1>1 DEF history, ClearedAreOver, Begun, HistoryOK
  <1>q. QED BY <1>3, <1>4, <1>5, <1>7, <1>10, <1>11, NoWriterLeft

LEMMA ClearLineageConversation ==
  ASSUME ShapeInv, ShapeInv', ConversationInv, ClearLineage
  PROVE  ConversationInv'
  <1> USE DEF ConversationInv, ShapeInv
  <1>1. /\ UNCHANGED <<rows, head, sess, pc, local, cancelled, answered, wiped, ghost, diverged>>
        /\ lineage' = {} /\ registered' = None /\ clear.step = "lineage"
        /\ clear' = NoClear /\ cleared' = cleared \union clear.told
    BY DEF ClearLineage
  <1>2. ~MutexFree /\ head = NoKey /\ clear.keys = {}
    BY <1>1 DEF MutexFree, ClearIsThorough
  <1>3. \A t \in Turns : ~Writer(t)'
    BY <1>1, <1>2, NobodyWrites DEF Writer, Started
  <1>4. LineageIsWhole'
    BY <1>1, <1>2 DEF LineageIsWhole
  <1>5. ClearIsThorough'
    BY <1>1 DEF ClearIsThorough, MutexFree, NoClear
  <1>6. rows[0] = {}
    BY <1>2 DEF ClearIsThorough, ClearKeys, LineageIsWhole
  <1>7. Resolve = 0 /\ Resolve' = 0
    BY <1>1, <1>2 DEF Resolve
  <1>8. Kept' = {}
    BY <1>1, <1>6, <1>7 DEF ConversationFaithful, Faithful, Kept
  <1>9. ConversationFaithful'
    <2>1. Faithful(rows[Resolve])'
      BY <1>1, <1>6, <1>7, <1>8 DEF Faithful
    <2>2. \A t \in Turns : pc'[t] = "swap" => local'[t].obj # registered'
      BY <1>1, SessionOf
    <2>q. QED BY <1>1, <2>1, <2>2 DEF ConversationFaithful
  <1>10. cleared' \subseteq Begun'
    BY <1>1 DEF ClearedAreOver, Begun, HistoryOK, OnlyBegunStored
  <1>q. QED BY <1>1, <1>3, <1>4, <1>5, <1>9, <1>10, NoWriterLeft

LEMMA ClearFailsConversation ==
  ASSUME ShapeInv, ShapeInv', ConversationInv, ClearFails
  PROVE  ConversationInv'
  <1> USE DEF ConversationInv, ShapeInv
  <1>1. /\ UNCHANGED <<rows, head, lineage, mems, sess, registered, pc, local, cancelled,
                       answered, wiped, cleared, ghost>>
        /\ clear' = NoClear /\ diverged' = TRUE /\ ~MutexFree
    BY DEF ClearFails, store, objects
  <1>2. \A t \in Turns : ~Writer(t)'
    BY <1>1, NobodyWrites DEF Writer, Started
  <1>3. LineageIsWhole' /\ ClearIsThorough'
    BY <1>1 DEF LineageIsWhole, ClearIsThorough, MutexFree, NoClear
  <1>4. Resolve' = Resolve /\ \A inputs : Faithful(inputs)' <=> Faithful(inputs)
    BY <1>1 DEF Resolve, Faithful, Kept
  <1>5. ConversationFaithful'
    BY <1>1, <1>4 DEF ConversationFaithful
  <1>6. cleared' \subseteq Begun'
    BY <1>1 DEF ClearedAreOver, Begun, HistoryOK
  <1>q. QED BY <1>1, <1>2, <1>3, <1>5, <1>6, NoWriterLeft

LEMMA EvictConversation ==
  ASSUME ShapeInv, ShapeInv', ConversationInv, Evict
  PROVE  ConversationInv'
  <1> USE DEF ConversationInv, ShapeInv
  <1>1. /\ UNCHANGED <<rows, head, lineage, sess, clear, pc, local, cancelled, history>>
        /\ registered' = None /\ \A t \in Turns : local[t].obj # registered /\ MutexFree
    BY DEF Evict, store
  <1>2. \A t \in Turns : ~Writer(t)'
    BY <1>1 DEF Writer, Started, OneWriter
  <1>3. LineageIsWhole' /\ ClearIsThorough'
    BY <1>1 DEF LineageIsWhole, ClearIsThorough, MutexFree, ClearKeys
  <1>4. Resolve' = Resolve /\ \A inputs : Faithful(inputs)' <=> Faithful(inputs)
    BY <1>1 DEF Resolve, Faithful, Kept, history
  <1>5. ConversationFaithful'
    <2>1. \A t \in Turns : pc'[t] = "swap" => local'[t].obj # registered'
      BY <1>1, SessionOf
    <2>q. QED BY <1>1, <1>4, <2>1 DEF ConversationFaithful
  <1>6. cleared' \subseteq Begun'
    BY <1>1 DEF ClearedAreOver, Begun, HistoryOK, history
  <1>q. QED BY <1>1, <1>2, <1>3, <1>5, <1>6, NoWriterLeft

LEMMA RestartConversation ==
  ASSUME ShapeInv, ShapeInv', ConversationInv, Restart
  PROVE  ConversationInv'
  <1> USE DEF ConversationInv, ShapeInv
  <1>1. /\ UNCHANGED <<rows, head, lineage, cancelled, history>>
        /\ registered' = None /\ clear' = NoClear
        /\ pc' = [t \in Turns |-> IF pc[t] = "new" THEN "new" ELSE "done"]
    BY DEF Restart, store
  <1>2. \A t \in Turns : ~Writer(t)' /\ pc'[t] # "swap"
    BY <1>1 DEF Writer, Started
  <1>3. LineageIsWhole' /\ ClearIsThorough'
    BY <1>1 DEF LineageIsWhole, ClearIsThorough, MutexFree, NoClear
  <1>4. Resolve' = Resolve /\ \A inputs : Faithful(inputs)' <=> Faithful(inputs)
    BY <1>1 DEF Resolve, Faithful, Kept, history
  <1>5. ConversationFaithful'
    BY <1>1, <1>2, <1>4 DEF ConversationFaithful
  <1>6. cleared' \subseteq Begun'
    BY <1>1 DEF ClearedAreOver, Begun, HistoryOK, history
  <1>q. QED BY <1>1, <1>2, <1>3, <1>5, <1>6, NoWriterLeft

--------------------------------------------------------------------------------
(* What has happened stays so. *)
LEMMA GhostStays == ASSUME [Next]_vars, ghost PROVE ghost'
  <1>1. ASSUME NEW t \in Turns, TurnStep(t) PROVE ghost'
    BY <1>1 DEF TurnStep, Lookup, Create, StartTurn, Decide, RunBegins, SummaryRunBegins, RunEnds,
       SummaryRunEnds, Answer, history
  <1>2. ASSUME NEW t \in Turns, HandoffStep(t) PROVE ghost'
    BY <1>2 DEF HandoffStep, ReadHistory, SeedSummary, KeepStableKey, KeepBackingKey, SetHead,
       Swap, CloseOld, history
  <1>3. ASSUME ClearStep PROVE ghost'
    BY <1>3 DEF ClearStep, ClearBegins, ClearRows, ClearHead, ClearLineage, ClearFails, history
  <1>4. ASSUME Evict \/ Restart \/ UNCHANGED vars PROVE ghost'
    BY <1>4 DEF Evict, Restart, vars, history
  <1>q. QED BY <1>1, <1>2, <1>3, <1>4 DEF Next, Idle

(* Every step keeps the conversation, unless a turn has begun on a Session *)
(* /clear was dropping.                                                    *)
LEMMA ConversationStep ==
  ASSUME ShapeInv, ShapeInv', ghost \/ ConversationInv, [Next]_vars
  PROVE  ghost' \/ ConversationInv'
  <1> SUFFICES ASSUME ~ghost' PROVE ConversationInv'
    OBVIOUS
  <1> USE GhostStays
  <1>0. ConversationInv
    OBVIOUS
  <1>1. ASSUME NEW t \in Turns, TurnStep(t) PROVE ConversationInv'
    BY <1>0, <1>1, LookupConversation, CreateConversation, StartTurnConversation,
       DecideConversation, RunBeginsConversation, SummaryRunBeginsConversation,
       RunEndsConversation, SummaryRunEndsConversation, AnswerConversation DEF TurnStep
  <1>2. ASSUME NEW t \in Turns, HandoffStep(t) PROVE ConversationInv'
    BY <1>0, <1>2, ReadHistoryConversation, SeedSummaryConversation, KeepStableKeyConversation,
       KeepBackingKeyConversation, SetHeadConversation, SwapConversation, CloseOldConversation
       DEF HandoffStep
  <1>3. ASSUME ClearStep PROVE ConversationInv'
    BY <1>0, <1>3, ClearBeginsConversation, ClearRowsConversation, ClearHeadConversation,
       ClearLineageConversation, ClearFailsConversation DEF ClearStep
  <1>4. ASSUME UNCHANGED vars PROVE ConversationInv'
    BY <1>0, <1>4 DEF vars, ConversationInv, OneWriter, LineageIsWhole, ClearIsThorough,
       ClearKeys, MutexFree, ClearedAreOver, ConversationFaithful, InStep, WritersProgress,
       SummaryReady, UpToDate, Writer, Started, Begun, Faithful, Kept, Resolve
  <1>q. QED BY <1>0, <1>1, <1>2, <1>3, <1>4, EvictConversation, RestartConversation
            DEF Next, Idle

LEMMA InitConversation == ASSUME Init, ShapeInv PROVE ConversationInv
  <1> USE DEF Init
  <1>1. \A t \in Turns : ~Writer(t) /\ pc[t] # "swap"
    BY DEF Writer, Started
  <1>2. OneWriter /\ WritersProgress
    BY <1>1 DEF OneWriter, WritersProgress
  <1>3. LineageIsWhole /\ ClearIsThorough
    BY DEF LineageIsWhole, ClearIsThorough, MutexFree, NoClear
  <1>4. ClearedAreOver
    BY DEF ClearedAreOver
  <1>5. ConversationFaithful
    BY <1>1, KeysAre DEF ConversationFaithful, Faithful, Kept, Resolve, None
  <1>6. InStep
    BY <1>1 DEF InStep, None
  <1>q. QED BY <1>2, <1>3, <1>4, <1>5, <1>6 DEF ConversationInv

(* The inductive invariant: the shape of the state, who may write, and     *)
(* what the conversation tells of.                                         *)
THEOREM HistoryInvariance == Spec => []IInv
  <1>1. Init => IInv
    BY InitShape, InitConversation DEF IInv
  <1>2. IInv /\ [Next]_vars => IInv'
    BY ShapeStep, ConversationStep DEF IInv
  <1>q. QED BY <1>1, <1>2, PTL DEF Spec

(* Turns, memories, Sessions and keys are what they should be, and nothing *)
(* is stored of a turn that has not begun.                                 *)
THEOREM HistoryTypeCorrect == Spec => []ShapeInv
  <1>1. IInv => ShapeInv
    BY DEF IInv
  <1>q. QED BY <1>1, HistoryInvariance, PTL

(* Whatever statement fails last, the active key is in the lineage, so     *)
(* /clear deletes what a new Session would read.                           *)
THEOREM TheHeadIsKnown == Spec => []HeadIsKnown
  <1>1. IInv => HeadIsKnown
    BY DEF IInv, ConversationInv, LineageIsWhole, HeadIsKnown
  <1>q. QED BY <1>1, HistoryInvariance, PTL

(* The input of an answered turn stays in the conversation through         *)
(* handoffs, failures, evictions and restarts, until /clear deletes it.    *)
THEOREM WhatIsAnsweredIsKept == Spec => []AnsweredIsKept
  <1>1. IInv => AnsweredIsKept
    BY DEF IInv, ConversationInv, ConversationFaithful, Faithful, Kept, AnsweredIsKept
  <1>q. QED BY <1>1, HistoryInvariance, PTL

(* A Session that has not diverged works on the active key, except for the *)
(* moment between SetHead and the exchange.                                *)
THEOREM SessionsWorkOnTheActiveKey == Spec => []SessionOnActiveKey
  <1>1. ASSUME IInv, registered # None, MutexFree, ~diverged, ~ghost
        PROVE  \/ \E t \in TurnsOf(registered) : pc[t] = "swap"
               \/ mems[sess[registered]].key = Resolve
    <2>1. ConversationInv
      BY <1>1 DEF IInv
    <2>2. CASE \E t \in Turns : Writer(t) /\ pc[t] = "swap"
      <3> PICK t \in Turns : Writer(t) /\ pc[t] = "swap"
        BY <2>2
      <3>1. t \in TurnsOf(registered)
        BY <2>1 DEF ConversationInv, OneWriter, Writer, TurnsOf
      <3>q. QED BY <3>1
    <2>3. CASE mems[sess[registered]].key = Resolve
      BY <2>3
    <2>q. QED BY <1>1, <2>1, <2>2, <2>3 DEF ConversationInv, InStep
  <1>2. IInv => SessionOnActiveKey
    BY <1>1 DEF SessionOnActiveKey
  <1>q. QED BY <1>2, HistoryInvariance, PTL

(* What the agent of such a Session sees is what is stored. *)
THEOREM TheCacheMatchesTheStore == Spec => []CacheMatchesStore
  <1>1. IInv => CacheMatchesStore
    BY DEF IInv, ConversationInv, InStep, CacheMatchesStore
  <1>q. QED BY <1>1, HistoryInvariance, PTL

(* Inputs a successful /clear has deleted do not come back, as long as no  *)
(* turn begins on the Session it drops.                                    *)
THEOREM ClearedInputsStayCleared == Spec => []ClearedStaysCleared
  <1>1. IInv => ClearedStaysCleared
    BY DEF IInv, ConversationInv, ConversationFaithful, Faithful, ClearedStaysCleared,
       ClearIsFinal
  <1>q. QED BY <1>1, HistoryInvariance, PTL
--------------------------------------------------------------------------------
(* The conversation as its user sees it.  Settled is what the abstract     *)
(* module calls settled.                                                   *)
Settled == ~ghost /\ ~diverged

(* At most one turn is at work. *)
LEMMA OneAtWork ==
  ASSUME ShapeInv, ConversationInv
  PROVE  /\ Writing \subseteq Turns
         /\ Writing = {} \/ \E t \in Turns : Writing = {t}
         /\ \A t \in Turns : t \in Writing <=> Writer(t)
  BY DEF ConversationInv, OneWriter, Writing, Writer

(* A step that leaves the conversation as it is and sets no turn to work. *)
LEMMA StaysAsItIs ==
  ASSUME ShapeInv, ConversationInv, Settled, Settled', Writing' \subseteq Writing,
         (rows[Resolve])' = rows[Resolve], MutexFree' = MutexFree
  PROVE  [Abstract!Next]_(Abstract!vars)
  <1>1. CASE Writing' = {}
    <2>1. Abstract!End
      BY <1>1 DEF Abstract!End, Settled
    <2>q. QED BY <2>1 DEF Abstract!Next, Settled
  <1>2. CASE Writing' # {}
    <2>1. Writing' = Writing
      BY <1>2, OneAtWork
    <2>q. QED BY <2>1 DEF Abstract!vars, Settled
  <1>q. QED BY <1>1, <1>2

(* The same of the steps of one turn that do not begin it. *)
LEMMA TurnGoesOn ==
  ASSUME ShapeInv, ConversationInv, Settled, Settled', NEW t \in Turns, Moves(t),
         UNCHANGED <<clear, cancelled>>, (rows[Resolve])' = rows[Resolve],
         Started(t)' => Started(t)
  PROVE  [Abstract!Next]_(Abstract!vars)
  <1>1. Writing' \subseteq Writing
    BY DEF Writing, Started, Moves
  <1>2. MutexFree' = MutexFree
    BY DEF MutexFree
  <1>q. QED BY <1>1, <1>2, StaysAsItIs

(* Steps of a turn that store nothing a new Session would read. *)
LEMMA QuietTurns ==
  ASSUME ShapeInv, ConversationInv, Settled, Settled', NEW t \in Turns,
         \/ Lookup(t) \/ Decide(t) \/ RunEnds(t) \/ Answer(t) \/ ReadHistory(t) \/ CloseOld(t)
         \/ SummaryRunEnds(t) \/ KeepStableKey(t) \/ KeepBackingKey(t) \/ Swap(t)
  PROVE  [Abstract!Next]_(Abstract!vars)
  <1> USE DEF ShapeInv
  <1>1. UNCHANGED <<rows, head, clear, cancelled>>
    BY DEF Lookup, Decide, RunEnds, Answer, ReadHistory, CloseOld, SummaryRunEnds, KeepStableKey,
       KeepBackingKey, Swap, store
  <1>2. (rows[Resolve])' = rows[Resolve]
    BY <1>1 DEF Resolve
  <1>3. Moves(t)
    BY LookupMoves, DecideMoves, RunEndsMoves, ReadHistoryMoves, SwapMoves, FailureMoves, DoneMoves,
       GotoStays DEF Answer, CloseOld, SummaryRunEnds, KeepStableKey, KeepBackingKey, DropSummary,
       Steps, Outcome
  <1>4. Started(t)' => Started(t)
    <2>1. CASE Lookup(t)
      BY <2>1, LookupMoves DEF Started
    <2>q. QED BY <2>1 DEF Started, Decide, RunEnds, Answer, ReadHistory, CloseOld,
                 SummaryRunEnds, KeepStableKey, KeepBackingKey, Swap
  <1>q. QED BY <1>1, <1>2, <1>3, <1>4, TurnGoesOn

(* A new key is nobody's conversation yet. *)
LEMMA SeedingKeepsTold ==
  ASSUME ShapeInv, ConversationInv, Settled, Settled', NEW t \in Turns, SeedSummary(t)
  PROVE  [Abstract!Next]_(Abstract!vars)
  <1> USE DEF ShapeInv
  <1>1. pc[t] = "seed" /\ UNCHANGED <<head, clear, cancelled>>
    BY DEF SeedSummary
  <1>2. Resolve' = Resolve /\ Resolve \in Keys /\ Started(t)
    BY <1>1, ResolveIsKey DEF Resolve, Started
  <1>3. CASE HandoffFails(t) /\ UNCHANGED <<rows, mems, counts>>
    <2>1. Moves(t)
      BY <1>3, FailureMoves
    <2>q. QED BY <1>1, <1>2, <1>3, <2>1, TurnGoesOn
  <1>4. CASE ~(HandoffFails(t) /\ UNCHANGED <<rows, mems, counts>>)
    <2> DEFINE k == counts.keys + 1
    <2>1. Moves(t) /\ k # Resolve /\ \A j \in Keys \ {k} : rows'[j] = rows[j]
      BY <1>4, SeededSummary
    <2> HIDE DEF k
    <2>2. (rows[Resolve])' = rows[Resolve]
      BY <1>2, <2>1
    <2>q. QED BY <1>1, <1>2, <2>1, <2>2, TurnGoesOn
  <1>q. QED BY <1>3, <1>4

(* The summary that becomes the conversation tells of all of it. *)
LEMMA HeadKeepsTold ==
  ASSUME ShapeInv, ConversationInv, Settled, Settled', NEW t \in Turns, SetHead(t)
  PROVE  [Abstract!Next]_(Abstract!vars)
  <1> USE DEF ShapeInv
  <1>1. pc[t] = "head" /\ UNCHANGED <<rows, clear, cancelled>> /\ Started(t)
    BY DEF SetHead, Started
  <1>2. CASE DropSummary(t) /\ UNCHANGED head
    <2>1. Moves(t) /\ (rows[Resolve])' = rows[Resolve]
      BY <1>1, <1>2, FailureMoves DEF DropSummary, Resolve
    <2>q. QED BY <1>1, <2>1, TurnGoesOn
  <1>3. CASE /\ Works(t, local[t].mem) /\ head' = mems[local[t].mem].key
             /\ Goto(t, "swap") /\ UNCHANGED <<mems, local>>
    <2>1. Moves(t) /\ Writer(t)
      BY <1>1, <1>3, GotoStays DEF Steps, Works, Writer
    <2>2. SummaryReady(t) /\ UpToDate(t)
      BY <2>1 DEF ConversationInv, WritersProgress
    <2>3. local[t].mem \in DOMAIN mems /\ mems[local[t].mem].key \in Keys
      BY <1>1, MemoryFields DEF TurnsOK, HasMemory
    <2>4. Resolve' = mems[local[t].mem].key
      BY <1>3, <2>3, KeysAre DEF Resolve
    <2>5. rows[mems[local[t].mem].key] = rows[Resolve]
      BY <1>1, <2>2 DEF SummaryReady, UpToDate, Settled
    <2>6. (rows[Resolve])' = rows[Resolve]
      BY <1>1, <2>4, <2>5
    <2>q. QED BY <1>1, <2>1, <2>6, TurnGoesOn
  <1>q. QED BY <1>2, <1>3 DEF SetHead, Outcome

(* The one turn at work adds its input to the active key. *)
LEMMA WritingTells ==
  ASSUME ShapeInv, ConversationInv, Settled, Settled', NEW t \in Turns,
         NEW m \in DOMAIN mems, Works(t, m), m = sess[registered], AddMessage(t, m, TRUE),
         pc[t] \in {"run", "summaryRun"}, Moves(t), pc'[t] \in {"think", "summaryThink"},
         UNCHANGED <<head, clear, cancelled>>
  PROVE  [Abstract!Next]_(Abstract!vars)
  <1> USE DEF ShapeInv
  <1>1. Writer(t) /\ MutexFree /\ registered # None
    BY SessionOf DEF Works, Writer, Started, ConversationInv, OneWriter
  <1>2. Writing = {t} /\ Writing' = {t}
    <2>1. \A u \in Turns : Writer(u) <=> u = t
      BY <1>1 DEF ConversationInv, OneWriter
    <2>2. \A u \in Turns : u # t => (Writer(u)' <=> Writer(u))
      BY DEF Writer, Started, Moves
    <2>3. Writer(t)'
      BY <1>1 DEF Writer, Started
    <2>q. QED BY <2>1, <2>2, <2>3 DEF Writing, Writer
  <1>3. mems[m].key = Resolve /\ Resolve \in Keys
    <2>1. \A u \in Turns : Writer(u) => pc[u] # "swap"
      BY <1>1 DEF ConversationInv, OneWriter
    <2>q. QED BY <1>1, <2>1, ResolveIsKey DEF ConversationInv, InStep, Settled
  <1>4. (rows[Resolve])' = rows[Resolve] \union {t}
    <2>1. Resolve' = Resolve
      BY DEF Resolve
    <2>q. QED BY <1>3, <2>1, AddedMessage
  <1>5. MutexFree'
    BY <1>1 DEF MutexFree
  <1>6. Abstract!Tell
    BY <1>1, <1>2, <1>4, <1>5 DEF Abstract!Tell, Settled
  <1>q. QED BY <1>6 DEF Abstract!Next, Settled

(* A run that begins, also one after a handoff, stores its input or fails. *)
LEMMA RunsTell ==
  ASSUME ShapeInv, ConversationInv, Settled, Settled', NEW t \in Turns, NEW ok \in BOOLEAN,
         RunBegins(t, ok) \/ SummaryRunBegins(t, ok)
  PROVE  [Abstract!Next]_(Abstract!vars)
  <1> USE DEF ShapeInv
  <1>1. PICK m \in DOMAIN mems :
          /\ AddMessage(t, m, ok) /\ Outcome(t, m, ok)
          /\ ok /\ Writer(t) => m = sess[registered]
    <2>1. CASE RunBegins(t, ok)
      <3>1. pc[t] = "run" /\ sess[local[t].obj] \in DOMAIN mems
        BY <2>1, SessionOf DEF RunBegins
      <3>2. Writer(t) => local[t].obj = registered
        BY DEF ConversationInv, OneWriter
      <3>q. QED BY <2>1, <3>1, <3>2 DEF RunBegins
    <2>2. CASE SummaryRunBegins(t, ok)
      <3>1. pc[t] = "summaryRun" /\ local[t].mem \in DOMAIN mems
        BY <2>2 DEF SummaryRunBegins, TurnsOK, HasMemory
      <3>2. Writer(t) => local[t].mem = sess[registered]
        BY <3>1 DEF ConversationInv, WritersProgress, UpToDate, Settled
      <3>q. QED BY <2>2, <3>1, <3>2 DEF SummaryRunBegins
    <2>q. QED BY <2>1, <2>2
  <1>2. pc[t] \in {"run", "summaryRun"} /\ UNCHANGED <<head, clear, cancelled>> /\ Started(t)
    BY DEF RunBegins, SummaryRunBegins, Started
  <1>3. CASE ok
    <2>1. Moves(t) /\ pc'[t] \in {"think", "summaryThink"}
      BY <1>3, RunBeginsMoves, GotoStays DEF SummaryRunBegins, Steps
    <2>2. Works(t, m) /\ AddMessage(t, m, TRUE) /\ Writer(t)
      BY <1>1, <1>2, <1>3 DEF Outcome, Works, Writer
    <2>q. QED BY <1>1, <1>2, <1>3, <2>1, <2>2, WritingTells
  <1>4. CASE ~ok
    <2>1. UNCHANGED rows
      BY <1>1, <1>4 DEF AddMessage
    <2>2. Moves(t)
      BY <1>4, RunBeginsMoves, FailureMoves DEF SummaryRunBegins
    <2>3. (rows[Resolve])' = rows[Resolve]
      BY <1>2, <2>1 DEF Resolve
    <2>q. QED BY <1>2, <2>2, <2>3, TurnGoesOn
  <1>q. QED BY <1>3, <1>4

(* startTurn puts a turn in the place of all others. *)
LEMMA StartingBegins ==
  ASSUME ShapeInv, ConversationInv, Settled, Settled', NEW t \in Turns, StartTurn(t)
  PROVE  [Abstract!Next]_(Abstract!vars)
  <1> USE DEF ShapeInv
  <1>1. /\ pc[t] = "start" /\ Goto(t, "decide") /\ registered = local[t].obj /\ MutexFree
        /\ cancelled' = cancelled \union TurnsOf(local[t].obj)
        /\ UNCHANGED <<rows, head, clear, local>>
    BY DEF StartTurn, store, Settled
  <1>2. Moves(t)
    BY <1>1, GotoStays DEF Steps
  <1>3. (rows[Resolve])' = rows[Resolve] /\ MutexFree'
    BY <1>1 DEF Resolve, MutexFree
  <1>4. \A u \in Turns : Writer(u) => u \in cancelled'
    BY <1>1 DEF ConversationInv, OneWriter, TurnsOf, Writer
  <1>5. Writing' \subseteq {t}
    BY <1>1, <1>2, <1>4 DEF Writing, Writer, Started, Moves
  <1>6. CASE Writing' = {}
    BY <1>1, <1>3, <1>6, StaysAsItIs DEF MutexFree
  <1>7. CASE Writing' # {}
    <2>1. Writing' = {t}
      BY <1>5, <1>7
    <2>2. Abstract!Begin(t)
      BY <1>1, <1>3, <2>1 DEF Abstract!Begin, Settled
    <2>q. QED BY <2>2 DEF Abstract!Next, Settled
  <1>q. QED BY <1>6, <1>7

(* A new Session, one that is dropped and the end of the process leave     *)
(* what is stored.                                                         *)
LEMMA SessionsComeAndGo ==
  ASSUME ShapeInv, ConversationInv, Settled, Settled',
         Evict \/ Restart \/ \E t \in Turns : Create(t)
  PROVE  [Abstract!Next]_(Abstract!vars)
  <1>1. UNCHANGED <<rows, head, cancelled>>
    BY DEF Evict, Restart, Create, store
  <1>2. (rows[Resolve])' = rows[Resolve]
    BY <1>1 DEF Resolve
  <1>3. CASE Evict
    BY <1>2, <1>3, StaysAsItIs DEF Evict, Writing, Started, MutexFree
  <1>4. CASE Restart
    <2>1. Writing' = {} /\ MutexFree'
      BY <1>4 DEF Restart, Writing, Started, MutexFree, NoClear
    <2>2. CASE MutexFree
      BY <1>2, <2>1, <2>2, StaysAsItIs
    <2>3. CASE ~MutexFree
      <3>1. Writing = {}
        BY <2>3, NobodyWrites DEF Writing, Writer
      <3>2. Abstract!EndClear
        BY <1>2, <2>1, <2>3, <3>1 DEF Abstract!EndClear, Settled
      <3>q. QED BY <3>2 DEF Abstract!Next, Settled
    <2>q. QED BY <2>2, <2>3
  <1>5. ASSUME NEW t \in Turns, Create(t) PROVE [Abstract!Next]_(Abstract!vars)
    <2>1. UNCHANGED <<clear, cancelled>> /\ pc[t] = "new"
      BY <1>5 DEF Create, Arrives
    <2>2. /\ ~Started(t)'
          /\ \A u \in Turns : u # t => pc'[u] = pc[u]
      BY <1>5, <2>1 DEF Create, Goto, Done, Started, ShapeInv, TurnsOK
    <2>3. Writing' \subseteq Writing
      BY <2>1, <2>2 DEF Writing, Started
    <2>q. QED BY <1>2, <2>1, <2>3, StaysAsItIs DEF MutexFree
  <1>q. QED BY <1>3, <1>4, <1>5

(* /clear: the turns are cancelled, then the keys emptied one by one; when *)
(* the head goes, what is left under the stable key has been deleted too.  *)
LEMMA ClearingForgets ==
  ASSUME ShapeInv, ConversationInv, ConversationInv', Settled, Settled', ClearStep
  PROVE  [Abstract!Next]_(Abstract!vars)
  <1> USE DEF ShapeInv
  <1>1. CASE ClearBegins
    <2>1. MutexFree /\ ~MutexFree' /\ UNCHANGED <<rows, head>>
      BY <1>1 DEF ClearBegins, store, MutexFree
    <2>2. Writing' = {}
      BY <2>1 DEF ConversationInv, OneWriter, Writing, Writer
    <2>3. Abstract!BeginClear
      BY <2>1, <2>2 DEF Abstract!BeginClear, Resolve, Settled
    <2>q. QED BY <2>3 DEF Abstract!Next, Settled
  <1>2. CASE ClearRows
    <2>1. PICK k \in clear.keys : rows' = [rows EXCEPT ![k] = {}]
      BY <1>2 DEF ClearRows
    <2>2. /\ clear.step = "rows" /\ clear'.step = "rows"
          /\ UNCHANGED <<head, pc, local, cancelled>>
      BY <1>2 DEF ClearRows, OnlyBegunStored, Clears
    <2>3. ~MutexFree /\ ~MutexFree' /\ Writing' = Writing /\ Resolve' = Resolve
      BY <2>2 DEF MutexFree, Writing, Started, Resolve
    <2>4. (rows[Resolve])' = rows[Resolve] \/ (rows[Resolve])' = {}
      BY <2>1, <2>3, ResolveIsKey DEF StoreOK
    <2>5. CASE (rows[Resolve])' = {}
      <3>1. Abstract!Forget
        BY <2>3, <2>5 DEF Abstract!Forget, Settled
      <3>q. QED BY <3>1 DEF Abstract!Next, Settled
    <2>6. CASE (rows[Resolve])' = rows[Resolve]
      <3>1. MutexFree' = MutexFree /\ Writing' \subseteq Writing
        BY <2>2, <2>3 DEF MutexFree
      <3>q. QED BY <2>6, <3>1, StaysAsItIs
    <2>q. QED BY <2>4, <2>5, <2>6
  <1>3. CASE ClearHead
    <2>1. /\ clear.keys = {} /\ clear.step = "rows" /\ clear'.step = "lineage" /\ head' = NoKey
          /\ UNCHANGED <<rows, pc, local, cancelled>>
      BY <1>3 DEF ClearHead, store, OnlyBegunStored, Clears
    <2>2. ~MutexFree /\ ~MutexFree' /\ Writing' = Writing /\ Resolve' = 0
      BY <2>1 DEF MutexFree, Writing, Started, Resolve
    <2>3. rows[0] = {}
      BY <2>1, <2>2 DEF ConversationInv, LineageIsWhole, ClearIsThorough, ClearKeys
    <2>4. Abstract!Forget
      BY <2>1, <2>2, <2>3 DEF Abstract!Forget, Settled
    <2>q. QED BY <2>4 DEF Abstract!Next, Settled
  <1>4. CASE ClearLineage
    <2>1. ~MutexFree /\ MutexFree' /\ UNCHANGED <<rows, head, pc, local, cancelled>>
      BY <1>4 DEF ClearLineage, MutexFree, NoClear
    <2>2. Writing = {} /\ Writing' = Writing
      BY <2>1, NobodyWrites DEF Writing, Writer, Started
    <2>3. Abstract!EndClear
      BY <2>1, <2>2 DEF Abstract!EndClear, Resolve, Settled
    <2>q. QED BY <2>3 DEF Abstract!Next, Settled
  <1>5. CASE ClearFails
    BY <1>5 DEF ClearFails, Settled
  <1>q. QED BY <1>1, <1>2, <1>3, <1>4, <1>5 DEF ClearStep

(* What the conversation may become after any step. *)
LEMMA ShownTypes ==
  ASSUME ShapeInv'
  PROVE  /\ (rows[Resolve])' \in SUBSET Turns /\ Writing' \in SUBSET Turns
         /\ MutexFree' \in BOOLEAN
  <1>1. Resolve' \in Keys
    BY KeysAre DEF ShapeInv, StoreOK, Resolve
  <1>q. QED BY <1>1 DEF ShapeInv, StoreOK, Writing, MutexFree

(* Only startTurn and a /clear that fails unsettle a conversation, and     *)
(* neither changes what it tells.                                          *)
LEMMA UnsettlingKeepsTold ==
  ASSUME Next, Settled, ~Settled'
  PROVE  (rows[Resolve])' = rows[Resolve]
  <1>1. CASE ClearFails
    BY <1>1 DEF ClearFails, store, Resolve
  <1>2. CASE \E t \in Turns : StartTurn(t)
    BY <1>2 DEF StartTurn, store, Resolve
  <1>3. CASE \E t \in Turns : Create(t)
    BY <1>3 DEF Create, Settled
  <1>4. CASE \E t \in Turns : \/ Lookup(t) \/ Decide(t) \/ RunEnds(t) \/ SummaryRunEnds(t)
                              \/ \E ok \in BOOLEAN : RunBegins(t, ok) \/ SummaryRunBegins(t, ok)
                              \/ Answer(t)
    BY <1>4 DEF Lookup, Decide, RunEnds, SummaryRunEnds, RunBegins, SummaryRunBegins, Answer,
       history, Settled
  <1>5. ASSUME NEW t \in Turns, HandoffStep(t) PROVE FALSE
    <2>1. UNCHANGED history
      BY <1>5 DEF HandoffStep, ReadHistory, SeedSummary, KeepStableKey, KeepBackingKey, SetHead,
         Swap, CloseOld
    <2>q. QED BY <2>1 DEF history, Settled
  <1>6. CASE ClearBegins \/ ClearRows \/ ClearHead \/ ClearLineage
    BY <1>6 DEF ClearBegins, ClearRows, ClearHead, ClearLineage, history, Settled
  <1>7. CASE Evict \/ Restart \/ Idle
    BY <1>7 DEF Evict, Restart, Idle, vars, history, Settled
  <1>q. QED BY <1>1, <1>2, <1>3, <1>4, <1>5, <1>6, <1>7 DEF Next, TurnStep, ClearStep

(* Only a new Session settles it, at a time when nobody writes. *)
LEMMA SettlingIsQuiet ==
  ASSUME ShapeInv, ShapeInv', ConversationInv', Next, ~Settled, Settled'
  PROVE  (rows[Resolve])' = rows[Resolve] /\ Writing' = {} /\ MutexFree'
  <1>1. \E t \in Turns : Create(t)
    <2>1. ASSUME NEW t \in Turns, TurnStep(t), ~Create(t) PROVE FALSE
      BY <2>1 DEF TurnStep, Lookup, Decide, RunEnds, SummaryRunEnds, RunBegins,
         SummaryRunBegins, Answer, StartTurn, history, Settled, ShapeInv, HistoryOK
    <2>2. ASSUME NEW t \in Turns, HandoffStep(t) PROVE FALSE
      BY <2>2 DEF HandoffStep, ReadHistory, SeedSummary, KeepStableKey, KeepBackingKey, SetHead,
         Swap, CloseOld, history, Settled
    <2>3. ASSUME ClearStep PROVE FALSE
      BY <2>3 DEF ClearStep, ClearBegins, ClearRows, ClearHead, ClearLineage, ClearFails,
         history, Settled
    <2>4. ASSUME Evict \/ Restart \/ Idle PROVE FALSE
      BY <2>4 DEF Evict, Restart, Idle, vars, history, Settled
    <2>q. QED BY <2>1, <2>2, <2>3, <2>4 DEF Next
  <1>2. PICK t \in Turns : Create(t)
    BY <1>1
  <1>3. /\ UNCHANGED <<rows, head, clear, cancelled>> /\ MutexFree /\ pc[t] = "new"
        /\ registered = None
    BY <1>2 DEF Create, Arrives
  <1>4. (rows[Resolve])' = rows[Resolve] /\ MutexFree'
    BY <1>3 DEF Resolve, MutexFree
  <1>5. ASSUME NEW u \in Turns, Writer(u)' PROVE FALSE
    <2>1. u # t /\ pc'[u] = pc[u]
      BY <1>2, <1>3, <1>5 DEF Create, Goto, Done, Writer, Started, ShapeInv, TurnsOK
    <2>2. local[u].obj \in DOMAIN sess
      BY <1>5, <2>1 DEF Writer, Started, ShapeInv, TurnsOK
    <2>3. local'[u] = local[u]
      BY <1>2, <2>1 DEF Create, Done, ShapeInv, TurnsOK
    <2>4. registered' = local[u].obj
      BY <1>5, <2>3 DEF ConversationInv, OneWriter
    <2>5. registered' = Len(sess') /\ sess' = Append(sess, Len(mems'))
      <3>1. registered' # None
        BY <1>5, <2>1, <2>4, SessionOf DEF ShapeInv, Writer, Started
      <3>q. QED BY <1>2, <1>3, <3>1 DEF Create, objects
    <2>6. sess \in Seq(Nat) /\ Len(sess) \in Nat
      BY DEF ShapeInv, ObjectsOK
    <2>7. Len(sess') = Len(sess) + 1
      BY <2>5, <2>6
    <2>q. QED BY <2>2, <2>4, <2>5, <2>6, <2>7
  <1>6. Writing' = {}
    BY <1>5 DEF Writing, Writer
  <1>q. QED BY <1>4, <1>6

LEMMA AbstractInit == Init => Abstract!Init
  <1> SUFFICES ASSUME Init PROVE Abstract!Init
    OBVIOUS
  <1>1. rows[Resolve] = {}
    BY KeysAre DEF Init, Resolve
  <1>2. Writing = {}
    BY DEF Init, Writing, Started
  <1>q. QED BY <1>1, <1>2 DEF Init, Abstract!Init, MutexFree, NoClear

(* Every step is one of the abstract conversation or none at all. *)
LEMMA AbstractStep ==
  ASSUME IInv, IInv', [Next]_vars
  PROVE  [Abstract!Next]_(Abstract!vars)
  <1>1. ShapeInv /\ ShapeInv' /\ (Settled => ConversationInv) /\ (Settled' => ConversationInv')
    BY DEF IInv, Settled
  <1>2. CASE UNCHANGED vars
    BY <1>2 DEF vars, Abstract!vars, Resolve, Writing, Started, MutexFree
  <1>3. CASE Next /\ Settled /\ Settled'
    <2>1. ASSUME NEW t \in Turns, TurnStep(t) PROVE [Abstract!Next]_(Abstract!vars)
      BY <1>1, <1>3, <2>1, QuietTurns, SessionsComeAndGo, StartingBegins, RunsTell DEF TurnStep
    <2>2. ASSUME NEW t \in Turns, HandoffStep(t) PROVE [Abstract!Next]_(Abstract!vars)
      BY <1>1, <1>3, <2>2, QuietTurns, SeedingKeepsTold, HeadKeepsTold DEF HandoffStep
    <2>q. QED BY <1>1, <1>2, <1>3, <2>1, <2>2, ClearingForgets, SessionsComeAndGo DEF Next, Idle
  <1>4. CASE Next /\ Settled /\ ~Settled'
    <2>1. Abstract!Unsettle
      BY <1>1, <1>4, UnsettlingKeepsTold, ShownTypes DEF Abstract!Unsettle, Settled
    <2>q. QED BY <1>4, <2>1 DEF Abstract!Next, Settled
  <1>5. CASE Next /\ ~Settled /\ Settled'
    <2>1. Abstract!Settle
      BY <1>1, <1>5, SettlingIsQuiet DEF Abstract!Settle, Settled
    <2>q. QED BY <2>1 DEF Abstract!Next
  <1>6. CASE Next /\ ~Settled /\ ~Settled'
    <2>1. Abstract!Wander
      BY <1>1, <1>6, ShownTypes DEF Abstract!Wander, Settled
    <2>q. QED BY <2>1 DEF Abstract!Next
  <1>q. QED BY <1>2, <1>3, <1>4, <1>5, <1>6

(* SessionHistory implements Conversation: through handoffs, statements    *)
(* that fail, evictions and restarts at any point the rows of the active   *)
(* key are one conversation that grows input by input and that only /clear *)
(* empties.                                                                *)
THEOREM HistoryImplementsConversation == Spec => ConversationHolds
  <1>1. IInv /\ IInv' /\ [Next]_vars => [Abstract!Next]_(Abstract!vars)
    BY AbstractStep
  <1>q. QED BY AbstractInit, <1>1, HistoryInvariance, PTL
            DEF Spec, ConversationHolds, Abstract!Spec
================================================================================
