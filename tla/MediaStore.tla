---------------------------------- MODULE MediaStore ----------------------------------
(***************************************************************************)
(* pkg/media/media.go: files registered under references, several of them  *)
(* perhaps for one file, released together by scope or by age, and deleted *)
(* with the last reference when the store owns the file.                   *)
(*                                                                         *)
(* A reference is its number, in the order of registration.  s.mu makes    *)
(* each method's critical section one step; the file is looked at before   *)
(* the lock in Store, and removed after it in ReleaseAll and CleanExpired. *)
(* The program itself stores only files of its own, each once, and leaves  *)
(* their release to the cleaner.                                           *)
(*                                                                         *)
(* Bounds: MaxRefs calls of Store.                                         *)
(***************************************************************************)
EXTENDS Naturals, FiniteSets

CONSTANTS MaxRefs, Paths, Scopes

VARIABLES
  files,     (* the paths that exist                                         *)
  call,      (* call[r]: the r-th Store: "no", "stat", "refused" or "done"   *)
  entry,     (* entry[r]: its path, scope and policy, from the call on       *)
  refs,      (* s.refs: references that resolve                              *)
  states,    (* s.pathStates: path -> refCount and deleteEligible            *)
  old,       (* references older than MaxAge                                 *)
  doomed,    (* paths chosen for removal, each with its references           *)
  life,      (* history: the references of a path since its count was zero   *)
  raced      (* history: paths stored while they were doomed or already gone *)

mvars == <<files, call, entry, refs, states, old, doomed, life, raced>>

Refs == 1..MaxRefs
Entries == [path : Paths, scope : Scopes, owned : BOOLEAN]
NoState == [refCount |-> 0, deleteEligible |-> FALSE]

MInit ==
  /\ files = Paths
  /\ call = [r \in Refs |-> "no"]
  /\ entry = [r \in Refs |-> CHOOSE e \in Entries : TRUE]
  /\ refs = {} /\ old = {} /\ doomed = {} /\ raced = {}
  /\ states = [p \in Paths |-> NoState]
  /\ life = [p \in Paths |-> {}]
--------------------------------------------------------------------------------
(* Store, up to the lock and under it. *)
Stat(r, e) ==
  /\ call[r] = "no" /\ \A q \in Refs : q < r => call[q] # "no"
  /\ entry' = [entry EXCEPT ![r] = e]
  /\ call' = [call EXCEPT ![r] = IF e.path \in files THEN "stat" ELSE "refused"]
  /\ UNCHANGED <<files, refs, states, old, doomed, life, raced>>

(* The first reference says whether the store owns the file; a later one   *)
(* can only say that it does not.                                          *)
Eligible(st, owned) == IF st.refCount = 0 THEN owned ELSE st.deleteEligible /\ owned

Register(r) ==
  LET p == entry[r].path
  IN /\ call[r] = "stat"
     /\ call' = [call EXCEPT ![r] = "done"]
     /\ refs' = refs \union {r}
     /\ states' = [states EXCEPT ![p] =
                     [refCount |-> @.refCount + 1, deleteEligible |-> Eligible(@, entry[r].owned)]]
     /\ life' = [life EXCEPT ![p] = @ \union {r}]
     /\ raced' = IF p \notin files \/ \E d \in doomed : d.path = p THEN raced \union {p} ELSE raced
     /\ UNCHANGED <<files, entry, old, doomed>>

LastRef_OneEarly(st, n) == st.refCount <= n + 1

(* releaseRefLocked drops a path with its last reference. *)
LastRef(st, n) == st.refCount <= n

(* The references in R go; the paths that lose their last one are chosen.  *)
Release(R) ==
  LET Of(p) == {r \in R : entry[r].path = p}
      Last == {p \in Paths : Of(p) # {} /\ LastRef(states[p], Cardinality(Of(p)))}
  IN /\ refs' = refs \ R
     /\ states' = [p \in Paths |-> IF p \in Last THEN NoState
                                   ELSE [states[p] EXCEPT !.refCount = @ - Cardinality(Of(p))]]
     /\ doomed' = doomed \union {[path |-> p, refs |-> life[p]] : p \in {q \in Last : states[q].deleteEligible}}
     /\ life' = [p \in Paths |-> IF p \in Last THEN {} ELSE life[p]]
     /\ UNCHANGED <<files, call, entry, old, raced>>

ReleaseAll(s) ==
  LET R == {r \in refs : entry[r].scope = s}
  IN R # {} /\ Release(R)

Age(r) ==
  /\ r \in refs \ old
  /\ old' = old \union {r}
  /\ UNCHANGED <<files, call, entry, refs, states, doomed, life, raced>>

(* The cleaner's round. *)
CleanExpired ==
  /\ refs \intersect old # {}
  /\ Release(refs \intersect old)

(* os.Remove after the lock; a file already gone is no error, another      *)
(* error is only logged.                                                   *)
Remove(d) ==
  /\ d \in doomed
  /\ doomed' = doomed \ {d}
  /\ files' \in {files, files \ {d.path}}
  /\ UNCHANGED <<call, entry, refs, states, old, life, raced>>

MNext ==
  \/ \E r \in Refs, e \in Entries : Stat(r, e)
  \/ \E r \in Refs : Register(r) \/ Age(r)
  \/ \E s \in Scopes : ReleaseAll(s)
  \/ CleanExpired
  \/ \E d \in doomed : Remove(d)
--------------------------------------------------------------------------------
MTypeOK ==
  /\ files \subseteq Paths /\ raced \subseteq Paths
  /\ call \in [Refs -> {"no", "stat", "refused", "done"}]
  /\ entry \in [Refs -> Entries]
  /\ refs \subseteq Refs /\ old \subseteq Refs
  /\ states \in [Paths -> [refCount : Nat, deleteEligible : BOOLEAN]]
  /\ \A d \in doomed : d.path \in Paths /\ d.refs \subseteq Refs
  /\ life \in [Paths -> SUBSET Refs]

(* A reference that resolves has its file, except for a path that was      *)
(* stored while a removal of it was already under way; and a file that     *)
(* somebody asked to be kept is never removed, whatever the other          *)
(* references to it asked for.                                             *)
RefsHaveFiles ==
  /\ \A r \in refs : entry[r].path \in files \union raced
  /\ \A d \in doomed : \A r \in d.refs : entry[r].owned
================================================================================
