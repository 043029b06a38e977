---------------------------- MODULE StoreContract ----------------------------
(***************************************************************************)
(* What the interface of the candidate store (interface/candidate_store.py)*)
(* lets its callers rely on: every operation takes effect at once, and an  *)
(* interruption hurts no more than the operation it interrupts.            *)
(***************************************************************************)
EXTENDS CandidateStore, FiniteSets

CONSTANTS
  Ids,        \* candidate ids
  ScoreLists, \* val score lists
  Cursors     \* dataset cursors

VARIABLES
  pop,   \* the candidates a caller sees, or would see after a restart
  prev   \* the same before the last operation

vars == <<pop, prev>>

TypeOK ==
  /\ DOMAIN pop \subseteq Ids /\ \A c \in DOMAIN pop : pop[c] \in Candidate
  /\ DOMAIN prev \subseteq Ids /\ \A c \in DOMAIN prev : prev[c] \in Candidate

Init == pop = EmptyStore /\ prev = EmptyStore

Becomes(s) == pop' = s /\ prev' = pop

create_root(c) == c \notin DOMAIN pop /\ Becomes(CreateRoot(pop, c))

create_child(p, c, cursor) ==
  /\ p \in DOMAIN pop /\ c \notin DOMAIN pop
  /\ Becomes(CreateChild(pop, p, c, cursor))

\* delete, and retire of a store that cleans up
delete(c) == c \in DOMAIN pop /\ Becomes(Delete(pop, {c}))

\* set_state, retire of a store that does not clean up, and each candidate of
\* reset_evolving_to_pending
set_state(c, st) == c \in DOMAIN pop /\ Becomes(SetState(pop, {c}, st))

set_progress(c, cursor) ==
  c \in DOMAIN pop /\ Becomes(SetProgress(pop, c, cursor))

update_summary_scores(c, scores) ==
  c \in DOMAIN pop /\ Becomes(UpdateScores(pop, c, scores))

\* An operation has returned.
returned == pop' = pop /\ prev' = pop

(***************************************************************************)
(* The process dies.  What is loaded afterwards is, candidate by           *)
(* candidate, from before or from after the operation in progress, except  *)
(* that one candidate may be lost, whose file was being written, and one   *)
(* that was being deleted may come back without its scores.                *)
(***************************************************************************)
crash ==
  /\ DOMAIN pop' \subseteq DOMAIN pop \cup DOMAIN prev
  /\ Cardinality((DOMAIN pop \cap DOMAIN prev) \ DOMAIN pop') <= 1
  /\ \A c \in DOMAIN pop' :
       \/ c \in DOMAIN pop /\ pop'[c] = pop[c]
       \/ c \in DOMAIN prev /\ pop'[c] = prev[c]
       \/ /\ c \in DOMAIN prev \ DOMAIN pop
          /\ pop'[c] = [prev[c] EXCEPT !.scores = <<>>]
  /\ prev' = pop'

Next ==
  \/ \E c \in Ids :
       \/ create_root(c)
       \/ \E p \in Ids, cursor \in Cursors : create_child(p, c, cursor)
       \/ delete(c)
       \/ \E st \in CandidateState : set_state(c, st)
       \/ \E cursor \in Cursors : set_progress(c, cursor)
       \/ \E scores \in ScoreLists : update_summary_scores(c, scores)
  \/ returned
  \/ crash

Spec == Init /\ [][Next]_vars
=============================================================================
