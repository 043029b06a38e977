--------------------------- MODULE EvolutionPool ---------------------------
(*****************************************************************************)
(* What the optimizer promises about its population, without the steps of    *)
(* a slot: candidates are borrowed by at most NumProposals slots, come       *)
(* back, sometimes with a validated child, and the evolution algorithm       *)
(* retires the rest.  Only alive (pending or evolving) candidates are        *)
(* represented.  Module Optimizer is shown to implement this one.            *)
(*****************************************************************************)
EXTENDS Integers, Sequences, FiniteSets

CONSTANTS
    Ids,              \* candidate ids, integers in order of creation
    ValScores,        \* possible val score lists, all of one length
    NumProposals,     \* num_proposals: slots that may run at once
    MaxCandidateNum,  \* max_candidate_num
    ScoreEps,         \* SCORE_EPS
    Generations       \* generations a candidate may have, a bound of the model

ASSUME PoolAssumption ==
    /\ Ids \subseteq Nat \ {0} /\ Generations \subseteq Nat
    /\ \A v, w \in ValScores : v \in Seq(Nat) /\ Len(v) = Len(w)
    /\ NumProposals \in Nat \ {0}
    /\ MaxCandidateNum \in Nat \ {0} /\ ScoreEps \in Nat

VARIABLE pop  \* alive candidate -> [state, generation, scores]

EA == INSTANCE ParetoFrontier

Busy(p) == EA!InPool(p, {"evolving"})

Put(p, c, rec) == [d \in DOMAIN p \cup {c} |-> IF d = c THEN rec ELSE p[d]]

Drop(p, C) == [d \in DOMAIN p \ C |-> p[d]]

WithState(p, c, s) == [p EXCEPT ![c].state = s]
-----------------------------------------------------------------------------
Init == pop = <<>>

(* The root's baseline is evaluated and it enters the pool.                 *)
Seed ==
    /\ DOMAIN pop = {}
    /\ \E r \in Ids, v \in ValScores :
          pop' = Put(pop, r, [state |-> "pending", generation |-> 0, scores |-> v])

(* A slot opens for a candidate the evolution algorithm may select.         *)
Borrow ==
    /\ Cardinality(Busy(pop)) < NumProposals
    /\ \E c \in EA!Selectable(pop) : pop' = WithState(pop, c, "evolving")

(* Mutant: candidates with a busy sibling in the pool are not eliminated.   *)
Settled_WhenIdle(p) == IF Busy(p) = {} THEN Drop(p, EA!Eliminated(p)) ELSE p

(* The population after the elimination at the end of a slot.               *)
Settled(p) == Drop(p, EA!Eliminated(p))

(* A slot completes without an accepted child.  The population p it leaves  *)
(* is bound by \E so that TLC computes it once.                             *)
Return ==
    \E c \in Busy(pop) :
      \E p \in {WithState(pop, c, "pending")} : pop' = Settled(p)

(* A slot completes with a validated child, a descendant of its parent.     *)
ReturnWithChild ==
    \E c \in Busy(pop), n \in Ids \ DOMAIN pop, v \in ValScores :
      \E g \in {h \in Generations : h > pop[c].generation} :
        \E p \in {Put(WithState(pop, c, "pending"), n,
                      [state |-> "pending", generation |-> g, scores |-> v])} :
            pop' = Settled(p)

(* A slot raises: its candidate goes back and nothing is eliminated.        *)
Fail == \E c \in Busy(pop) : pop' = WithState(pop, c, "pending")

(* Startup recovery after a crash: reset_evolving_to_pending.               *)
Recover ==
    /\ Busy(pop) # {}
    /\ pop' = [c \in DOMAIN pop |-> [pop[c] EXCEPT !.state = "pending"]]

Next == Seed \/ Borrow \/ Return \/ ReturnWithChild \/ Fail \/ Recover

Spec == Init /\ [][Next]_pop
-----------------------------------------------------------------------------
Avgs(p) == {EA!AvgScore(p[c].scores) : c \in DOMAIN p}

(* The pool is bounded by max_candidate_num and the slots in flight: only   *)
(* evolving candidates may exceed the cap, and the one whose slot just      *)
(* ended no longer is one.                                                  *)
PoolBound == Cardinality(DOMAIN pop) <= MaxCandidateNum + NumProposals - 1

(* What one elimination may lose of a sum of scores: dominance within the   *)
(* tolerance is not transitive, so a chain of candidates, each within       *)
(* ScoreEps of the next, may lose that much at every link and instance.     *)
Instances == Len(CHOOSE v \in ValScores : TRUE)
Drift == Instances * ((MaxCandidateNum + NumProposals - 1) * ScoreEps)

(* The best average never drops: no elimination, failure or recovery loses  *)
(* the best candidate without keeping one as good, but for the tolerance    *)
(* (workspace-artifacts.md: avg_score_history is non-decreasing).           *)
BestNeverDrops == [][\A a \in Avgs(pop) : \E b \in Avgs(pop') : b + Drift >= a]_pop

(* Once seeded the pool never dies out, so there is always something to     *)
(* select when no slot is running.                                          *)
AlwaysSelectable ==
    [][DOMAIN pop' # {} /\ (Busy(pop)' = {} => EA!Selectable(pop)' # {})]_pop

(* a is at least as good as b everywhere, and the deeper or newer on a tie. *)
Beats(p, a, b) ==
    /\ EA!IsDominated(p[a].scores, p[b].scores)
    /\ EA!IsDominated(p[b].scores, p[a].scores) => EA!Precedes(p, a, b)

(* After a slot completed, every idle candidate is on the frontier of the   *)
(* whole population and the idle ones respect the cap, even those that were *)
(* spared while they were evolving.                                         *)
Pruned(p) ==
    LET idle == EA!InPool(p, {"pending"}) IN
    /\ Cardinality(idle) <= MaxCandidateNum
    /\ \A a \in DOMAIN p, b \in idle : a # b => ~Beats(p, a, b)

PrunedAfterReturn == [][Return \/ ReturnWithChild => Pruned(pop')]_pop

(* Phase 1 computes the maximal candidates whatever order it visits them    *)
(* in: b survives iff nobody beats it.  Only for exact comparison.          *)
FrontierIsMaximal ==
    EA!Frontier(pop) =
      {b \in DOMAIN pop : ~\E a \in DOMAIN pop \ {b} : Beats(pop, a, b)}
=============================================================================
