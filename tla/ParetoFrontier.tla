--------------------------- MODULE ParetoFrontier ---------------------------
(***************************************************************************)
(* ParetoFrontierEvolutionAlgorithm: which candidates select() may return  *)
(* and which ones eliminate() retires.                                     *)
(*                                                                         *)
(* A population `pop` is a function from candidate ids to records with at  *)
(* least the fields state, generation and scores.  Ids are numbered in the *)
(* order of creation, so `created_at` is compared by comparing ids.        *)
(* Scores are integers (units of the val score) and sequences of one       *)
(* length, the val set; the average is ranked by the sum.                  *)
(***************************************************************************)
EXTENDS Integers, Sequences, FiniteSets, Functions

CONSTANTS
    MaxCandidateNum,  \* max_candidate_num
    ScoreEps          \* SCORE_EPS, in score units: 0 unless rounding is studied

AvgScore(scores) == SumFunction(scores)

InPool(pop, states) == {c \in DOMAIN pop : pop[c].state \in states}

Alive(pop) == InPool(pop, {"pending", "evolving"})
-----------------------------------------------------------------------------
(* _is_dominated: the scores `a` dominate the scores `b`. *)
IsDominated(a, b) ==
    /\ a # <<>> /\ Len(a) = Len(b)
    /\ \A d \in DOMAIN a : a[d] + ScoreEps >= b[d]

(* The processing order of eliminate: generation, then created_at, both    *)
(* descending.                                                             *)
Precedes(pop, a, b) ==
    \/ pop[a].generation > pop[b].generation
    \/ pop[a].generation = pop[b].generation /\ a > b

(* Mutant: only earlier candidates can dominate. *)
Frontier_OneWay(pop) ==
    LET S == Alive(pop) IN
    {b \in S : \A a \in S : Precedes(pop, a, b) =>
                  ~IsDominated(pop[a].scores, pop[b].scores)}

(* Phase 1.  Candidates are taken in order; one that is still alive at its *)
(* turn kills every other alive candidate it dominates, before or after it *)
(* in the order.                                                           *)
Frontier(pop) ==
    LET S == Alive(pop)
        Dom(a, b) == a # b /\ IsDominated(pop[a].scores, pop[b].scores)
        aliveAtTurn[c \in S] ==
            \A a \in S : Precedes(pop, a, c) /\ aliveAtTurn[a] => ~Dom(a, c)
    IN  {b \in S : \A a \in S : aliveAtTurn[a] => ~Dom(a, b)}

(* The ranking key (avg_score, generation, created_at): a ranks above b. *)
RanksAbove(pop, a, b) ==
    \/ AvgScore(pop[a].scores) > AvgScore(pop[b].scores)
    \/ /\ AvgScore(pop[a].scores) = AvgScore(pop[b].scores)
       /\ Precedes(pop, a, b)

(* Mutant: the cutoff keeps the lowest ranked. *)
TopN_Lowest(pop, S) ==
    {c \in S : Cardinality({d \in S : RanksAbove(pop, c, d)}) < MaxCandidateNum}

(* Phase 2: the max_candidate_num highest ranked of the frontier. *)
TopN(pop, S) ==
    {c \in S : Cardinality({d \in S : RanksAbove(pop, d, c)}) < MaxCandidateNum}

(* Mutant: busy candidates are left out of the comparison.                 *)
Eliminated_IgnoresBusy(pop) ==
    LET idle == [c \in InPool(pop, {"pending"}) |-> pop[c]]
    IN  Alive(idle) \ TopN(idle, Frontier(idle))

(* eliminate(): the candidates it retires.  Evolving ones take part in the *)
(* comparison but are spared; a single alive candidate is left alone.      *)
Eliminated(pop) ==
    IF Cardinality(Alive(pop)) <= 1
    THEN {}
    ELSE InPool(pop, {"pending"}) \ TopN(pop, Frontier(pop))
-----------------------------------------------------------------------------
(* Mutant: a candidate must exceed the best score of a dimension. *)
MaxScoreCount_Strict(pop, S, c) ==
    Cardinality({d \in DOMAIN pop[c].scores :
        \A e \in S : pop[c].scores[d] > pop[e].scores[d] + ScoreEps})

(* _get_max_score_count_dict: on how many dimensions c has the best score  *)
(* of the candidates S.                                                    *)
MaxScoreCount(pop, S, c) ==
    Cardinality({d \in DOMAIN pop[c].scores :
        \A e \in S : pop[c].scores[d] + ScoreEps >= pop[e].scores[d]})

(* select(1): any candidate of this set may be drawn.  Weights only matter *)
(* by being zero or not; when no pending candidate has scores every one of *)
(* them may be drawn.                                                      *)
Selectable(pop) ==
    LET idle   == InPool(pop, {"pending"})
        scored == {c \in idle : pop[c].scores # <<>>}
    IN  IF scored = {} THEN idle
        ELSE {c \in scored : MaxScoreCount(pop, scored, c) > 0}
=============================================================================
