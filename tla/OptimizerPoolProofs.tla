------------------------ MODULE OptimizerPoolProofs ------------------------
(*****************************************************************************)
(* Proofs about the population of Optimizer and about what its slots spend,  *)
(* for all values of the constants: it implements EvolutionPool, the best    *)
(* candidate reported is the best, the loop stops only because of a limit,   *)
(* and a limit is overshot by no more than the slots in flight still run.    *)
(* They rest on OptimizerProofs (who owns which candidate) and on            *)
(* EvolutionPoolProofs (what the evolution algorithm keeps).                 *)
(*****************************************************************************)
EXTENDS OptimizerProofs, OptimizerRefinesPool

PF == INSTANCE EvolutionPoolProofs WITH
        Ids <- Nat \ {0}, Generations <- Nat, pop <- Population(store)

GensKept(s, t) ==
    \A c \in DOMAIN s \cap DOMAIN t : t[c].generation = s[c].generation

(* What a slot with the locals t may still run: training batches and        *)
(* validations.                                                             *)
Left(t) ==
    CASE t.pc = "new" -> MaxReflections + 2
      [] t.pc \in {"parent", "propose"} -> MaxReflections + 1
      [] t.pc = "child" -> MaxReflections
      [] t.pc = "reflect" -> (MaxReflections - t.depth) + 1
      [] t.pc = "chain" -> MaxReflections - t.depth
      [] OTHER -> 0

Todo == {q \in Running \X (1 .. MaxReflections + 2) : q[2] <= Left(tasks[q[1]])}

Unvalidated == {i \in Running : tasks[i].pc # "validate"}

DepthOK(t) ==
    /\ t.pc \in {"new", "parent", "propose", "child"} => t.depth = 0
    /\ t.pc \in {"reflect", "chain"} => t.depth \in 1 .. MaxReflections

(* The candidates a slot creates are descendants of its parent.             *)
Descends(t, s) == \A c \in t.chain : s[c].generation > s[t.parent].generation

SlotInv == \A i \in Running : DepthOK(tasks[i]) /\ Descends(tasks[i], store)

(* The statistics on disk know the same root and best as those in memory.   *)
SameBest(st, su) == st.root = su.root /\ st.best = su.best /\ st.bestAvg = su.bestAvg

Started == main \notin {"start", "baseline", "down"}

(* BestIsBest of a store.                                                   *)
Reported(s, st) ==
    /\ BestCandidates(s) = {st.best}
    /\ st.bestAvg = EA!AvgScore(s[st.best].scores)

PoolInv ==
    /\ SameBest(stats, saved)
    /\ Started => stats.root # NoCandidate
    /\ IF stats.root = NoCandidate
       THEN EA!Alive(store) = {}
       ELSE EA!Alive(store) # {} /\ Reported(store, stats)
    /\ main = "baseline" => /\ stats.root = NoCandidate /\ lastId \in DOMAIN store
                            /\ store[lastId].state = "unavailable"
                            /\ store[lastId].generation = 0

(* What is spent and what the slots in flight may still spend.              *)
DueRollouts == stats.rollouts + BatchLength * Cardinality(Todo)

DueSystemRuns ==
    stats.systemRuns + BatchLength * Cardinality(Todo) + ValSize * Cardinality(Unvalidated)

BudgetInv ==
    /\ DueRollouts <= MaxRollouts - 1 + NumProposals * SlotRollouts
    /\ DueSystemRuns <= MaxSystemRuns - 1 + NumProposals * (SlotRollouts + ValSize)
    /\ saved.rollouts <= stats.rollouts /\ saved.systemRuns <= stats.systemRuns
    /\ stats.root = NoCandidate => saved.systemRuns = 0
    /\ main = "start" => stats.systemRuns = saved.systemRuns

RInv == SlotInv /\ PoolInv /\ BudgetInv
-----------------------------------------------------------------------------
(* What the store's operations do to generations and to the population.     *)

LEMMA GensKeptTrans ==
    ASSUME NEW s, NEW t, NEW u, GensKept(s, t), GensKept(t, u),
           DOMAIN s \cap DOMAIN u \subseteq DOMAIN t
    PROVE  GensKept(s, u)
BY DEF GensKept

LEMMA SetStateGens ==
    ASSUME NEW n \in Nat, NEW s, StoreType(s, n), NEW C, NEW st
    PROVE  GensKept(s, SetState(s, C, st))
BY DEF GensKept, SetState, StoreType, Candidate

LEMMA SetProgressGens ==
    ASSUME NEW n \in Nat, NEW s, StoreType(s, n), NEW p, NEW cursor
    PROVE  GensKept(s, SetProgress(s, p, cursor)) /\ DOMAIN SetProgress(s, p, cursor) = DOMAIN s
BY DEF GensKept, SetProgress, StoreType, Candidate

LEMMA UpdateScoresGens ==
    ASSUME NEW n \in Nat, NEW s, StoreType(s, n), NEW c, NEW v
    PROVE  GensKept(s, UpdateScores(s, c, v))
BY DEF GensKept, UpdateScores, StoreType, Candidate

LEMMA JoinsPoolGens ==
    ASSUME NEW n \in Nat, NEW s, StoreType(s, n), NEW c, NEW v \in ScoreList
    PROVE  GensKept(s, JoinsPool(s, c, v))
<1> DEFINE u == UpdateScores(s, c, v)
<1>1. GensKept(s, u) /\ StoreType(u, n) /\ DOMAIN u = DOMAIN s
  BY UpdateScoresGens, UpdateScoresEffect
<1> HIDE DEF u
<1>2. GensKept(u, SetState(u, {c}, "pending")) /\ DOMAIN SetState(u, {c}, "pending") = DOMAIN u
  BY <1>1, SetStateGens DEF SetState
<1>3. GensKept(s, SetState(u, {c}, "pending"))
  BY <1>1, <1>2 DEF GensKept
<1> QED
  BY <1>3 DEF JoinsPool, u

LEMMA RetireGens ==
    ASSUME NEW n \in Nat, NEW s, StoreType(s, n), NEW C
    PROVE  GensKept(s, Retire(s, C)) /\ DOMAIN Retire(s, C) \subseteq DOMAIN s
<1>1. CASE CleanupUnavailable
  BY <1>1 DEF Retire, Delete, GensKept, StoreType, Candidate
<1>2. CASE ~CleanupUnavailable
  BY <1>2, SetStateGens DEF Retire, SetState
<1> QED
  BY <1>1, <1>2

LEMMA CreateChildGens ==
    ASSUME NEW n \in Nat, NEW s, StoreType(s, n), NEW p \in DOMAIN s, NEW cursor
    PROVE  LET t == CreateChild(s, p, n + 1, cursor) IN
           /\ GensKept(s, t) /\ n + 1 \notin DOMAIN s
           /\ t[n + 1].generation = s[p].generation + 1
<1> DEFINE t == CreateChild(s, p, n + 1, cursor)
           u == [s EXCEPT ![p].children = @ \cup {n + 1}]
           rec == [state |-> "unavailable", parent |-> p, children |-> {},
                   generation |-> s[p].generation + 1, cursor |-> cursor, scores |-> <<>>]
<1>1. n + 1 \notin DOMAIN s
  BY DEF StoreType
<1>2. DOMAIN u = DOMAIN s /\ \A c \in DOMAIN s : u[c].generation = s[c].generation
  BY DEF StoreType, Candidate
<1>3. t = [d \in DOMAIN u \cup {n + 1} |-> IF d = n + 1 THEN rec ELSE u[d]]
  BY DEF CreateChild, Add
<1>4. rec.generation = s[p].generation + 1
  OBVIOUS
<1> HIDE DEF t, u, rec
<1>5. t[n + 1] = rec /\ \A c \in DOMAIN s : t[c] = u[c]
  BY <1>1, <1>2, <1>3
<1> QED
  BY <1>1, <1>2, <1>4, <1>5 DEF GensKept, t

LEMMA AliveMeans ==
    ASSUME NEW s, NEW c
    PROVE  c \in EA!Alive(s) <=> c \in DOMAIN s /\ s[c].state \in {"pending", "evolving"}
BY DEF EA!Alive, EA!InPool

(* The population is what the alive candidates show of themselves.          *)
LEMMA SamePopulation ==
    ASSUME NEW s, NEW t, EA!Alive(t) = EA!Alive(s),
           \A c \in EA!Alive(s) : /\ t[c].state = s[c].state /\ t[c].scores = s[c].scores
                                  /\ t[c].generation = s[c].generation
    PROVE  Population(t) = Population(s)
BY DEF Population

(* Nothing that happens to candidates that are not alive is seen.           *)
LEMMA Unseen ==
    ASSUME NEW s, NEW t, NEW C, Effect(s, t, C), GensKept(s, t),
           \A c \in C : c \notin EA!Alive(s) /\ c \notin EA!Alive(t)
    PROVE  Population(t) = Population(s)
<1>1. \A c \in DOMAIN s \ C : c \in DOMAIN t /\ t[c].generation = s[c].generation
                              /\ t[c].state = s[c].state /\ t[c].scores = s[c].scores
  BY DEF Effect, GensKept
<1>2. EA!Alive(t) = EA!Alive(s)
  BY <1>1, AliveMeans DEF Effect
<1>3. \A c \in EA!Alive(s) : c \in DOMAIN s \ C
  BY AliveMeans
<1> QED
  BY <1>1, <1>2, <1>3, SamePopulation

(* One candidate changes its state within the pool.                         *)
LEMMA Restated ==
    ASSUME NEW s, NEW t, NEW c \in EA!Alive(s), Effect(s, t, {c}), GensKept(s, t),
           NEW st \in {"pending", "evolving"},
           c \in DOMAIN t, t[c].state = st, t[c].scores = s[c].scores
    PROVE  Population(t) = Pool!WithState(Population(s), c, st)
<1>1. EA!Alive(t) = EA!Alive(s) /\ c \in DOMAIN s
  BY AliveMeans DEF Effect
<1>2. \A d \in EA!Alive(s) : /\ t[d].generation = s[d].generation /\ t[d].scores = s[d].scores
                             /\ t[d].state = IF d = c THEN st ELSE s[d].state
  BY <1>1, AliveMeans DEF Effect, GensKept
<1> DEFINE P == Population(s)
           show(u, d) == [state |-> u[d].state, generation |-> u[d].generation,
                          scores |-> u[d].scores]
<1>3. P = [d \in EA!Alive(s) |-> show(s, d)] /\ Population(t) = [d \in EA!Alive(s) |-> show(t, d)]
  BY <1>1 DEF Population
<1>4. \A d \in EA!Alive(s) : show(t, d) = IF d = c THEN [show(s, d) EXCEPT !.state = st]
                                          ELSE show(s, d)
  BY <1>2
<1>5. Pool!WithState(P, c, st) = [P EXCEPT ![c] = [P[c] EXCEPT !.state = st]]
  BY DEF Pool!WithState
<1> HIDE DEF P, show
<1>6. Pool!WithState(P, c, st) = [d \in EA!Alive(s) |-> IF d = c THEN [P[c] EXCEPT !.state = st]
                                                        ELSE P[d]]
  BY <1>3, <1>5
<1> QED
  BY <1>3, <1>4, <1>6 DEF P

(* retire takes its candidates out of the population.                       *)
LEMMA Retired ==
    ASSUME NEW n \in Nat, NEW s, StoreType(s, n), NEW C
    PROVE  Population(Retire(s, C)) = Pool!Drop(Population(s), C)
<1> DEFINE t == Retire(s, C)
<1>1. /\ StoreType(t, n) /\ Effect(s, t, C) /\ GensKept(s, t)
      /\ \A c \in C \cap DOMAIN t : t[c].state = "unavailable"
  BY RetireEffect, RetireGens
<1> HIDE DEF t
<1>2. EA!Alive(t) = EA!Alive(s) \ C
  BY <1>1, AliveMeans DEF Effect
<1>3. \A d \in EA!Alive(t) : /\ t[d].generation = s[d].generation /\ t[d].scores = s[d].scores
                             /\ t[d].state = s[d].state
  BY <1>1, <1>2, AliveMeans DEF Effect, GensKept
<1>4. Population(t) = [d \in EA!Alive(s) \ C |-> Population(s)[d]]
  BY <1>2, <1>3 DEF Population
<1>5. DOMAIN Population(s) = EA!Alive(s)
  BY DEF Population
<1> QED
  BY <1>4, <1>5 DEF Pool!Drop, t

(* A candidate with its scores enters the population.                       *)
LEMMA Joined ==
    ASSUME NEW n \in Nat, NEW s, StoreType(s, n), NEW c \in DOMAIN s \ EA!Alive(s),
           NEW v \in ScoreList
    PROVE  Population(JoinsPool(s, c, v)) =
             Pool!Put(Population(s), c,
                      [state |-> "pending", generation |-> s[c].generation, scores |-> v])
<1> DEFINE t == JoinsPool(s, c, v)
           rec == [state |-> "pending", generation |-> s[c].generation, scores |-> v]
<1>1. /\ Effect(s, t, {c}) /\ DOMAIN t = DOMAIN s /\ GensKept(s, t)
      /\ t[c].state = "pending" /\ t[c].scores = v
  BY JoinsPoolEffect, JoinsPoolGens
<1> HIDE DEF t
<1>2. EA!Alive(t) = EA!Alive(s) \cup {c}
  BY <1>1, AliveMeans DEF Effect
<1>3. \A d \in EA!Alive(s) : /\ t[d].generation = s[d].generation /\ t[d].scores = s[d].scores
                             /\ t[d].state = s[d].state /\ d # c
  BY <1>1, AliveMeans DEF Effect, GensKept
<1>4. t[c].generation = s[c].generation
  BY <1>1 DEF GensKept
<1>5. Population(t) = [d \in EA!Alive(s) \cup {c} |-> IF d = c THEN rec ELSE Population(s)[d]]
  BY <1>1, <1>2, <1>3, <1>4 DEF Population
<1>6. DOMAIN Population(s) = EA!Alive(s)
  BY DEF Population
<1> QED
  BY <1>5, <1>6 DEF Pool!Put, t

(* The startup recovery gives every evolving candidate back.                *)
LEMMA Recovered ==
    ASSUME NEW n \in Nat, NEW s, StoreType(s, n)
    PROVE  /\ Population(Recover(s)) =
                [c \in DOMAIN Population(s) |-> [Population(s)[c] EXCEPT !.state = "pending"]]
           /\ GensKept(s, Recover(s))
<1> DEFINE kept == IF CleanupUnavailable
                   THEN Delete(s, PoolByState(s, {"unavailable"})) ELSE s
           t == SetState(kept, PoolByState(kept, {"evolving"}), "pending")
<1>1. /\ DOMAIN kept \subseteq DOMAIN s /\ StoreType(kept, n)
      /\ \A c \in DOMAIN kept : /\ kept[c].state = s[c].state /\ kept[c].scores = s[c].scores
                                /\ kept[c].generation = s[c].generation
      /\ EA!Alive(kept) = EA!Alive(s)
  <2>1. CASE CleanupUnavailable
    <3> DEFINE C == PoolByState(s, {"unavailable"})
    <3>1. kept = Retire(s, C)
      BY <2>1 DEF Retire
    <3>2. DOMAIN kept = DOMAIN s \ C
      BY <2>1 DEF Delete
    <3>3. \A c \in DOMAIN s : c \in C <=> s[c].state = "unavailable"
      BY DEF PoolByState
    <3> HIDE DEF kept, C
    <3>4. StoreType(kept, n) /\ Effect(s, kept, C) /\ GensKept(s, kept)
      BY <3>1, RetireEffect, RetireGens
    <3>5. \A c \in DOMAIN kept : /\ kept[c].state = s[c].state /\ kept[c].scores = s[c].scores
                                 /\ kept[c].generation = s[c].generation
      BY <3>2, <3>4 DEF Effect, GensKept
    <3>6. EA!Alive(kept) = EA!Alive(s)
      <4>1. \A c : c \in EA!Alive(kept) => c \in EA!Alive(s)
        BY <3>2, <3>5, AliveMeans
      <4>2. \A c : c \in EA!Alive(s) => c \in DOMAIN s \ C
        BY <3>3, AliveMeans
      <4>3. \A c : c \in EA!Alive(s) => c \in EA!Alive(kept)
        BY <3>2, <3>5, <4>2, AliveMeans
      <4> QED
        BY <4>1, <4>3
    <3> QED
      BY <3>2, <3>4, <3>5, <3>6
  <2>2. CASE ~CleanupUnavailable
    BY <2>2
  <2> QED
    BY <2>1, <2>2
<1>2. Recover(s) = t
  BY DEF Recover
<1> HIDE DEF kept
<1>3. /\ DOMAIN t = DOMAIN kept
      /\ \A c \in DOMAIN kept :
            /\ t[c].scores = kept[c].scores /\ t[c].generation = kept[c].generation
            /\ t[c].state = IF kept[c].state = "evolving" THEN "pending" ELSE kept[c].state
  BY <1>1 DEF SetState, PoolByState, StoreType, Candidate
<1> HIDE DEF t
<1>4. EA!Alive(t) = EA!Alive(s)
  BY <1>1, <1>3, AliveMeans
<1>5. \A c \in EA!Alive(s) : /\ t[c].state = "pending" /\ t[c].scores = s[c].scores
                             /\ t[c].generation = s[c].generation
  BY <1>1, <1>3, <1>4, AliveMeans
<1>6. Population(t) =
        [c \in DOMAIN Population(s) |-> [Population(s)[c] EXCEPT !.state = "pending"]]
  BY <1>4, <1>5 DEF Population
<1>7. GensKept(s, t)
  BY <1>1, <1>3 DEF GensKept
<1> QED
  BY <1>2, <1>6, <1>7
-----------------------------------------------------------------------------
(* What EvolutionPoolProofs says of a store.                                *)

(* The assumption of EvolutionPool holds of the optimizer's constants.      *)
LEMMA PoolConstants ==
    /\ Nat \ {0} \subseteq Nat \ {0} /\ Nat \subseteq Nat
    /\ \A v, w \in ValScores : v \in Seq(Nat) /\ Len(v) = Len(w)
    /\ NumProposals \in Nat \ {0}
    /\ MaxCandidateNum \in Nat \ {0} /\ ScoreEps \in Nat
<1>1. \A v \in ValScores : v \in [1 .. ValSize -> Nat] /\ ValSize \in Nat
  BY OptimizerAssumption
<1>2. \A v \in ValScores : v \in Seq(Nat) /\ Len(v) = ValSize
  BY <1>1
<1> QED
  BY <1>2, OptimizerAssumption

(* The population of a store: finite, ranked, and the same to the evolution *)
(* algorithm as the store.                                                  *)
LEMMA StoreRanked ==
    ASSUME NEW n \in Nat, NEW s, StoreType(s, n), Scored(s)
    PROVE  /\ PF!Ranked(s) /\ PF!SameAlive(s, Population(s))
           /\ PF!PoolType(Population(s)) /\ DOMAIN Population(s) = EA!Alive(s)
           /\ PF!EA!Alive(s) = EA!Alive(s)
<1>1. PF!EA!Alive(s) = EA!Alive(s) /\ PF!EA!Alive(Population(s)) = EA!Alive(Population(s))
  BY DEF EA!Alive, EA!InPool, PF!EA!Alive, PF!EA!InPool
<1>2. \A c \in EA!Alive(s) :
         /\ c \in 1 .. n /\ c \in Nat \ {0} /\ s[c] \in Candidate
         /\ s[c].state \in {"pending", "evolving"}
         /\ s[c].generation \in Nat /\ s[c].scores \in ValScores
  <2> SUFFICES ASSUME NEW c \in EA!Alive(s)
               PROVE  /\ c \in 1 .. n /\ c \in Nat \ {0} /\ s[c] \in Candidate
                      /\ s[c].state \in {"pending", "evolving"}
                      /\ s[c].generation \in Nat /\ s[c].scores \in ValScores
    OBVIOUS
  <2>1. c \in DOMAIN s /\ s[c].state \in {"pending", "evolving"}
    BY AliveMeans
  <2>2. c \in 1 .. n /\ s[c] \in Candidate
    BY <2>1 DEF StoreType
  <2>3. s[c].scores \in ValScores
    BY <2>1 DEF Scored
  <2> QED
    BY <2>1, <2>2, <2>3 DEF Candidate
<1>3. IsFiniteSet(EA!Alive(s))
  <2>1. EA!Alive(s) \subseteq 1 .. n
    BY <1>2
  <2> QED
    BY <2>1, FS_Interval, FS_Subset
<1>4. PF!IsFiniteSet(EA!Alive(s))
  BY <1>3 DEF IsFiniteSet, PF!IsFiniteSet
<1>5. PF!Ranked(s)
  BY <1>1, <1>2, <1>4 DEF PF!Ranked
<1> DEFINE P == Population(s)
<1>6. /\ DOMAIN P = EA!Alive(s)
      /\ \A c \in EA!Alive(s) : /\ P[c].state = s[c].state /\ P[c].scores = s[c].scores
                                /\ P[c].generation = s[c].generation
                                /\ P[c] = [state |-> s[c].state, generation |-> s[c].generation,
                                           scores |-> s[c].scores]
  BY DEF Population
<1>7. P \in [EA!Alive(s) -> [state : {"pending", "evolving"}, generation : Nat,
                             scores : ValScores]]
  <2>1. P = [c \in EA!Alive(s) |-> [state |-> s[c].state, generation |-> s[c].generation,
                                    scores |-> s[c].scores]]
    BY DEF Population
  <2> QED
    BY <1>2, <2>1
<1> HIDE DEF P
<1>8. EA!Alive(P) = EA!Alive(s)
  <2>1. \A c : c \in EA!Alive(P) <=> c \in EA!Alive(s)
    BY <1>2, <1>6, AliveMeans
  <2> QED
    BY <2>1
<1>9. PF!SameAlive(s, P)
  BY <1>1, <1>6, <1>8 DEF PF!SameAlive, P
<1>10. PF!PoolType(P)
  BY <1>2, <1>4, <1>6, <1>7 DEF PF!PoolType, PF!Member
<1> QED
  BY <1>1, <1>5, <1>6, <1>9, <1>10 DEF P

(* The three modules mean the same evolution algorithm.                     *)
LEMMA RankedAlike ==
    /\ \A v : Pool!EA!AvgScore(v) = PF!EA!AvgScore(v) /\ EA!AvgScore(v) = PF!EA!AvgScore(v)
    /\ \A q, a, b : /\ Pool!EA!RanksAbove(q, a, b) <=> PF!EA!RanksAbove(q, a, b)
                    /\ EA!RanksAbove(q, a, b) <=> PF!EA!RanksAbove(q, a, b)
<1>1. \A v : Pool!EA!AvgScore(v) = PF!EA!AvgScore(v) /\ EA!AvgScore(v) = PF!EA!AvgScore(v)
  BY DEF Pool!EA!AvgScore, PF!EA!AvgScore, EA!AvgScore,
         Pool!EA!SumFunction, PF!EA!SumFunction, EA!SumFunction,
         Pool!EA!SumFunctionOnSet, PF!EA!SumFunctionOnSet, EA!SumFunctionOnSet,
         Pool!EA!FoldFunctionOnSet, PF!EA!FoldFunctionOnSet, EA!FoldFunctionOnSet,
         Pool!EA!MapThenFoldSet, PF!EA!MapThenFoldSet, EA!MapThenFoldSet
<1>2. \A q, a, b : /\ Pool!EA!RanksAbove(q, a, b) <=> PF!EA!RanksAbove(q, a, b)
                   /\ EA!RanksAbove(q, a, b) <=> PF!EA!RanksAbove(q, a, b)
  BY <1>1 DEF Pool!EA!RanksAbove, PF!EA!RanksAbove, EA!RanksAbove,
              Pool!EA!Precedes, PF!EA!Precedes, EA!Precedes
<1> QED
  BY <1>1, <1>2

LEMMA EliminatedAlike ==
    \A q : Pool!EA!Eliminated(q) = PF!EA!Eliminated(q) /\ EA!Eliminated(q) = PF!EA!Eliminated(q)
<1>1. \A S : Pool!EA!Cardinality(S) = PF!EA!Cardinality(S) /\ EA!Cardinality(S) = PF!EA!Cardinality(S)
  BY DEF Pool!EA!Cardinality, PF!EA!Cardinality, EA!Cardinality
<1>2. \A q, F : Pool!EA!TopN(q, F) = PF!EA!TopN(q, F) /\ EA!TopN(q, F) = PF!EA!TopN(q, F)
  BY <1>1, RankedAlike DEF Pool!EA!TopN, PF!EA!TopN, EA!TopN
<1>3. \A q : Pool!EA!Frontier(q) = PF!EA!Frontier(q) /\ EA!Frontier(q) = PF!EA!Frontier(q)
  BY DEF Pool!EA!Frontier, PF!EA!Frontier, EA!Frontier,
         Pool!EA!Alive, PF!EA!Alive, EA!Alive, Pool!EA!InPool, PF!EA!InPool, EA!InPool,
         Pool!EA!Precedes, PF!EA!Precedes, EA!Precedes,
         Pool!EA!IsDominated, PF!EA!IsDominated, EA!IsDominated
<1>4. \A q, S : Pool!EA!InPool(q, S) = PF!EA!InPool(q, S) /\ EA!InPool(q, S) = PF!EA!InPool(q, S)
  BY DEF Pool!EA!InPool, PF!EA!InPool, EA!InPool
<1> QED
  BY <1>1, <1>2, <1>3, <1>4 DEF Pool!EA!Eliminated, PF!EA!Eliminated, EA!Eliminated,
     Pool!EA!Alive, PF!EA!Alive, EA!Alive

LEMMA SelectableAlike ==
    \A q : Pool!EA!Selectable(q) = PF!EA!Selectable(q) /\ EA!Selectable(q) = PF!EA!Selectable(q)
<1>1. \A S : Pool!EA!Cardinality(S) = PF!EA!Cardinality(S) /\ EA!Cardinality(S) = PF!EA!Cardinality(S)
  BY DEF Pool!EA!Cardinality, PF!EA!Cardinality, EA!Cardinality
<1>2. \A q, S, c : /\ Pool!EA!MaxScoreCount(q, S, c) = PF!EA!MaxScoreCount(q, S, c)
                   /\ EA!MaxScoreCount(q, S, c) = PF!EA!MaxScoreCount(q, S, c)
  BY <1>1 DEF Pool!EA!MaxScoreCount, PF!EA!MaxScoreCount, EA!MaxScoreCount
<1>3. \A q, S : Pool!EA!InPool(q, S) = PF!EA!InPool(q, S) /\ EA!InPool(q, S) = PF!EA!InPool(q, S)
  BY DEF Pool!EA!InPool, PF!EA!InPool, EA!InPool
<1> QED
  BY <1>2, <1>3 DEF Pool!EA!Selectable, PF!EA!Selectable, EA!Selectable

LEMMA PopulationShows ==
    ASSUME NEW n \in Nat, NEW s, StoreType(s, n), Scored(s)
    PROVE  /\ Pool!EA!Eliminated(Population(s)) = EA!Eliminated(s)
           /\ Pool!EA!Selectable(Population(s)) = EA!Selectable(s)
           /\ PF!Busy(Population(s)) = Evolving(s) /\ Pool!Busy(Population(s)) = Evolving(s)
           /\ EA!InPool(s, {"pending"}) = PoolByState(s, {"pending"})
<1>1. /\ PF!Ranked(s) /\ PF!SameAlive(s, Population(s))
  BY StoreRanked
<1>2. /\ PF!EA!Eliminated(Population(s)) = PF!EA!Eliminated(s)
      /\ PF!EA!Selectable(Population(s)) = PF!EA!Selectable(s)
  BY <1>1, PF!SameAliveSame, PoolConstants
<1>3. /\ PF!Busy(Population(s)) = Evolving(s) /\ Pool!Busy(Population(s)) = Evolving(s)
      /\ EA!InPool(s, {"pending"}) = PoolByState(s, {"pending"})
  <2>1. \A c : c \in Evolving(s) <=> c \in EA!Alive(s) /\ s[c].state = "evolving"
    BY AliveMeans DEF Evolving, PoolByState
  <2>2. \A c : c \in PF!Busy(Population(s)) <=> c \in EA!Alive(s) /\ s[c].state = "evolving"
    BY DEF PF!Busy, PF!EA!InPool, Population
  <2>3. \A c : c \in Pool!Busy(Population(s)) <=> c \in EA!Alive(s) /\ s[c].state = "evolving"
    BY DEF Pool!Busy, Pool!EA!InPool, Population
  <2>4. EA!InPool(s, {"pending"}) = PoolByState(s, {"pending"})
    BY DEF EA!InPool, PoolByState
  <2> QED
    BY <2>1, <2>2, <2>3, <2>4
<1> QED
  BY <1>2, <1>3, EliminatedAlike, SelectableAlike

(* One alive candidate is the best of all.                                  *)
LEMMA BestExists ==
    ASSUME NEW n \in Nat, NEW s, StoreType(s, n), Scored(s), EA!Alive(s) # {}
    PROVE  \E b \in EA!Alive(s) : BestCandidates(s) = {b}
<1>1. PF!Ranked(s) /\ PF!EA!Alive(s) = EA!Alive(s)
  BY StoreRanked
<1>2. \A c : c \in BestCandidates(s) <=> PF!Highest(s, EA!Alive(s), c)
  BY RankedAlike DEF BestCandidates, PF!Highest
<1> DEFINE S == EA!Alive(s)
<1>3. S \in SUBSET PF!EA!Alive(s) /\ S # {}
  BY <1>1
<1> HIDE DEF S
<1>4. PICK b : PF!Highest(s, S, b)
  BY <1>1, <1>3, PF!HighestExists, PoolConstants
<1>5. b \in S
  BY <1>4 DEF PF!Highest
<1>6. \A c : PF!Highest(s, S, c) => b = c
  BY <1>1, <1>3, <1>4, PF!HighestUnique, PoolConstants
<1>7. \A c : c \in BestCandidates(s) <=> c = b
  BY <1>2, <1>4, <1>6 DEF S
<1> QED
  BY <1>5, <1>7 DEF S

(* The best candidate depends on the scores and generations of the alive.   *)
LEMMA ReportedStays ==
    ASSUME NEW s, NEW t, EA!Alive(t) = EA!Alive(s),
           \A c \in EA!Alive(s) : t[c].scores = s[c].scores /\ t[c].generation = s[c].generation
    PROVE  \A st, su : SameBest(st, su) /\ Reported(s, st) => Reported(t, su)
<1>1. \A c, d \in EA!Alive(s) : EA!RanksAbove(t, c, d) <=> EA!RanksAbove(s, c, d)
  BY DEF EA!RanksAbove, EA!Precedes
<1>2. BestCandidates(t) = BestCandidates(s) /\ BestCandidates(s) \subseteq EA!Alive(s)
  BY <1>1 DEF BestCandidates
<1>3. ASSUME NEW st, NEW su, SameBest(st, su), Reported(s, st) PROVE Reported(t, su)
  <2>1. st.best \in EA!Alive(s) /\ su.best = st.best /\ su.bestAvg = st.bestAvg
    BY <1>2, <1>3 DEF Reported, SameBest
  <2>2. t[st.best].scores = s[st.best].scores
    BY <2>1
  <2> QED
    BY <1>2, <1>3, <2>1, <2>2 DEF Reported
<1> QED
  BY <1>3

(* Two stores with the same population have the same best candidate.        *)
LEMMA SameReported ==
    ASSUME NEW s, NEW t, Population(t) = Population(s)
    PROVE  /\ EA!Alive(t) = EA!Alive(s)
           /\ \A st, su : SameBest(st, su) /\ Reported(s, st) => Reported(t, su)
<1>1. EA!Alive(t) = EA!Alive(s)
  <2>1. DOMAIN Population(t) = EA!Alive(t) /\ DOMAIN Population(s) = EA!Alive(s)
    BY DEF Population
  <2> QED
    BY <2>1
<1>2. \A c \in EA!Alive(s) : t[c].scores = s[c].scores /\ t[c].generation = s[c].generation
  <2> TAKE c \in EA!Alive(s)
  <2>1. Population(t)[c].scores = Population(s)[c].scores
        /\ Population(t)[c].generation = Population(s)[c].generation
    OBVIOUS
  <2> QED
    BY <1>1, <2>1 DEF Population
<1> QED
  BY <1>1, <1>2, ReportedStays

(* Elimination never empties the pool.                                      *)
LEMMA PoolSurvives ==
    ASSUME NEW n \in Nat, NEW s, StoreType(s, n), Scored(s), EA!Alive(s) # {}
    PROVE  EA!Alive(Retire(s, EA!Eliminated(s))) # {}
<1> DEFINE t == Retire(s, EA!Eliminated(s))
<1>1. PF!Ranked(s) /\ PF!EA!Alive(s) # {}
  BY StoreRanked
<1>2. PICK c \in PF!EA!Alive(s) : c \notin PF!EA!Eliminated(s)
  BY <1>1, PF!SomebodyIsKept, PoolConstants
<1>3. c \in EA!Alive(s) /\ c \notin EA!Eliminated(s)
  BY <1>2, StoreRanked, EliminatedAlike
<1>4. Effect(s, t, EA!Eliminated(s))
  BY RetireEffect
<1>5. c \in EA!Alive(t)
  BY <1>3, <1>4, AliveMeans DEF Effect
<1> QED
  BY <1>5

(* With no slot running there is something to select.                       *)
LEMMA IdlePoolIsSelectable ==
    ASSUME NEW n \in Nat, NEW s, StoreType(s, n), Scored(s), EA!Alive(s) # {},
           Evolving(s) = {}
    PROVE  EA!Selectable(s) # {}
<1>1. PF!Ranked(s)
  BY StoreRanked
<1>2. PICK c \in EA!Alive(s) : TRUE
  OBVIOUS
<1>3. c \in DOMAIN s /\ s[c].state = "pending"
  BY AliveMeans DEF Evolving, PoolByState
<1>4. PF!EA!InPool(s, {"pending"}) # {}
  BY <1>3 DEF PF!EA!InPool
<1>5. PF!EA!Selectable(s) # {}
  BY <1>1, <1>4, PF!SomebodyIsSelectable, PoolConstants
<1> QED
  BY <1>5, SelectableAlike

(* What an ended slot leaves in the statistics: the best of the store, and  *)
(* what was spent.                                                          *)
LEMMA BookedBest ==
    ASSUME stats \in Statistics, NEW s, NEW accepted \in BOOLEAN
    PROVE  LET booked == Booked(s, accepted) IN
           /\ booked.root = stats.root /\ booked.rollouts = stats.rollouts
           /\ booked.systemRuns = stats.systemRuns
           /\ \A b : BestCandidates(s) = {b} => Reported(s, booked)
<1> DEFINE counted == [stats EXCEPT !.total = @ + (IF accepted THEN 1 ELSE 0),
                                    !.rejected = @ + (IF accepted THEN 0 ELSE 1)]
           best == CHOOSE c \in BestCandidates(s) : TRUE
           avg == EA!AvgScore(s[best].scores)
<1>1. /\ counted.root = stats.root /\ counted.rollouts = stats.rollouts
      /\ counted.systemRuns = stats.systemRuns
      /\ DOMAIN counted = {"root", "best", "bestAvg", "iteration", "rollouts", "systemRuns",
                           "total", "rejected"}
  BY DEF Statistics
<1>2. /\ BestCandidates(s) = {} => Booked(s, accepted) = counted
      /\ BestCandidates(s) # {} =>
            Booked(s, accepted) = [counted EXCEPT !.best = best, !.bestAvg = avg]
  BY DEF Booked
<1> HIDE DEF counted, avg, best
<1>3. LET u == [counted EXCEPT !.best = best, !.bestAvg = avg] IN
      /\ u.root = counted.root /\ u.rollouts = counted.rollouts
      /\ u.systemRuns = counted.systemRuns /\ u.best = best /\ u.bestAvg = avg
  BY <1>1
<1>4. ASSUME NEW b, BestCandidates(s) = {b} PROVE Reported(s, Booked(s, accepted))
  <2>1. best = b
    BY <1>4 DEF best
  <2> QED
    BY <1>2, <1>3, <1>4, <2>1 DEF Reported, avg
<1> QED
  BY <1>1, <1>2, <1>3, <1>4
-----------------------------------------------------------------------------
(* What a step of a slot does, seen from outside: it moves to its next      *)
(* await, which nobody sees in the pool, or it ends and gives back.         *)

Spends(t, u, st, su) ==
    /\ t.pc # "validate"
    /\ \/ su = st /\ Left(u) <= Left(t) /\ u.pc # "validate"
       \/ su = CountTrain(st) /\ Left(u) = Left(t) - 1 /\ u.pc # "validate"
       \/ su = CountVal(st) /\ Left(u) = 0 /\ u.pc = "validate"

MovesTo(i, t) ==
    /\ t \in Task /\ t.pc \in Awaiting /\ t.parent = tasks[i].parent
    /\ tasks' = [tasks EXCEPT ![i] = t]
    /\ DepthOK(t) /\ Descends(t, store')
    /\ Spends(tasks[i], t, stats, stats')
    /\ Population(store') = Population(store) /\ GensKept(store, store')
    /\ UNCHANGED <<saved, main>>

Moves(i) == \E t : MovesTo(i, t)

(* The population q after the slot of c gave back what it borrowed from p.  *)
GivesBack(p, q, c) ==
    \/ q = Pool!WithState(p, c, "pending")
    \/ q = Pool!Settled(Pool!WithState(p, c, "pending"))
    \/ \E n \in (Nat \ {0}) \ DOMAIN p, v \in ValScores, g \in {h \in Nat : h > p[c].generation} :
          q = Pool!Settled(Pool!Put(Pool!WithState(p, c, "pending"), n,
                 [state |-> "pending", generation |-> g, scores |-> v]))

Ends(i) ==
    /\ \E accepted \in BOOLEAN : stats' = Booked(store', accepted)
    /\ saved' = stats' /\ tasks' = [tasks EXCEPT ![i] = IdleTask("released")]
    /\ GensKept(store, store') /\ EA!Alive(store') # {}
    /\ GivesBack(Population(store), Population(store'), tasks[i].parent)
    /\ UNCHANGED main

(* The facts about a slot every one of its steps starts from.               *)
LEMMA SlotFacts ==
    ASSUME IInv, SlotInv, SlotsRun, NEW i \in Running
    PROVE  /\ i \in Iterations /\ tasks \in [Iterations -> Task] /\ tasks[i] \in Task
           /\ lastId \in Nat /\ StoreType(store, lastId) /\ Scored(store)
           /\ tasks[i].parent \in EA!Alive(store) /\ tasks[i].parent \in DOMAIN store
           /\ tasks[i].parent \in Evolving(store)
           /\ tasks[i].parent \notin tasks[i].chain
           /\ \A c \in tasks[i].chain : c \in DOMAIN store /\ c \notin EA!Alive(store)
           /\ DepthOK(tasks[i]) /\ Descends(tasks[i], store)
<1>1. /\ i \in Iterations /\ tasks[i] \in Task /\ lastId \in Nat /\ StoreType(store, lastId)
      /\ tasks[i].parent \in DOMAIN store /\ store[tasks[i].parent].state = "evolving"
  BY RunningSlot
<1>2. tasks \in [Iterations -> Task] /\ Scored(store)
  BY DEF IInv, TypeOK
<1>3. \A c \in tasks[i].chain : c \in DOMAIN store /\ store[c].state = "unavailable"
  BY DEF IInv, Chains
<1>4. tasks[i].parent \in EA!Alive(store) /\ tasks[i].parent \in Evolving(store)
  BY <1>1, AliveMeans DEF Evolving, PoolByState
<1>5. \A c \in tasks[i].chain : c \notin EA!Alive(store) /\ c # tasks[i].parent
  BY <1>1, <1>3, AliveMeans
<1> QED
  BY <1>1, <1>2, <1>3, <1>4, <1>5 DEF SlotInv

(* A rollout that starts leaves the store alone.                            *)
LEMMA AwaitRolloutMoves ==
    ASSUME IInv, SlotInv, SlotsRun, NEW i \in Running, NEW t \in Task, NEW st,
           AwaitRollout(i, t, st), store' = store,
           t.pc \in Awaiting, t.parent = tasks[i].parent, t.chain \subseteq tasks[i].chain,
           DepthOK(t), Spends(tasks[i], t, stats, st)
    PROVE  Moves(i)
<1>1. tasks' = [tasks EXCEPT ![i] = t] /\ stats' = st /\ UNCHANGED <<saved, main>>
  BY DEF AwaitRollout
<1>2. Descends(t, store')
  BY SlotFacts DEF Descends
<1>3. GensKept(store, store')
  BY DEF GensKept
<1> QED
  BY <1>1, <1>2, <1>3 DEF Moves, MovesTo

(* A child created on the parent or on a child of the same slot descends    *)
(* from the parent.                                                         *)
LEMMA AwaitProposerMoves ==
    ASSUME IInv, SlotInv, SlotsRun, NEW i \in Running,
           NEW from \in tasks[i].chain \cup {tasks[i].parent},
           NEW cursor \in Cursor, NEW t \in Task, AwaitProposer(i, from, cursor, t),
           t.pc \in {"propose", "reflect"}, t.parent = tasks[i].parent,
           t.chain = tasks[i].chain, DepthOK(t),
           tasks[i].pc # "validate", Left(t) <= Left(tasks[i])
    PROVE  Moves(i)
<1> DEFINE n == lastId + 1
           u == [t EXCEPT !.child = lastId', !.chain = @ \cup {lastId'}]
           p == tasks[i].parent
<1>1. /\ lastId \in Nat /\ StoreType(store, lastId) /\ lastId' = n
      /\ p \in DOMAIN store /\ from \in DOMAIN store /\ Descends(tasks[i], store)
      /\ \A c \in tasks[i].chain : c \in DOMAIN store
  BY SlotFacts DEF AwaitProposer
<1>2. /\ store' = CreateChild(store, from, n, cursor)
      /\ tasks' = [tasks EXCEPT ![i] = u] /\ stats' = stats /\ UNCHANGED <<saved, main>>
  BY <1>1 DEF AwaitProposer
<1>3. /\ Effect(store, store', {n}) /\ n \in DOMAIN store'
      /\ store'[n].state = "unavailable"
  BY <1>1, <1>2, CreateChildEffect
<1>4. /\ GensKept(store, store') /\ n \notin DOMAIN store
      /\ store'[n].generation = store[from].generation + 1
  BY <1>1, <1>2, CreateChildGens
<1>5. /\ u \in Task /\ u.pc = t.pc /\ u.parent = p /\ u.depth = t.depth
      /\ u.chain = tasks[i].chain \cup {n}
  <2>1. n \in Nat /\ tasks[i].chain \cup {n} \in SUBSET Nat
    BY <1>1, SlotFacts DEF Task
  <2> QED
    BY <1>1, <2>1 DEF Task
<1> HIDE DEF u, n
<1>6. Population(store') = Population(store)
  BY <1>3, <1>4, AliveMeans, Unseen
<1>7. Descends(u, store')
  <2>1. \A c \in tasks[i].chain \cup {p} : store'[c].generation = store[c].generation
    BY <1>1, <1>3, <1>4 DEF GensKept, Effect
  <2>2. \A c \in tasks[i].chain \cup {p} : store[c].generation \in Nat
    BY <1>1 DEF StoreType, Candidate
  <2>3. store[from].generation + 1 > store[p].generation
    BY <1>1, <2>2 DEF Descends
  <2>4. store'[n].generation > store'[p].generation
    BY <1>4, <2>1, <2>3
  <2> QED
    BY <1>1, <1>5, <2>1, <2>4 DEF Descends
<1>8. DepthOK(u) /\ Left(u) = Left(t) /\ u.pc \in Awaiting /\ u.pc # "validate"
  BY <1>5 DEF DepthOK, Left, Awaiting
<1>9. Spends(tasks[i], u, stats, stats')
  BY <1>2, <1>8 DEF Spends
<1>10. MovesTo(i, u)
  BY <1>2, <1>4, <1>5, <1>6, <1>7, <1>8, <1>9 DEF MovesTo
<1> QED
  BY <1>10 DEF Moves

(* A slot that completes from a store s with the population it had, or with *)
(* its validated child in it.                                               *)
LEMMA CompletesEnds ==
    ASSUME IInv, SlotInv, SlotsRun, NEW i \in Running, NEW s, NEW accepted \in BOOLEAN,
           Completed(i, s, accepted),
           StoreType(s, lastId), Scored(s), Evolving(s) = Evolving(store),
           GensKept(store, s), DOMAIN s \subseteq DOMAIN store,
           \/ Population(s) = Population(store)
           \/ \E n \in (Nat \ {0}) \ EA!Alive(store), v \in ValScores, g \in Nat :
                 /\ g > store[tasks[i].parent].generation
                 /\ Population(s) = Pool!Put(Population(store), n,
                       [state |-> "pending", generation |-> g, scores |-> v])
    PROVE  Ends(i)
<1> DEFINE p == tasks[i].parent
           moved == SetProgress(s, p, tasks[i].advanced)
           back == SetState(moved, {p}, "pending")
           out == Retire(back, EA!Eliminated(back))
           P == Population(store)
<1>1. EndSlot(i, out, accepted)
  BY DEF Completed
<1>2. /\ lastId \in Nat /\ tasks[i].advanced \in Cursor /\ p \in EA!Alive(store)
      /\ p \in Evolving(s)
  BY SlotFacts DEF Task
<1>3. p \in DOMAIN s /\ s[p].state = "evolving" /\ s[p].scores \in ValScores
  BY <1>2 DEF Evolving, PoolByState, Scored
<1>4. /\ StoreType(moved, lastId) /\ Effect(s, moved, {}) /\ GensKept(s, moved)
      /\ DOMAIN moved = DOMAIN s
  BY <1>2, SetProgressEffect, SetProgressGens
<1> HIDE DEF moved
<1>5. Population(moved) = Population(s)
  BY <1>4, Unseen
<1>6. p \in DOMAIN moved /\ moved[p].state = "evolving" /\ p \in EA!Alive(moved)
  BY <1>3, <1>4, AliveMeans DEF Effect
<1>7. /\ StoreType(back, lastId) /\ Effect(moved, back, {p}) /\ DOMAIN back = DOMAIN moved
      /\ back[p].state = "pending" /\ back[p].scores = moved[p].scores
      /\ GensKept(moved, back)
      /\ \A c \in DOMAIN moved : back[c].scores = moved[c].scores
  BY <1>2, <1>4, <1>6, SetStateEffect, SetStateGens DEF CandidateState
<1> HIDE DEF back
<1>8. Population(back) = Pool!WithState(Population(s), p, "pending")
  BY <1>5, <1>6, <1>7, Restated
<1>9. Scored(back) /\ EA!Alive(back) # {}
  <2>1. \A c \in DOMAIN s : back[c].scores = s[c].scores
    BY <1>4, <1>7 DEF Effect
  <2>2. \A c \in DOMAIN s \ {p} : back[c].state = s[c].state
    BY <1>4, <1>7 DEF Effect
  <2>3. Scored(back)
    BY <1>3, <1>4, <1>7, <2>1, <2>2 DEF Scored
  <2> QED
    BY <1>6, <1>7, <2>3, AliveMeans
<1>10. /\ Population(out) = Pool!Drop(Population(back), EA!Eliminated(back))
       /\ GensKept(back, out) /\ DOMAIN out \subseteq DOMAIN back
       /\ EA!Alive(out) # {}
  BY <1>2, <1>7, <1>9, Retired, RetireGens, PoolSurvives
<1> HIDE DEF out
<1>11. Population(out) = Pool!Settled(Population(back))
  BY <1>2, <1>7, <1>9, <1>10, PopulationShows DEF Pool!Settled
<1>12. GensKept(store, out)
  BY <1>4, <1>7, <1>10 DEF GensKept
<1>13. DOMAIN P = EA!Alive(store) /\ P[p].generation = store[p].generation
  BY <1>2 DEF Population
<1>14. GivesBack(P, Population(out), p)
  <2>1. CASE Population(s) = P
    BY <1>8, <1>11, <2>1 DEF GivesBack
  <2>2. CASE \E n \in (Nat \ {0}) \ EA!Alive(store), v \in ValScores, g \in Nat :
                 /\ g > store[p].generation
                 /\ Population(s) = Pool!Put(P, n,
                       [state |-> "pending", generation |-> g, scores |-> v])
    <3>1. PICK n \in (Nat \ {0}) \ EA!Alive(store), v \in ValScores, g \in Nat :
                 /\ g > store[p].generation
                 /\ Population(s) = Pool!Put(P, n,
                       [state |-> "pending", generation |-> g, scores |-> v])
      BY <2>2
    <3> DEFINE rec == [state |-> "pending", generation |-> g, scores |-> v]
    <3>2. p # n /\ p \in DOMAIN P /\ n \notin DOMAIN P
      BY <1>2, <1>13
    <3> HIDE DEF rec, P, p
    <3>3. Pool!WithState(Pool!Put(P, n, rec), p, "pending")
            = Pool!Put(Pool!WithState(P, p, "pending"), n, rec)
      BY <3>2 DEF Pool!WithState, Pool!Put
    <3>4. Population(out) = Pool!Settled(Pool!Put(Pool!WithState(P, p, "pending"), n, rec))
      BY <1>8, <1>11, <3>1, <3>3 DEF rec
    <3>5. g \in {h \in Nat : h > P[p].generation} /\ n \in (Nat \ {0}) \ DOMAIN P
      BY <1>13, <3>1
    <3> QED
      BY <3>4, <3>5 DEF GivesBack, rec
  <2> QED
    BY <2>1, <2>2
<1>15. /\ store' = out /\ stats' = Booked(store', accepted) /\ saved' = stats'
       /\ tasks' = [tasks EXCEPT ![i] = IdleTask("released")] /\ main' = main
  BY <1>1 DEF EndSlot
<1> QED
  BY <1>10, <1>12, <1>14, <1>15 DEF Ends

(* Retiring a part of a slot's chain is not seen.                           *)
LEMMA RetirePart ==
    ASSUME IInv, SlotInv, SlotsRun, NEW i \in Running, NEW C \in SUBSET tasks[i].chain
    PROVE  LET s == Retire(store, C) IN
           /\ Population(s) = Population(store)
           /\ GensKept(store, s) /\ DOMAIN s \subseteq DOMAIN store /\ Effect(store, s, C)
<1> DEFINE s == Retire(store, C)
<1>1. /\ lastId \in Nat /\ StoreType(store, lastId)
      /\ \A c \in tasks[i].chain : c \notin EA!Alive(store)
  BY SlotFacts
<1>2. /\ Effect(store, s, C) /\ \A c \in C \cap DOMAIN s : s[c].state = "unavailable"
      /\ GensKept(store, s) /\ DOMAIN s \subseteq DOMAIN store
  BY <1>1, RetireEffect, RetireGens
<1> HIDE DEF s
<1>3. \A c \in C : c \notin EA!Alive(store) /\ c \notin EA!Alive(s)
  BY <1>1, <1>2, AliveMeans
<1>4. Population(s) = Population(store)
  BY <1>2, <1>3, Unseen
<1> QED
  BY <1>2, <1>4 DEF s

LEMMA ChainRejectedEnds ==
    ASSUME IInv, SlotInv, SlotsRun, NEW i \in Running,
           Completed(i, Retire(store, tasks[i].chain), FALSE)
    PROVE  Ends(i)
<1> DEFINE s == Retire(store, tasks[i].chain)
<1>1. StoreType(s, lastId) /\ Scored(s) /\ Evolving(s) = Evolving(store)
  BY RetireChain
<1>2. Population(s) = Population(store) /\ GensKept(store, s) /\ DOMAIN s \subseteq DOMAIN store
  BY RetirePart
<1> HIDE DEF s
<1>3. Completed(i, s, FALSE)
  BY DEF s
<1> QED
  BY <1>1, <1>2, <1>3, CompletesEnds

LEMMA EndChainShape ==
    ASSUME IInv, SlotInv, SlotsRun, NEW i \in Running, NEW b \in tasks[i].chain, NEW sum \in Nat,
           tasks[i].pc # "validate", EndChain(i, b, sum)
    PROVE  Moves(i) \/ Ends(i)
<1>1. CASE sum > tasks[i].parentSum
  <2> DEFINE t == [tasks[i] EXCEPT !.pc = "validate", !.best = b, !.bestSum = sum,
                                   !.chain = {b}]
             C == tasks[i].chain \ {b}
  <2>1. /\ store' = Retire(store, C) /\ tasks' = [tasks EXCEPT ![i] = t]
        /\ stats' = CountVal(stats) /\ UNCHANGED <<saved, main>>
    BY <1>1 DEF EndChain, AwaitRollout
  <2>2. /\ Population(store') = Population(store) /\ GensKept(store, store')
        /\ Effect(store, store', C)
    BY <2>1, RetirePart
  <2>3. /\ tasks[i] \in Task /\ b \in Nat /\ Descends(tasks[i], store)
        /\ b \in DOMAIN store /\ tasks[i].parent \in DOMAIN store
        /\ tasks[i].parent \notin C
    BY SlotFacts DEF StoreType
  <2>4. /\ t \in Task /\ t.pc = "validate" /\ t.parent = tasks[i].parent /\ t.chain = {b}
    <3>1. {b} \in SUBSET Nat /\ "validate" \in TaskPC
      BY <2>3 DEF TaskPC, Awaiting
    <3> QED
      BY <2>3, <3>1 DEF Task
  <2> HIDE DEF t
  <2>5. Descends(t, store')
    <3>1. /\ store'[b].generation = store[b].generation
          /\ store'[tasks[i].parent].generation = store[tasks[i].parent].generation
      BY <2>2, <2>3 DEF Effect, GensKept
    <3> QED
      BY <2>3, <2>4, <3>1 DEF Descends
  <2>6. DepthOK(t) /\ Left(t) = 0 /\ t.pc \in Awaiting
    BY <2>4 DEF DepthOK, Left, Awaiting
  <2>7. Spends(tasks[i], t, stats, stats')
    BY <2>1, <2>4, <2>6 DEF Spends
  <2> QED
    BY <2>1, <2>2, <2>4, <2>5, <2>6, <2>7 DEF Moves, MovesTo
<1>2. CASE ~(sum > tasks[i].parentSum)
  BY <1>2, ChainRejectedEnds DEF EndChain
<1> QED
  BY <1>1, <1>2

LEMMA SlotStartMoves ==
    ASSUME IInv, SlotInv, SlotsRun, NEW i \in Running, SlotStart(i)
    PROVE  Moves(i)
<1> DEFINE adv == Advance(DatasetSize, BatchSize, store[tasks[i].parent].cursor)
           t == [tasks[i] EXCEPT !.pc = "parent", !.advanced = adv]
<1>1. /\ tasks[i] \in Task /\ DepthOK(tasks[i]) /\ tasks[i].pc = "new"
      /\ store[tasks[i].parent].cursor \in Cursor
  BY SlotFacts DEF SlotStart, StoreType, Candidate
<1>2. adv \in Cursor
  BY <1>1, ConstantTypes, AdvanceType
<1>3. AwaitRollout(i, t, CountTrain(stats)) /\ store' = store
  BY DEF SlotStart
<1> HIDE DEF adv
<1>4. /\ t \in Task /\ t.pc = "parent" /\ t.parent = tasks[i].parent
      /\ t.chain = tasks[i].chain /\ t.depth = tasks[i].depth
  <2>1. "parent" \in TaskPC
    BY DEF TaskPC, Awaiting
  <2> QED
    BY <1>1, <1>2, <2>1 DEF Task
<1> HIDE DEF t
<1>5. DepthOK(t) /\ Left(t) = Left(tasks[i]) - 1 /\ t.pc \in Awaiting
  BY <1>1, <1>4, OptimizerAssumption DEF DepthOK, Left, Awaiting
<1>6. Spends(tasks[i], t, stats, CountTrain(stats))
  BY <1>1, <1>4, <1>5 DEF Spends
<1> QED
  BY <1>3, <1>4, <1>5, <1>6, AwaitRolloutMoves

LEMMA ParentPerfectEnds ==
    ASSUME IInv, SlotInv, SlotsRun, NEW i \in Running, ParentPerfect(i)
    PROVE  Ends(i)
<1>1. Completed(i, store, FALSE) /\ StoreType(store, lastId) /\ Scored(store)
  BY SlotFacts DEF ParentPerfect
<1>2. GensKept(store, store)
  BY DEF GensKept
<1> QED
  BY <1>1, <1>2, CompletesEnds

LEMMA ParentEvaluatedMoves ==
    ASSUME IInv, SlotInv, SlotsRun, NEW i \in Running, ParentEvaluated(i)
    PROVE  Moves(i)
<1>1. PICK sum \in 0 .. PerfectSum - 1 :
         AwaitProposer(i, tasks[i].parent, tasks[i].advanced,
                       [tasks[i] EXCEPT !.pc = "propose", !.parentSum = sum])
  BY DEF ParentEvaluated
<1> DEFINE t == [tasks[i] EXCEPT !.pc = "propose", !.parentSum = sum]
<1>2. /\ tasks[i] \in Task /\ DepthOK(tasks[i]) /\ tasks[i].pc = "parent"
      /\ tasks[i].advanced \in Cursor /\ sum \in Nat
  BY SlotFacts, ConstantTypes DEF ParentEvaluated, Task
<1>3. /\ t \in Task /\ t.pc = "propose" /\ t.parent = tasks[i].parent
      /\ t.chain = tasks[i].chain /\ t.depth = tasks[i].depth
  <2>1. "propose" \in TaskPC
    BY DEF TaskPC, Awaiting
  <2> QED
    BY <1>2, <2>1 DEF Task
<1>4. AwaitProposer(i, tasks[i].parent, tasks[i].advanced, t)
  BY <1>1
<1> HIDE DEF t
<1>5. DepthOK(t) /\ Left(t) <= Left(tasks[i])
  BY <1>2, <1>3, OptimizerAssumption DEF DepthOK, Left
<1> QED
  BY <1>2, <1>3, <1>4, <1>5, AwaitProposerMoves

LEMMA RunChildMoves ==
    ASSUME IInv, SlotInv, SlotsRun, NEW i \in Running, Proposed(i) \/ Reflected(i)
    PROVE  Moves(i)
<1>1. PICK pc \in {"child", "chain"} :
         /\ AwaitRollout(i, [tasks[i] EXCEPT !.pc = pc], CountTrain(stats)) /\ store' = store
         /\ tasks[i].pc = IF pc = "child" THEN "propose" ELSE "reflect"
  BY DEF Proposed, Reflected
<1> DEFINE t == [tasks[i] EXCEPT !.pc = pc]
<1>2. tasks[i] \in Task /\ DepthOK(tasks[i]) /\ tasks[i].pc # "validate"
  BY <1>1, SlotFacts
<1>3. /\ t \in Task /\ t.pc = pc /\ t.parent = tasks[i].parent
      /\ t.chain = tasks[i].chain /\ t.depth = tasks[i].depth
  <2>1. pc \in TaskPC
    BY DEF TaskPC, Awaiting
  <2> QED
    BY <1>2, <2>1 DEF Task
<1>4. AwaitRollout(i, t, CountTrain(stats))
  BY <1>1
<1> HIDE DEF t
<1>5. DepthOK(t) /\ Left(t) = Left(tasks[i]) - 1 /\ t.pc \in Awaiting /\ t.pc # "validate"
  <2>1. MaxReflections \in Nat
    BY OptimizerAssumption
  <2>2. tasks[i].depth \in Nat
    BY <1>2 DEF Task
  <2>3. CASE pc = "child"
    BY <1>1, <1>2, <1>3, <2>1, <2>2, <2>3 DEF DepthOK, Left, Awaiting
  <2>4. CASE pc = "chain"
    BY <1>1, <1>2, <1>3, <2>1, <2>2, <2>4 DEF DepthOK, Left, Awaiting
  <2> QED
    BY <2>3, <2>4
<1>6. Spends(tasks[i], t, stats, CountTrain(stats))
  BY <1>2, <1>5 DEF Spends
<1> QED
  BY <1>1, <1>3, <1>4, <1>5, <1>6, AwaitRolloutMoves

LEMMA ChildAcceptedMoves ==
    ASSUME IInv, SlotInv, SlotsRun, NEW i \in Running, ChildAccepted(i)
    PROVE  Moves(i)
<1>1. PICK sum \in 0 .. PerfectSum :
         AwaitRollout(i, [tasks[i] EXCEPT !.pc = "validate", !.best = tasks[i].child,
                                          !.bestSum = sum], CountVal(stats))
  BY DEF ChildAccepted
<1> DEFINE t == [tasks[i] EXCEPT !.pc = "validate", !.best = tasks[i].child, !.bestSum = sum]
<1>2. /\ tasks[i] \in Task /\ tasks[i].pc = "child" /\ store' = store
      /\ sum \in Nat /\ tasks[i].child \in Nat /\ "validate" \in TaskPC
  BY SlotFacts, ConstantTypes DEF ChildAccepted, Task, TaskPC, Awaiting
<1>3. /\ t \in Task /\ t.pc = "validate" /\ t.parent = tasks[i].parent
      /\ t.chain = tasks[i].chain
  BY <1>2 DEF Task
<1> HIDE DEF t
<1>4. DepthOK(t) /\ Left(t) = 0 /\ t.pc \in Awaiting
  BY <1>3 DEF DepthOK, Left, Awaiting
<1>5. Spends(tasks[i], t, stats, CountVal(stats))
  BY <1>2, <1>3, <1>4 DEF Spends
<1>6. AwaitRollout(i, t, CountVal(stats))
  BY <1>1 DEF t
<1> QED
  BY <1>2, <1>3, <1>4, <1>5, <1>6, AwaitRolloutMoves

LEMMA NextReflectionMoves ==
    ASSUME IInv, SlotInv, SlotsRun, NEW i \in Running, tasks[i].pc \in {"child", "chain"},
           tasks[i].depth # MaxReflections,
           NEW best \in tasks[i].chain, NEW top \in Nat,
           NextReflection(i, [tasks[i] EXCEPT !.best = best, !.bestSum = top])
    PROVE  Moves(i)
<1> DEFINE u == [tasks[i] EXCEPT !.best = best, !.bestSum = top]
           t == [u EXCEPT !.pc = "reflect", !.depth = @ + 1]
<1>1. tasks[i] \in Task /\ LocalOK(tasks[i], lastId) /\ DepthOK(tasks[i])
  BY SlotFacts, KeepsStore
<1>2. tasks[i].child \in tasks[i].chain
  BY <1>1 DEF LocalOK
<1>3. store[tasks[i].child].cursor \in Cursor /\ best \in Nat
  BY <1>2, SlotFacts DEF StoreType, Candidate
<1>4. /\ u \in Task /\ u.child = tasks[i].child /\ u.parent = tasks[i].parent
      /\ u.chain = tasks[i].chain /\ u.depth = tasks[i].depth
  BY <1>1, <1>3 DEF Task
<1> HIDE DEF u
<1>5. /\ t \in Task /\ t.pc = "reflect" /\ t.parent = tasks[i].parent
      /\ t.chain = tasks[i].chain /\ t.depth = tasks[i].depth + 1
  <2>1. "reflect" \in TaskPC /\ u.depth + 1 \in Nat
    BY <1>4 DEF TaskPC, Awaiting, Task
  <2> QED
    BY <1>4, <2>1 DEF Task
<1>6. AwaitProposer(i, u.child, store[u.child].cursor, t)
  BY DEF NextReflection, u
<1> HIDE DEF t
<1>7. DepthOK(t) /\ Left(t) <= Left(tasks[i])
  <2>1. MaxReflections \in Nat /\ tasks[i].depth \in Nat
    BY <1>1, OptimizerAssumption DEF Task
  <2>2. t.depth \in 1 .. MaxReflections
    BY <1>1, <1>5, <2>1 DEF DepthOK
  <2> QED
    BY <1>1, <1>5, <2>1, <2>2 DEF DepthOK, Left
<1> QED
  BY <1>2, <1>3, <1>4, <1>5, <1>6, <1>7, AwaitProposerMoves

LEMMA ChildReflectsMoves ==
    ASSUME IInv, SlotInv, SlotsRun, NEW i \in Running, ChildReflects(i)
    PROVE  Moves(i)
<1>1. PICK sum \in 0 .. PerfectSum :
         NextReflection(i, [tasks[i] EXCEPT !.best = tasks[i].child, !.bestSum = sum])
  BY DEF ChildReflects
<1>2. sum \in Nat /\ tasks[i].pc = "child" /\ MaxReflections > 0 /\ tasks[i].depth = 0
  BY SlotFacts, ConstantTypes DEF ChildReflects, DepthOK
<1>3. tasks[i].child \in tasks[i].chain
  BY <1>2, KeepsStore DEF LocalOK
<1>4. tasks[i].depth # MaxReflections
  BY <1>2, OptimizerAssumption
<1> QED
  BY <1>1, <1>2, <1>3, <1>4, NextReflectionMoves

LEMMA ReflectFailedShape ==
    ASSUME IInv, SlotInv, SlotsRun, NEW i \in Running, ReflectFailed(i)
    PROVE  Moves(i) \/ Ends(i)
<1>1. tasks[i].best \in tasks[i].chain
  BY KeepsStore DEF LocalOK, ReflectFailed
<1>2. tasks[i].bestSum \in Nat
  BY RunningSlot DEF Task
<1>3. tasks[i].pc # "validate" /\ EndChain(i, tasks[i].best, tasks[i].bestSum)
  BY DEF ReflectFailed
<1> QED
  BY <1>1, <1>2, <1>3, EndChainShape

LEMMA ChainEvaluatedShape ==
    ASSUME IInv, SlotInv, SlotsRun, NEW i \in Running, ChainEvaluated(i)
    PROVE  Moves(i) \/ Ends(i)
<1>1. PICK sum \in 0 .. PerfectSum :
         LET better == sum > tasks[i].bestSum
             best   == IF better THEN tasks[i].child ELSE tasks[i].best
             top    == IF better THEN sum ELSE tasks[i].bestSum
         IN  IF Clears(tasks[i].parentSum, sum) \/ tasks[i].depth = MaxReflections
             THEN EndChain(i, best, top)
             ELSE NextReflection(i, [tasks[i] EXCEPT !.best = best, !.bestSum = top])
  BY DEF ChainEvaluated
<1> DEFINE best == IF sum > tasks[i].bestSum THEN tasks[i].child ELSE tasks[i].best
           top == IF sum > tasks[i].bestSum THEN sum ELSE tasks[i].bestSum
<1>2. tasks[i].pc = "chain" /\ sum \in Nat
  BY ConstantTypes DEF ChainEvaluated
<1>3. tasks[i].child \in tasks[i].chain /\ tasks[i].best \in tasks[i].chain
  BY <1>2, KeepsStore DEF LocalOK
<1>4. tasks[i].bestSum \in Nat
  BY RunningSlot DEF Task
<1>5. best \in tasks[i].chain /\ top \in Nat
  BY <1>2, <1>3, <1>4
<1>6. \/ EndChain(i, best, top)
      \/ /\ tasks[i].depth # MaxReflections
         /\ NextReflection(i, [tasks[i] EXCEPT !.best = best, !.bestSum = top])
  BY <1>1
<1> HIDE DEF best, top
<1>7. tasks[i].pc # "validate"
  BY <1>2
<1> QED
  BY <1>2, <1>5, <1>6, <1>7, EndChainShape, NextReflectionMoves

LEMMA ValidatedEnds ==
    ASSUME IInv, SlotInv, SlotsRun, NEW i \in Running, Validated(i)
    PROVE  Ends(i)
<1> DEFINE b == tasks[i].best
<1>1. PICK v \in ValScores : Completed(i, JoinsPool(store, b, v), TRUE)
  BY DEF Validated, JoinsPool
<1> DEFINE s == JoinsPool(store, b, v)
<1>2. b \in tasks[i].chain
  BY KeepsStore DEF LocalOK, Validated
<1>3. /\ lastId \in Nat /\ StoreType(store, lastId) /\ v \in ScoreList /\ Scored(store)
      /\ b \in DOMAIN store /\ b \notin EA!Alive(store) /\ Descends(tasks[i], store)
  BY <1>2, SlotFacts, ScoreLists
<1>4. store[b].state = "unavailable"
  BY <1>2 DEF IInv, Chains
<1> HIDE DEF b
<1>5. /\ StoreType(s, lastId) /\ Effect(store, s, {b}) /\ DOMAIN s = DOMAIN store
      /\ s[b].scores = v /\ s[b].state = "pending" /\ GensKept(store, s)
  BY <1>3, JoinsPoolEffect, JoinsPoolGens
<1>6. Population(s) = Pool!Put(Population(store), b,
         [state |-> "pending", generation |-> store[b].generation, scores |-> v])
  BY <1>3, Joined
<1> HIDE DEF s
<1>7. \A c \in DOMAIN store \ {b} : s[c].state = store[c].state /\ s[c].scores = store[c].scores
  BY <1>5 DEF Effect
<1>8. Scored(s)
  BY <1>3, <1>5, <1>7 DEF Scored
<1>9. Evolving(s) = Evolving(store)
  BY <1>3, <1>4, <1>5, <1>7 DEF Evolving, PoolByState
<1>10. Completed(i, s, TRUE)
  BY <1>1 DEF s
<1>11. /\ b \in (Nat \ {0}) \ EA!Alive(store) /\ store[b].generation \in Nat
       /\ store[b].generation > store[tasks[i].parent].generation
  BY <1>2, <1>3 DEF StoreType, Candidate, Descends
<1> QED
  BY <1>5, <1>6, <1>8, <1>9, <1>10, <1>11, CompletesEnds

LEMMA RolloutRaisesEnds ==
    ASSUME IInv, SlotInv, SlotsRun, NEW i \in Running, RolloutRaises(i)
    PROVE  Ends(i)
<1> DEFINE p == tasks[i].parent
           s == SetState(store, {p}, "pending")
<1>1. /\ lastId \in Nat /\ StoreType(store, lastId) /\ p \in DOMAIN store
      /\ p \in EA!Alive(store)
  BY SlotFacts
<1>2. /\ EndSlot(i, s, FALSE)
  BY DEF RolloutRaises
<1> HIDE DEF p
<1>3. /\ Effect(store, s, {p}) /\ DOMAIN s = DOMAIN store /\ GensKept(store, s)
      /\ s[p].state = "pending" /\ s[p].scores = store[p].scores
  BY <1>1, SetStateEffect, SetStateGens DEF CandidateState
<1> HIDE DEF s
<1>4. Population(s) = Pool!WithState(Population(store), p, "pending")
  BY <1>1, <1>3, Restated
<1>5. EA!Alive(s) # {}
  BY <1>1, <1>3, AliveMeans
<1>6. /\ store' = s /\ stats' = Booked(store', FALSE) /\ saved' = stats'
      /\ tasks' = [tasks EXCEPT ![i] = IdleTask("released")] /\ main' = main
  BY <1>2 DEF EndSlot
<1> QED
  BY <1>3, <1>4, <1>5, <1>6 DEF Ends, GivesBack, p

(* Every step of a slot.                                                    *)
LEMMA SlotStepShape ==
    ASSUME IInv, SlotInv, NEW i \in Iterations, SlotStep(i)
    PROVE  SlotsRun /\ (Discard(i) \/ (i \in Running /\ (Moves(i) \/ Ends(i))))
<1>1. SlotsRun
  BY DEF SlotStep, SlotsRun
<1>2. CASE ~Discard(i)
  <2>1. i \in Running
    BY <1>2 DEF SlotStep, SlotStart, ParentPerfect, ParentEvaluated, Proposed, ProposeFailed,
       ChildAccepted, ChildRejected, ChildReflects, Reflected, ReflectFailed, ChainEvaluated,
       Validated, RolloutRaises, Running, Awaiting
  <2>2. \/ SlotStart(i)
        \/ ParentPerfect(i) \/ ParentEvaluated(i)
        \/ Proposed(i) \/ ProposeFailed(i)
        \/ ChildAccepted(i) \/ ChildRejected(i) \/ ChildReflects(i)
        \/ Reflected(i) \/ ReflectFailed(i) \/ ChainEvaluated(i)
        \/ Validated(i)
        \/ RolloutRaises(i)
    BY <1>2 DEF SlotStep
  <2>3. ProposeFailed(i) \/ ChildRejected(i) => Ends(i)
    BY <1>1, <2>1, ChainRejectedEnds DEF ProposeFailed, ChildRejected
  <2> QED
    BY <1>1, <2>1, <2>2, <2>3, SlotStartMoves, ParentPerfectEnds, ParentEvaluatedMoves,
       RunChildMoves, ChildAcceptedMoves, ChildReflectsMoves, ReflectFailedShape,
       ChainEvaluatedShape, ValidatedEnds, RolloutRaisesEnds
<1> QED
  BY <1>1, <1>2
-----------------------------------------------------------------------------
(* What the slots still run: finite sets that only shrink as they move.     *)

LEMMA Scale ==
    ASSUME NEW k \in Nat, NEW a \in Nat, NEW b \in Nat, a <= b
    PROVE  k * a \in Nat /\ k * b \in Nat /\ k * a <= k * b
<1>1. b - a \in Nat
  OBVIOUS
<1>2. k * (b - a) \in Nat /\ k * a \in Nat /\ k * b \in Nat
  BY <1>1
<1>3. k * (b - a) = k * b - k * a
  OBVIOUS
<1> QED
  BY <1>2, <1>3

(* One unit less.                                                           *)
LEMMA ScaleLess ==
    ASSUME NEW k \in Nat, NEW a \in Nat, NEW b \in Nat, a + 1 <= b
    PROVE  k * a + k <= k * b
<1>1. k * (a + 1) <= k * b
  BY Scale
<1>2. k * (a + 1) = k * a + k
  OBVIOUS
<1> QED
  BY <1>1, <1>2

TodoCounted ==
    /\ IsFiniteSet(Todo) /\ Cardinality(Todo) \in Nat
    /\ IsFiniteSet(Unvalidated) /\ Cardinality(Unvalidated) \in Nat
    /\ Cardinality(Todo) <= Cardinality(Running) * (2 + MaxReflections)
    /\ Cardinality(Unvalidated) <= Cardinality(Running)

LEMMA TodoFinite == TodoCounted
<1> DEFINE R == 1 .. MaxReflections + 2
<1>1. IsFiniteSet(Running) /\ MaxReflections \in Nat
  BY RunningFinite, OptimizerAssumption
<1>2. IsFiniteSet(R) /\ Cardinality(R) = 2 + MaxReflections
  BY <1>1, FS_Interval
<1> HIDE DEF R
<1>3. IsFiniteSet(Running \X R) /\ Cardinality(Running \X R) = Cardinality(Running) * Cardinality(R)
  BY <1>1, <1>2, FS_Product
<1>4. Todo \in SUBSET (Running \X R) /\ Unvalidated \in SUBSET Running
  BY DEF Todo, Unvalidated, R
<1> QED
  BY <1>1, <1>2, <1>3, <1>4, FS_Subset, FS_CardinalityType DEF TodoCounted

(* With no slot running nothing is left to do.                              *)
LEMMA NothingTodo ==
    Running = {} => Cardinality(Todo) = 0 /\ Cardinality(Unvalidated) = 0
<1> SUFFICES ASSUME Running = {} PROVE Cardinality(Todo) = 0 /\ Cardinality(Unvalidated) = 0
  OBVIOUS
<1>1. Todo = {} /\ Unvalidated = {}
  BY DEF Todo, Unvalidated
<1> QED
  BY <1>1, FS_EmptySet

LEMMA LeftRange ==
    ASSUME NEW t \in Task, DepthOK(t)
    PROVE  Left(t) \in 0 .. MaxReflections + 2
<1>1. MaxReflections \in Nat
  BY OptimizerAssumption
<1> QED
  BY <1>1 DEF Left, DepthOK

(* A running slot's candidates are in the store.                            *)
LEMMA SlotCandidatesNow ==
    ASSUME IInv, NEW j \in Running
    PROVE  /\ tasks[j].parent \in DOMAIN store
           /\ tasks[j].chain \subseteq DOMAIN store
           /\ main \notin {"start", "baseline", "down"}
<1>1. main \notin {"start", "baseline", "down"}
  BY DEF IInv, Quiet
<1>2. tasks[j].parent \in Evolving(store)
  BY <1>1 DEF IInv, Ownership, Parents
<1> QED
  BY <1>1, <1>2 DEF IInv, Chains, Evolving, PoolByState

(* A step that does not touch a slot leaves what SlotInv says of it.        *)
LEMMA OtherSlots ==
    ASSUME IInv, IInv', SlotInv, GensKept(store, store'),
           NEW j \in Running, j \in Running', tasks'[j] = tasks[j]
    PROVE  DepthOK(tasks'[j]) /\ Descends(tasks'[j], store')
<1>1. /\ tasks[j].parent \in DOMAIN store /\ tasks[j].chain \subseteq DOMAIN store
      /\ main' # "down"
  BY SlotCandidatesNow DEF IInv, Quiet
<1>2. tasks[j].parent \in DOMAIN store' /\ tasks[j].chain \subseteq DOMAIN store'
  BY <1>1, SlotCandidatesNext
<1>3. DepthOK(tasks[j]) /\ Descends(tasks[j], store)
  BY DEF SlotInv
<1>4. \A c \in tasks[j].chain \cup {tasks[j].parent} : store'[c].generation = store[c].generation
  BY <1>1, <1>2 DEF GensKept
<1> QED
  BY <1>3, <1>4 DEF Descends
-----------------------------------------------------------------------------
(* RInv is kept by every step.                                              *)

(* The counters of the statistics.                                          *)
LEMMA Numbers ==
    ASSUME TypeOK
    PROVE  /\ stats.rollouts \in Nat /\ stats.systemRuns \in Nat
           /\ saved.rollouts \in Nat /\ saved.systemRuns \in Nat
           /\ stats.iteration \in Nat /\ stats.root \in Nat
           /\ BatchLength \in Nat /\ ValSize \in Nat /\ NumProposals \in Nat \ {0}
           /\ MaxRollouts \in Nat /\ MaxSystemRuns \in Nat /\ MaxReflections \in Nat
BY BatchLengthType, OptimizerAssumption DEF TypeOK, Statistics

(* Counting a rollout changes the two counters only.                        *)
LEMMA Counting ==
    ASSUME NEW st \in Statistics
    PROVE  /\ CountTrain(st).rollouts = st.rollouts + BatchLength
           /\ CountTrain(st).systemRuns = st.systemRuns + BatchLength
           /\ CountVal(st).rollouts = st.rollouts
           /\ CountVal(st).systemRuns = st.systemRuns + ValSize
           /\ SameBest(st, CountTrain(st)) /\ SameBest(st, CountVal(st))
           /\ CountTrain(st).iteration = st.iteration /\ CountVal(st).iteration = st.iteration
BY DEF CountTrain, CountVal, Statistics, SameBest

(* A step spends no more than what it takes from the list of things to do.  *)
LEMMA DueFalls ==
    ASSUME TypeOK, TypeOK',
           \/ /\ stats'.rollouts = stats.rollouts + BatchLength
              /\ stats'.systemRuns = stats.systemRuns + BatchLength
              /\ Cardinality(Todo') + 1 <= Cardinality(Todo)
              /\ Cardinality(Unvalidated') <= Cardinality(Unvalidated)
           \/ /\ stats'.rollouts = stats.rollouts
              /\ stats'.systemRuns = stats.systemRuns + ValSize
              /\ Cardinality(Todo') <= Cardinality(Todo)
              /\ Cardinality(Unvalidated') + 1 <= Cardinality(Unvalidated)
           \/ /\ stats'.rollouts <= stats.rollouts
              /\ stats'.systemRuns <= stats.systemRuns
              /\ Cardinality(Todo') <= Cardinality(Todo)
              /\ Cardinality(Unvalidated') <= Cardinality(Unvalidated)
    PROVE  DueRollouts' <= DueRollouts /\ DueSystemRuns' <= DueSystemRuns
<1> DEFINE n == Cardinality(Todo)
           k == Cardinality(Todo')
           m == Cardinality(Unvalidated)
           l == Cardinality(Unvalidated')
<1>1. n \in Nat /\ k \in Nat /\ m \in Nat /\ l \in Nat
  <2>1. TodoCounted /\ TodoCounted'
    BY TodoFinite, PTL
  <2> QED
    BY <2>1 DEF TodoCounted
<1>2. /\ DueRollouts = stats.rollouts + BatchLength * n
      /\ DueRollouts' = stats'.rollouts + BatchLength * k
      /\ DueSystemRuns = stats.systemRuns + BatchLength * n + ValSize * m
      /\ DueSystemRuns' = stats'.systemRuns + BatchLength * k + ValSize * l
  BY DEF DueRollouts, DueSystemRuns, BatchLength
<1>3. /\ stats.rollouts \in Nat /\ stats.systemRuns \in Nat
      /\ stats'.rollouts \in Nat /\ stats'.systemRuns \in Nat
      /\ BatchLength \in Nat /\ ValSize \in Nat
  <2>1. stats'.rollouts \in Nat /\ stats'.systemRuns \in Nat
    BY DEF TypeOK, Statistics
  <2> QED
    BY <2>1, Numbers
<1>4. CASE /\ stats'.rollouts = stats.rollouts + BatchLength
           /\ stats'.systemRuns = stats.systemRuns + BatchLength
           /\ k + 1 <= n /\ l <= m
  <2> HIDE DEF n, k, m, l
  <2>1. BatchLength * k + BatchLength <= BatchLength * n /\ ValSize * l <= ValSize * m
        /\ BatchLength * k \in Nat /\ BatchLength * n \in Nat
        /\ ValSize * l \in Nat /\ ValSize * m \in Nat
    BY <1>1, <1>3, <1>4, Scale, ScaleLess
  <2> QED
    BY <1>2, <1>3, <1>4, <2>1
<1>5. CASE /\ stats'.rollouts = stats.rollouts
           /\ stats'.systemRuns = stats.systemRuns + ValSize
           /\ k <= n /\ l + 1 <= m
  <2> HIDE DEF n, k, m, l
  <2>1. BatchLength * k <= BatchLength * n /\ ValSize * l + ValSize <= ValSize * m
        /\ BatchLength * k \in Nat /\ BatchLength * n \in Nat
        /\ ValSize * l \in Nat /\ ValSize * m \in Nat
    BY <1>1, <1>3, <1>5, Scale, ScaleLess
  <2> QED
    BY <1>2, <1>3, <1>5, <2>1
<1>6. CASE /\ stats'.rollouts <= stats.rollouts
           /\ stats'.systemRuns <= stats.systemRuns
           /\ k <= n /\ l <= m
  <2> HIDE DEF n, k, m, l
  <2>1. BatchLength * k <= BatchLength * n /\ ValSize * l <= ValSize * m
        /\ BatchLength * k \in Nat /\ BatchLength * n \in Nat
        /\ ValSize * l \in Nat /\ ValSize * m \in Nat
    BY <1>1, <1>3, <1>6, Scale
  <2> QED
    BY <1>2, <1>3, <1>6, <2>1
<1> QED
  BY <1>4, <1>5, <1>6

DueNumbered == DueRollouts \in Nat /\ DueSystemRuns \in Nat /\ SlotRollouts \in Nat

LEMMA DueNumbers == TypeOK => DueNumbered
<1> SUFFICES ASSUME TypeOK PROVE DueNumbered
  OBVIOUS
<1>1. Cardinality(Todo) \in Nat /\ Cardinality(Unvalidated) \in Nat
  BY TodoFinite DEF TodoCounted
<1> HIDE DEF Todo, Unvalidated
<1>2. BatchLength * Cardinality(Todo) \in Nat /\ ValSize * Cardinality(Unvalidated) \in Nat
  BY <1>1, Numbers
<1>3. (2 + MaxReflections) * BatchLength \in Nat
  BY Numbers
<1> QED
  BY <1>2, <1>3, Numbers DEF DueRollouts, DueSystemRuns, SlotRollouts, DueNumbered

(* BudgetInv is kept by a step that spends only what it takes from the      *)
(* list.                                                                    *)
LEMMA BudgetKept ==
    ASSUME TypeOK, BudgetInv, DueNumbered, DueNumbered',
           DueRollouts' <= DueRollouts, DueSystemRuns' <= DueSystemRuns,
           saved'.rollouts <= stats'.rollouts, saved'.systemRuns <= stats'.systemRuns,
           stats'.root = NoCandidate => saved'.systemRuns = 0,
           main' = "start" => stats'.systemRuns = saved'.systemRuns
    PROVE  BudgetInv'
<1> DEFINE r == MaxRollouts - 1 + NumProposals * SlotRollouts
           q == MaxSystemRuns - 1 + NumProposals * (SlotRollouts + ValSize)
<1>1. r \in Int /\ q \in Int /\ SlotRollouts' = SlotRollouts
  <2>1. SlotRollouts \in Nat /\ SlotRollouts' = SlotRollouts
    BY DEF DueNumbered, SlotRollouts, BatchLength
  <2> HIDE DEF SlotRollouts
  <2> QED
    BY <2>1, Numbers
<1>2. DueRollouts <= r /\ DueSystemRuns <= q
  BY DEF BudgetInv
<1>3. BudgetInv' = (/\ DueRollouts' <= r /\ DueSystemRuns' <= q
                    /\ saved'.rollouts <= stats'.rollouts
                    /\ saved'.systemRuns <= stats'.systemRuns
                    /\ stats'.root = NoCandidate => saved'.systemRuns = 0
                    /\ main' = "start" => stats'.systemRuns = saved'.systemRuns)
  BY <1>1 DEF BudgetInv
<1> HIDE DEF r, q
<1> QED
  BY <1>1, <1>2, <1>3 DEF DueNumbered

(* A move to the next await.                                                *)
LEMMA MovesKeepBudget ==
    ASSUME IInv, IInv', RInv, SlotsRun, NEW i \in Running, NEW t, MovesTo(i, t)
    PROVE  BudgetInv'
<1>1. /\ i \in Iterations /\ tasks \in [Iterations -> Task] /\ tasks[i] \in Task
      /\ DepthOK(tasks[i]) /\ main' = main /\ saved' = saved
      /\ stats \in Statistics
  BY SlotFacts DEF RInv, MovesTo, IInv, TypeOK
<1>2. /\ tasks'[i] = t /\ t \in Task /\ t.pc \in Awaiting /\ DepthOK(t)
      /\ \A j \in Iterations \ {i} : tasks'[j] = tasks[j]
      /\ Spends(tasks[i], t, stats, stats')
  BY <1>1 DEF MovesTo
<1>3. Running' = Running
  BY <1>1, <1>2 DEF Running
<1>4. Left(t) \in 0 .. MaxReflections + 2 /\ Left(tasks[i]) \in 0 .. MaxReflections + 2
  BY <1>1, <1>2, LeftRange
<1>5. /\ IsFiniteSet(Todo) /\ IsFiniteSet(Unvalidated)
      /\ Cardinality(Todo) \in Nat /\ Cardinality(Unvalidated) \in Nat
      /\ Cardinality(Todo') \in Nat /\ Cardinality(Unvalidated') \in Nat
  <2>1. TodoCounted /\ TodoCounted'
    BY TodoFinite, PTL
  <2> QED
    BY <2>1 DEF TodoCounted
<1> DEFINE n == Cardinality(Todo)
           m == Cardinality(Unvalidated)
           used == <<i, Left(tasks[i])>>
<1>6. Todo' \in SUBSET Todo /\ Unvalidated' \in SUBSET Unvalidated
  <2>1. Left(t) <= Left(tasks[i]) /\ tasks[i].pc # "validate"
    BY <1>2, <1>4 DEF Spends
  <2> SUFFICES /\ \A q \in Todo' : q \in Todo
               /\ \A j \in Unvalidated' : j \in Unvalidated
    OBVIOUS
  <2>2. \A q \in Todo' : q \in Todo
    <3> SUFFICES ASSUME NEW q \in Todo' PROVE q \in Todo
      OBVIOUS
    <3>1. /\ q \in Running \X (1 .. MaxReflections + 2) /\ q[2] <= Left(tasks'[q[1]])
          /\ q[1] \in Running /\ q[1] \in Iterations /\ q[2] \in Nat
      BY <1>3 DEF Todo, Running
    <3>2. q[2] <= Left(tasks[q[1]])
      BY <1>2, <1>4, <2>1, <3>1
    <3> QED
      BY <3>1, <3>2 DEF Todo
  <2>3. \A j \in Unvalidated' : j \in Unvalidated
    BY <1>2, <1>3, <2>1 DEF Unvalidated, Running
  <2> QED
    BY <2>2, <2>3
<1>7. Cardinality(Todo') <= n /\ Cardinality(Unvalidated') <= m
  BY <1>5, <1>6, FS_Subset
<1>8. /\ SameBest(stats, stats') /\ stats'.root = stats.root
      /\ stats.rollouts <= stats'.rollouts /\ stats.systemRuns <= stats'.systemRuns
  BY <1>1, <1>2, Counting, Numbers DEF Spends, SameBest, IInv
<1>9. DueRollouts' <= DueRollouts /\ DueSystemRuns' <= DueSystemRuns => BudgetInv'
  <2>1. TypeOK /\ TypeOK' /\ BudgetInv /\ main # "start"
    BY DEF IInv, RInv, SlotsRun
  <2>2. DueNumbered /\ DueNumbered'
    BY <2>1, DueNumbers, PTL
  <2>3. /\ saved.rollouts <= stats.rollouts /\ saved.systemRuns <= stats.systemRuns
        /\ stats.root = NoCandidate => saved.systemRuns = 0
    BY <2>1 DEF BudgetInv
  <2>4. /\ stats'.rollouts \in Nat /\ stats'.systemRuns \in Nat
        /\ stats.rollouts \in Nat /\ stats.systemRuns \in Nat
        /\ saved.rollouts \in Nat /\ saved.systemRuns \in Nat
    BY <2>1 DEF TypeOK, Statistics
  <2>5. saved'.rollouts <= stats'.rollouts /\ saved'.systemRuns <= stats'.systemRuns
    BY <1>1, <1>8, <2>3, <2>4
  <2> QED
    BY <1>1, <1>8, <2>1, <2>2, <2>3, <2>5, BudgetKept
<1>10. CASE stats' = CountTrain(stats) /\ Left(t) = Left(tasks[i]) - 1
  <2>1. used \in Todo /\ used \notin Todo'
    <3>1. Left(tasks[i]) \in 1 .. MaxReflections + 2
      BY <1>4, <1>10, Numbers DEF IInv
    <3>2. ~(Left(tasks[i]) <= Left(t))
      BY <1>4, <1>10
    <3> QED
      BY <1>2, <3>1, <3>2 DEF Todo
  <2>2. Todo' \in SUBSET (Todo \ {used})
    BY <1>6, <2>1
  <2>3. IsFiniteSet(Todo \ {used}) /\ Cardinality(Todo \ {used}) = n - 1
    BY <1>5, <2>1, FS_RemoveElement
  <2>4. Cardinality(Todo') + 1 <= n
    BY <1>5, <2>2, <2>3, FS_Subset
  <2> QED
    BY <1>1, <1>7, <1>9, <1>10, <2>4, Counting, DueFalls DEF IInv
<1>11. CASE stats' = CountVal(stats) /\ t.pc = "validate"
  <2>1. i \in Unvalidated /\ i \notin Unvalidated'
    BY <1>2, <1>11 DEF Unvalidated, Spends
  <2>2. Unvalidated' \in SUBSET (Unvalidated \ {i})
    BY <1>6, <2>1
  <2>3. IsFiniteSet(Unvalidated \ {i}) /\ Cardinality(Unvalidated \ {i}) = m - 1
    BY <1>5, <2>1, FS_RemoveElement
  <2>4. Cardinality(Unvalidated') + 1 <= m
    BY <1>5, <2>2, <2>3, FS_Subset
  <2> QED
    BY <1>1, <1>7, <1>9, <1>11, <2>4, Counting, DueFalls DEF IInv
<1>12. CASE stats' = stats
  BY <1>7, <1>9, <1>12, Numbers, DueFalls DEF IInv
<1> QED
  BY <1>2, <1>10, <1>11, <1>12 DEF Spends

(* A step that starts no slot and no rollout spends nothing.                *)
LEMMA FewerSlots ==
    ASSUME TypeOK, TypeOK', Running' \subseteq Running,
           \A j \in Running' : tasks'[j] = tasks[j],
           stats'.rollouts <= stats.rollouts, stats'.systemRuns <= stats.systemRuns
    PROVE  /\ DueRollouts' <= DueRollouts /\ DueSystemRuns' <= DueSystemRuns
           /\ DueNumbered /\ DueNumbered'
<1>1. Todo' \in SUBSET Todo /\ Unvalidated' \in SUBSET Unvalidated
  <2>1. \A q \in Todo' : q \in Todo
    BY DEF Todo
  <2>2. \A j \in Unvalidated' : j \in Unvalidated
    BY DEF Unvalidated
  <2> QED
    BY <2>1, <2>2
<1>2. TodoCounted
  BY TodoFinite
<1>3. /\ Cardinality(Todo') <= Cardinality(Todo)
      /\ Cardinality(Unvalidated') <= Cardinality(Unvalidated)
  BY <1>1, <1>2, FS_Subset DEF TodoCounted
<1>4. DueNumbered /\ DueNumbered'
  BY DueNumbers, PTL
<1> QED
  BY <1>3, <1>4, DueFalls

LEMMA MovesKeep ==
    ASSUME IInv, IInv', RInv, SlotsRun, NEW i \in Running, Moves(i)
    PROVE  RInv'
<1>1. PICK t : MovesTo(i, t)
  BY DEF Moves
<1>2. /\ i \in Iterations /\ tasks \in [Iterations -> Task]
      /\ main' = main /\ saved' = saved /\ stats \in Statistics
      /\ Population(store') = Population(store) /\ GensKept(store, store')
      /\ DepthOK(t) /\ Descends(t, store') /\ t.pc \in Awaiting
      /\ Spends(tasks[i], t, stats, stats')
  BY <1>1, SlotFacts DEF RInv, MovesTo, IInv, TypeOK
<1>3. tasks'[i] = t /\ \A j \in Iterations \ {i} : tasks'[j] = tasks[j]
  BY <1>1, <1>2 DEF MovesTo
<1>4. Running' = Running
  BY <1>2, <1>3 DEF Running
<1>5. SlotInv'
  <2>1. ASSUME NEW j \in Running PROVE DepthOK(tasks'[j]) /\ Descends(tasks'[j], store')
    <3>1. CASE j = i
      BY <1>2, <1>3, <3>1
    <3>2. CASE j # i
      <4>1. tasks'[j] = tasks[j] /\ j \in Running'
        BY <1>3, <1>4, <3>2 DEF Running
      <4> QED
        BY <1>2, <4>1, OtherSlots DEF RInv
    <3> QED
      BY <3>1, <3>2
  <2> QED
    BY <1>4, <2>1 DEF SlotInv
<1>6. PoolInv'
  <2>1. SameBest(stats, stats')
    BY <1>2, Counting DEF Spends, SameBest
  <2>2. PoolInv /\ main \notin {"start", "baseline", "down"}
    BY DEF RInv, SlotsRun
  <2>3. /\ EA!Alive(store') = EA!Alive(store)
        /\ Reported(store, stats) => Reported(store', stats')
    BY <1>2, <2>1, SameReported
  <2>4. stats'.root = stats.root
    BY <2>1 DEF SameBest
  <2>5. SameBest(stats', saved')
    BY <1>2, <2>1, <2>2 DEF PoolInv, SameBest
  <2>6. Started' = Started
    BY <1>2 DEF Started
  <2> QED
    BY <1>2, <2>2, <2>3, <2>4, <2>5, <2>6 DEF PoolInv
<1>7. BudgetInv'
  BY <1>1, MovesKeepBudget
<1> QED
  BY <1>5, <1>6, <1>7 DEF RInv

LEMMA EndsKeep ==
    ASSUME IInv, IInv', RInv, SlotsRun, NEW i \in Running, Ends(i)
    PROVE  RInv'
<1>1. /\ i \in Iterations /\ tasks \in [Iterations -> Task]
      /\ main' = main /\ saved' = stats' /\ stats \in Statistics
      /\ GensKept(store, store') /\ EA!Alive(store') # {}
      /\ tasks' = [tasks EXCEPT ![i] = IdleTask("released")]
  BY SlotFacts DEF RInv, Ends, IInv, TypeOK
<1>2. PICK accepted \in BOOLEAN : stats' = Booked(store', accepted)
  BY DEF Ends
<1>3. /\ stats'.root = stats.root /\ stats'.rollouts = stats.rollouts
      /\ stats'.systemRuns = stats.systemRuns
      /\ \A b : BestCandidates(store') = {b} => Reported(store', stats')
  BY <1>1, <1>2, BookedBest
<1>4. IdleTask("released").pc \notin Awaiting
  BY DEF IdleTask, Awaiting
<1>5. /\ tasks'[i] = IdleTask("released")
      /\ \A j \in Iterations \ {i} : tasks'[j] = tasks[j]
  BY <1>1
<1>6. /\ Running' \subseteq Running
      /\ \A j \in Running' : tasks'[j] = tasks[j]
  BY <1>4, <1>5 DEF Running
<1>7. SlotInv'
  <2>1. \A j \in Running' : DepthOK(tasks'[j]) /\ Descends(tasks'[j], store')
    BY <1>1, <1>6, OtherSlots DEF RInv
  <2> QED
    BY <2>1 DEF SlotInv
<1>8. PoolInv'
  <2>1. /\ lastId' \in Nat /\ StoreType(store', lastId') /\ Scored(store')
    BY DEF IInv, TypeOK, StoreType
  <2>2. \E b \in EA!Alive(store') : BestCandidates(store') = {b}
    BY <1>1, <2>1, BestExists
  <2>3. Reported(store', stats')
    BY <1>3, <2>2
  <2>4. PoolInv /\ main \notin {"start", "baseline", "down"}
    BY DEF RInv, SlotsRun
  <2>5. stats.root # NoCandidate
    BY <2>4 DEF PoolInv, Started
  <2> QED
    BY <1>1, <1>3, <2>3, <2>4, <2>5 DEF PoolInv, SameBest, Started
<1>9. BudgetInv'
  <2>1. TypeOK /\ TypeOK' /\ BudgetInv /\ main # "start"
    BY DEF IInv, RInv, SlotsRun
  <2>2. /\ stats'.rollouts \in Nat /\ stats'.systemRuns \in Nat
    BY <2>1 DEF TypeOK, Statistics
  <2>3. /\ DueRollouts' <= DueRollouts /\ DueSystemRuns' <= DueSystemRuns
        /\ DueNumbered /\ DueNumbered'
    BY <1>3, <1>6, <2>1, <2>2, FewerSlots
  <2>4. stats.root # NoCandidate
    BY DEF RInv, PoolInv, Started, SlotsRun
  <2> QED
    BY <1>1, <1>3, <2>1, <2>2, <2>3, <2>4, BudgetKept
<1> QED
  BY <1>7, <1>8, <1>9 DEF RInv

(* Steps that leave the pool, the counters and the running slots alone.     *)
LEMMA ControlKeeps ==
    ASSUME IInv, IInv', RInv, UNCHANGED <<store, lastId, stats>>,
           \/ UNCHANGED tasks
           \/ \E i \in Iterations : Discard(i),
           \/ saved' = saved
           \/ saved' = stats /\ stats.root # NoCandidate,
           Started' => stats.root # NoCandidate,
           main' = "baseline" => main = "baseline",
           main' = "start" => main = "start" /\ saved' = saved
    PROVE  RInv'
<1>1. TypeOK /\ TypeOK' /\ tasks \in [Iterations -> Task]
  BY DEF IInv, TypeOK
<1>2. Running' = Running /\ \A j \in Running' : tasks'[j] = tasks[j]
  <2>1. CASE UNCHANGED tasks
    BY <2>1 DEF Running
  <2>2. CASE \E i \in Iterations : Discard(i)
    <3>1. PICK i \in Iterations : /\ tasks[i].pc = "released"
                                  /\ tasks' = [tasks EXCEPT ![i] = IdleTask("gone")]
      BY <2>2 DEF Discard
    <3>2. i \notin Running /\ IdleTask("gone").pc \notin Awaiting
      BY <3>1 DEF Running, IdleTask, Awaiting
    <3>3. /\ tasks'[i] = IdleTask("gone")
          /\ \A j \in Iterations \ {i} : tasks'[j] = tasks[j]
      BY <1>1, <3>1
    <3> QED
      BY <3>2, <3>3 DEF Running
  <2> QED
    BY <2>1, <2>2
<1>3. SlotInv'
  <2>1. \A j \in Running' : DepthOK(tasks'[j]) /\ Descends(tasks'[j], store')
    BY <1>2 DEF RInv, SlotInv
  <2> QED
    BY <2>1 DEF SlotInv
<1>4. PoolInv'
  <2>1. SameBest(stats', saved')
    BY DEF RInv, PoolInv, SameBest
  <2> QED
    BY <2>1 DEF RInv, PoolInv
<1>5. BudgetInv'
  <2>1. BudgetInv
    BY DEF RInv
  <2>2. /\ stats.rollouts \in Nat /\ stats.systemRuns \in Nat
    BY <1>1, Numbers
  <2>3. /\ DueRollouts' <= DueRollouts /\ DueSystemRuns' <= DueSystemRuns
        /\ DueNumbered /\ DueNumbered'
    BY <1>1, <1>2, <2>2, FewerSlots
  <2>4. /\ saved'.rollouts <= stats'.rollouts /\ saved'.systemRuns <= stats'.systemRuns
        /\ stats'.root = NoCandidate => saved'.systemRuns = 0
        /\ main' = "start" => stats'.systemRuns = saved'.systemRuns
    BY <2>1, <2>2 DEF BudgetInv
  <2> QED
    BY <1>1, <2>1, <2>3, <2>4, BudgetKept
<1> QED
  BY <1>3, <1>4, <1>5 DEF RInv

(* The root is created; its validation is the first thing spent.            *)
LEMMA StartFromScratchKeepsPool ==
    ASSUME IInv, IInv', RInv, StartFromScratch
    PROVE  RInv'
<1>1. /\ main = "start" /\ main' = "baseline" /\ stats.root = NoCandidate
      /\ lastId' = lastId + 1 /\ store' = CreateRoot(store, lastId') /\ stats' = CountVal(stats)
      /\ saved' = saved /\ tasks' = tasks
      /\ lastId \in Nat /\ StoreType(store, lastId) /\ stats \in Statistics
      /\ TypeOK /\ TypeOK'
  BY DEF StartFromScratch, IInv, TypeOK, StoreType
<1>2. Running = {} /\ Running' = {}
  BY <1>1 DEF IInv, Quiet, Running
<1>3. SlotInv'
  BY <1>2 DEF SlotInv
<1>4. /\ lastId' \in DOMAIN store' /\ store'[lastId'].state = "unavailable"
      /\ store'[lastId'].generation = 0
      /\ EA!Alive(store') = EA!Alive(store)
  <2> DEFINE n == lastId + 1
             rec == [state |-> "unavailable", parent |-> NoCandidate, children |-> {},
                     generation |-> 0, cursor |-> StartCursor, scores |-> <<>>]
  <2>1. store' = [d \in DOMAIN store \cup {n} |-> IF d = n THEN rec ELSE store[d]]
    BY <1>1 DEF CreateRoot, Add
  <2>2. n \notin DOMAIN store /\ rec.state = "unavailable" /\ rec.generation = 0
    BY <1>1 DEF StoreType
  <2> HIDE DEF n, rec
  <2>3. \A c : c \in EA!Alive(store') <=> c \in EA!Alive(store)
    BY <2>1, <2>2, AliveMeans
  <2> QED
    BY <1>1, <2>1, <2>2, <2>3 DEF n
<1>5. PoolInv'
  <2>1. SameBest(stats, stats')
    BY <1>1, Counting
  <2> QED
    BY <1>1, <1>4, <2>1 DEF RInv, PoolInv, SameBest, Started
<1>6. BudgetInv'
  <2>1. DueNumbered' /\ DueNumbered
    BY <1>1, DueNumbers, PTL
  <2>2. /\ Cardinality(Todo) = 0 /\ Cardinality(Unvalidated) = 0
        /\ Cardinality(Todo') = 0 /\ Cardinality(Unvalidated') = 0
    <3>1. (Running = {})' => (Cardinality(Todo) = 0 /\ Cardinality(Unvalidated) = 0)'
      BY NothingTodo, PTL
    <3> QED
      BY <1>2, <3>1, NothingTodo
  <2>3. /\ stats'.rollouts = stats.rollouts /\ stats'.systemRuns = ValSize
        /\ stats.rollouts \in Nat /\ stats.systemRuns = 0
        /\ saved.rollouts <= stats.rollouts /\ saved.systemRuns = 0
    <3>1. stats.systemRuns = saved.systemRuns /\ saved.systemRuns = 0
          /\ saved.rollouts <= stats.rollouts
      BY <1>1 DEF RInv, BudgetInv
    <3> QED
      BY <1>1, <3>1, Counting, Numbers
  <2>4. /\ DueRollouts = stats.rollouts /\ DueRollouts' = stats'.rollouts
        /\ DueSystemRuns' = ValSize
    <3>1. BatchLength * 0 = 0 /\ ValSize * 0 = 0
      BY <1>1, Numbers
    <3>2. /\ DueRollouts = stats.rollouts + BatchLength * 0
          /\ DueRollouts' = stats'.rollouts + BatchLength * 0
          /\ DueSystemRuns' = ValSize + BatchLength * 0 + ValSize * 0
      BY <2>2, <2>3 DEF DueRollouts, DueSystemRuns, BatchLength
    <3> QED
      BY <1>1, <2>3, <3>1, <3>2, Numbers
  <2>5. ValSize <= MaxSystemRuns - 1 + NumProposals * (SlotRollouts + ValSize)
    <3>1. SlotRollouts \in Nat /\ SlotRollouts >= 1
      <4>1. BatchLength \in Nat \ {0} /\ 2 + MaxReflections \in Nat /\ 2 + MaxReflections >= 1
        BY OptimizerAssumption DEF BatchLength
      <4>2. (2 + MaxReflections) * 1 <= (2 + MaxReflections) * BatchLength
        BY <4>1, Scale
      <4> QED
        BY <4>1, <4>2, <2>1 DEF SlotRollouts, DueNumbered
    <3>2. (SlotRollouts + ValSize) * 1 <= (SlotRollouts + ValSize) * NumProposals
      BY <1>1, <3>1, Numbers, Scale
    <3>3. (SlotRollouts + ValSize) * NumProposals = NumProposals * (SlotRollouts + ValSize)
          /\ NumProposals * (SlotRollouts + ValSize) \in Nat
      BY <1>1, <3>1, Numbers
    <3> QED
      BY <1>1, <3>1, <3>2, <3>3, Numbers
  <2>6. SlotRollouts' = SlotRollouts
    BY DEF SlotRollouts, BatchLength
  <2>7. DueRollouts <= MaxRollouts - 1 + NumProposals * SlotRollouts
    BY DEF RInv, BudgetInv
  <2>8. /\ DueRollouts' <= MaxRollouts - 1 + NumProposals * SlotRollouts
        /\ saved'.rollouts <= stats'.rollouts /\ saved'.systemRuns <= stats'.systemRuns
    BY <1>1, <2>3, <2>4, <2>7, Numbers
  <2> QED
    BY <1>1, <2>3, <2>4, <2>5, <2>6, <2>8 DEF BudgetInv
<1> QED
  BY <1>3, <1>5, <1>6 DEF RInv

(* The root is alone in the pool, so it is the best.                        *)
LEMMA BaselineEvaluatedKeepsPool ==
    ASSUME IInv, IInv', RInv, BaselineEvaluated
    PROVE  RInv' /\ \E v \in ValScores : Population(store') =
              Pool!Put(Population(store), lastId,
                       [state |-> "pending", generation |-> 0, scores |-> v])
<1>1. PICK v \in ValScores :
         /\ store' = JoinsPool(store, lastId, v)
         /\ stats' = [stats EXCEPT !.root = lastId, !.best = lastId,
                                   !.bestAvg = EA!AvgScore(v), !.total = 1]
  BY DEF BaselineEvaluated, JoinsPool
<1>2. /\ main = "baseline" /\ main' = "check" /\ saved' = stats' /\ tasks' = tasks
      /\ lastId' = lastId
      /\ lastId \in Nat /\ StoreType(store, lastId) /\ stats \in Statistics
      /\ TypeOK /\ TypeOK' /\ v \in ScoreList
  BY ScoreLists DEF BaselineEvaluated, IInv, TypeOK, StoreType
<1>3. /\ stats.root = NoCandidate /\ EA!Alive(store) = {} /\ lastId \in DOMAIN store
      /\ store[lastId].generation = 0
  BY <1>2 DEF RInv, PoolInv
<1>4. /\ stats'.root = lastId /\ stats'.best = lastId /\ stats'.bestAvg = EA!AvgScore(v)
      /\ stats'.rollouts = stats.rollouts /\ stats'.systemRuns = stats.systemRuns
  BY <1>1, <1>2 DEF Statistics
<1>5. /\ Effect(store, store', {lastId}) /\ DOMAIN store' = DOMAIN store
      /\ store'[lastId].state = "pending" /\ store'[lastId].scores = v
  BY <1>1, <1>2, <1>3, JoinsPoolEffect
<1>6. EA!Alive(store') = {lastId}
  <2>1. \A c : c \in EA!Alive(store') <=> c = lastId
    BY <1>3, <1>5, AliveMeans DEF Effect
  <2> QED
    BY <2>1
<1>7. Running = {} /\ Running' = {}
  BY <1>2 DEF IInv, Quiet, Running
<1>8. SlotInv'
  BY <1>7 DEF SlotInv
<1>9. PoolInv'
  <2>1. StoreType(store', lastId) /\ Scored(store')
    BY <1>2 DEF IInv, TypeOK, StoreType
  <2>2. \E b \in EA!Alive(store') : BestCandidates(store') = {b}
    BY <1>2, <1>6, <2>1, BestExists
  <2>3. Reported(store', stats')
    BY <1>4, <1>5, <1>6, <2>2 DEF Reported
  <2>4. stats'.root # NoCandidate
    BY <1>2, <1>3, <1>4 DEF StoreType, NoCandidate
  <2> QED
    BY <1>2, <1>6, <2>3, <2>4 DEF PoolInv, SameBest
<1>10. BudgetInv'
  <2>1. BudgetInv
    BY DEF RInv
  <2>2. /\ stats.rollouts \in Nat /\ stats.systemRuns \in Nat
    BY <1>2, Numbers
  <2>3. /\ DueRollouts' <= DueRollouts /\ DueSystemRuns' <= DueSystemRuns
        /\ DueNumbered /\ DueNumbered'
    BY <1>2, <1>4, <1>7, <2>2, FewerSlots
  <2>4. stats'.root # NoCandidate
    BY <1>2, <1>3, <1>4 DEF StoreType, NoCandidate
  <2> QED
    BY <1>2, <1>4, <2>1, <2>2, <2>3, <2>4, BudgetKept
<1>11. Population(store') = Pool!Put(Population(store), lastId,
                 [state |-> "pending", generation |-> 0, scores |-> v])
  BY <1>1, <1>2, <1>3, Joined
<1> QED
  BY <1>8, <1>9, <1>10, <1>11 DEF RInv

LEMMA CrashKeepsPool ==
    ASSUME IInv, IInv', RInv, CrashAtAwait
    PROVE  RInv'
<1>1. /\ main' = "down" /\ stats' = saved /\ saved' = saved /\ store' = store
      /\ tasks' = [i \in Iterations |-> IdleTask("none")]
      /\ TypeOK /\ TypeOK'
  BY DEF CrashAtAwait, IInv, TypeOK
<1>2. Running' = {}
  BY <1>1 DEF Running, IdleTask, Awaiting
<1>3. SlotInv'
  BY <1>2 DEF SlotInv
<1>4. SameBest(stats, saved) /\ SameBest(saved, saved)
  BY DEF RInv, PoolInv, SameBest
<1>5. PoolInv'
  <2>1. EA!Alive(store') = EA!Alive(store) /\ (Reported(store, stats) => Reported(store', stats'))
    BY <1>1, <1>4, SameReported
  <2> QED
    BY <1>1, <1>4, <2>1 DEF RInv, PoolInv, SameBest, Started
<1>6. BudgetInv'
  <2>1. BudgetInv /\ stats.root = saved.root
    BY <1>4 DEF RInv, SameBest
  <2>2. /\ saved.rollouts <= stats.rollouts /\ saved.systemRuns <= stats.systemRuns
        /\ stats.root = NoCandidate => saved.systemRuns = 0
    BY <2>1 DEF BudgetInv
  <2>3. /\ DueRollouts' <= DueRollouts /\ DueSystemRuns' <= DueSystemRuns
        /\ DueNumbered /\ DueNumbered'
    BY <1>1, <1>2, <2>2, FewerSlots
  <2> QED
    BY <1>1, <2>1, <2>2, <2>3, Numbers, BudgetKept
<1> QED
  BY <1>3, <1>5, <1>6 DEF RInv

LEMMA RestartKeepsPool ==
    ASSUME IInv, IInv', RInv, Restart
    PROVE  /\ RInv'
           /\ Population(store') = [c \in DOMAIN Population(store) |->
                                      [Population(store)[c] EXCEPT !.state = "pending"]]
<1>1. /\ main = "down" /\ main' = "start" /\ stats' = saved /\ saved' = saved
      /\ store' = Recover(store) /\ tasks' = tasks
      /\ lastId \in Nat /\ StoreType(store, lastId) /\ TypeOK /\ TypeOK'
  BY DEF Restart, IInv, TypeOK, StoreType
<1>2. Running = {} /\ Running' = {}
  BY <1>1 DEF IInv, Quiet, Running
<1>3. SlotInv'
  BY <1>2 DEF SlotInv
<1>4. SameBest(stats, saved) /\ SameBest(saved, saved)
  BY DEF RInv, PoolInv, SameBest
<1> DEFINE P == Population(store)
           Q == Population(store')
<1>5. Q = [c \in DOMAIN P |-> [P[c] EXCEPT !.state = "pending"]]
  BY <1>1, Recovered
<1>6. /\ DOMAIN P = EA!Alive(store) /\ DOMAIN Q = EA!Alive(store')
      /\ \A c \in EA!Alive(store) : P[c] = [state |-> store[c].state,
            generation |-> store[c].generation, scores |-> store[c].scores]
      /\ \A c \in EA!Alive(store') : Q[c] = [state |-> store'[c].state,
            generation |-> store'[c].generation, scores |-> store'[c].scores]
  BY DEF Population
<1> HIDE DEF P, Q
<1>7. EA!Alive(store') = EA!Alive(store)
  BY <1>5, <1>6
<1>8. \A c \in EA!Alive(store) : /\ store'[c].scores = store[c].scores
                                 /\ store'[c].generation = store[c].generation
  <2> TAKE c \in EA!Alive(store)
  <2>1. Q[c] = [P[c] EXCEPT !.state = "pending"]
    BY <1>5, <1>6
  <2>2. /\ P[c].scores = store[c].scores /\ P[c].generation = store[c].generation
        /\ Q[c].scores = store'[c].scores /\ Q[c].generation = store'[c].generation
        /\ P[c] = [state |-> store[c].state, generation |-> store[c].generation,
                   scores |-> store[c].scores]
    BY <1>6, <1>7
  <2>3. Q[c].scores = P[c].scores /\ Q[c].generation = P[c].generation
    BY <2>1, <2>2
  <2> QED
    BY <2>2, <2>3
<1>9. PoolInv'
  <2>1. Reported(store, stats) => Reported(store', stats')
    BY <1>1, <1>4, <1>7, <1>8, ReportedStays
  <2> QED
    BY <1>1, <1>4, <1>7, <2>1 DEF RInv, PoolInv, SameBest, Started
<1>10. BudgetInv'
  <2>1. BudgetInv /\ stats.root = saved.root
    BY <1>4 DEF RInv, SameBest
  <2>2. /\ saved.rollouts <= stats.rollouts /\ saved.systemRuns <= stats.systemRuns
        /\ stats.root = NoCandidate => saved.systemRuns = 0
    BY <2>1 DEF BudgetInv
  <2>3. /\ DueRollouts' <= DueRollouts /\ DueSystemRuns' <= DueSystemRuns
        /\ DueNumbered /\ DueNumbered'
    BY <1>1, <1>2, <2>2, FewerSlots
  <2> QED
    BY <1>1, <2>1, <2>2, <2>3, Numbers, BudgetKept
<1> QED
  BY <1>3, <1>5, <1>9, <1>10 DEF RInv, P, Q

(* A slot opens only below the limits: what it may run is what they are     *)
(* overshot by.                                                             *)
LEMMA OpenSlotKeepsPool ==
    ASSUME IInv, IInv', RInv, OpenSlot
    PROVE  RInv' /\ \E c \in EA!Selectable(store) :
              Population(store') = Pool!WithState(Population(store), c, "evolving")
<1> DEFINE n == stats.iteration + 1
<1>1. PICK c \in EA!Selectable(store) :
         /\ store' = SetState(store, {c}, "evolving")
         /\ tasks' = [tasks EXCEPT ![stats'.iteration] = [IdleTask("new") EXCEPT !.parent = c]]
  BY DEF OpenSlot
<1> DEFINE t == [IdleTask("new") EXCEPT !.parent = c]
<1>2. /\ stats' = [stats EXCEPT !.iteration = @ + 1] /\ saved' = saved
      /\ main \in {"check", "acquire"} /\ main' = "check" /\ ~BudgetExhausted
      /\ lastId \in Nat /\ StoreType(store, lastId) /\ stats \in Statistics
      /\ tasks \in [Iterations -> Task] /\ TypeOK /\ TypeOK'
  BY DEF OpenSlot, HoldsPermit, IInv, TypeOK, StoreType
<1>3. /\ stats'.iteration = n /\ stats'.rollouts = stats.rollouts
      /\ stats'.systemRuns = stats.systemRuns /\ SameBest(stats, stats')
  BY <1>2 DEF Statistics, SameBest
<1>4. n \in Iterations /\ n \notin Running
  <2>1. stats.iteration \in Nat /\ MaxIterations \in Nat /\ stats.iteration < MaxIterations
    BY <1>2, Numbers, OptimizerAssumption DEF BudgetExhausted
  <2> QED
    BY <2>1 DEF Iterations, IInv, Counted, Running
<1>5. t.pc = "new" /\ t.depth = 0 /\ t.chain = {}
  BY DEF IdleTask
<1> HIDE DEF n, t
<1>6. tasks'[n] = t /\ \A j \in Iterations \ {n} : tasks'[j] = tasks[j]
  BY <1>1, <1>2, <1>3, <1>4 DEF t
<1>7. Running' = Running \cup {n}
  BY <1>4, <1>5, <1>6 DEF Running, Awaiting
<1>8. c \in DOMAIN store /\ store[c].state = "pending" /\ c \in EA!Alive(store)
  BY SelectablePending, AliveMeans
<1>9. /\ Effect(store, store', {c}) /\ GensKept(store, store') /\ DOMAIN store' = DOMAIN store
      /\ store'[c].state = "evolving" /\ store'[c].scores = store[c].scores
  BY <1>1, <1>2, <1>8, SetStateEffect, SetStateGens DEF CandidateState
<1>10. Population(store') = Pool!WithState(Population(store), c, "evolving")
  BY <1>8, <1>9, Restated
<1>11. SlotInv'
  <2>1. ASSUME NEW j \in Running' PROVE DepthOK(tasks'[j]) /\ Descends(tasks'[j], store')
    <3>1. CASE j = n
      BY <1>5, <1>6, <3>1 DEF DepthOK, Descends
    <3>2. CASE j # n
      <4>1. j \in Running /\ tasks'[j] = tasks[j]
        BY <1>6, <1>7, <3>2 DEF Running
      <4> QED
        BY <1>9, <4>1, OtherSlots DEF RInv
    <3> QED
      BY <3>1, <3>2
  <2> QED
    BY <2>1 DEF SlotInv
<1>12. PoolInv'
  <2>1. EA!Alive(store') = EA!Alive(store)
    <3>1. \A d : d \in EA!Alive(store') <=> d \in EA!Alive(store)
      BY <1>8, <1>9, AliveMeans DEF Effect
    <3> QED
      BY <3>1
  <2>2. \A d \in EA!Alive(store) : /\ store'[d].scores = store[d].scores
                                   /\ store'[d].generation = store[d].generation
    BY <1>8, <1>9, AliveMeans DEF Effect, GensKept
  <2>3. Reported(store, stats) => Reported(store', stats')
    BY <1>3, <2>1, <2>2, ReportedStays
  <2> QED
    BY <1>2, <1>3, <2>1, <2>3 DEF RInv, PoolInv, SameBest, Started
<1>13. BudgetInv'
  <2>1. /\ stats.rollouts <= MaxRollouts - 1 /\ stats.systemRuns <= MaxSystemRuns - 1
    BY <1>2, Numbers DEF BudgetExhausted
  <2> DEFINE r == Cardinality(Running')
             k == Cardinality(Todo')
             l == Cardinality(Unvalidated')
  <2>2. r \in Nat /\ r <= NumProposals
    <3>1. permits' + r = NumProposals
      BY DEF IInv, PermitsBalance
    <3>2. (IsFiniteSet(Running))'
      BY RunningFinite, PTL
    <3>3. r \in Nat /\ permits' \in Nat
      BY <1>2, <3>2, FS_CardinalityType DEF TypeOK
    <3> QED
      BY <1>2, <3>1, <3>3, Numbers
  <2>3. k \in Nat /\ l \in Nat /\ k <= r * (2 + MaxReflections) /\ l <= r
    <3>1. TodoCounted'
      BY TodoFinite, PTL
    <3> QED
      BY <3>1 DEF TodoCounted
  <2>4. /\ DueRollouts' = stats.rollouts + BatchLength * k
        /\ DueSystemRuns' = stats.systemRuns + BatchLength * k + ValSize * l
    BY <1>3 DEF DueRollouts, DueSystemRuns, BatchLength
  <2> HIDE DEF r, k, l
  <2> DEFINE m == 2 + MaxReflections
  <2>5. m \in Nat /\ BatchLength \in Nat /\ ValSize \in Nat /\ NumProposals \in Nat
    BY <1>2, Numbers
  <2>6. k <= NumProposals * m /\ NumProposals * m \in Nat
    <3>1. m * r <= m * NumProposals
      BY <2>2, <2>5, Scale
    <3>2. r * m = m * r /\ NumProposals * m = m * NumProposals /\ NumProposals * m \in Nat
      BY <2>2, <2>5
    <3>3. k <= r * m
      BY <2>3
    <3> HIDE DEF m
    <3> QED
      BY <2>2, <2>3, <2>5, <3>1, <3>2, <3>3
  <2>7. SlotRollouts = m * BatchLength
    BY DEF SlotRollouts
  <2> HIDE DEF m
  <2>8. /\ BatchLength * k <= NumProposals * SlotRollouts
        /\ ValSize * l <= NumProposals * ValSize
        /\ BatchLength * k \in Nat /\ ValSize * l \in Nat
        /\ NumProposals * SlotRollouts \in Nat /\ NumProposals * ValSize \in Nat
        /\ NumProposals * (SlotRollouts + ValSize)
              = NumProposals * SlotRollouts + NumProposals * ValSize
    <3>1. BatchLength * k <= BatchLength * (NumProposals * m) /\ BatchLength * k \in Nat
      BY <2>3, <2>5, <2>6, Scale
    <3>2. BatchLength * (NumProposals * m) = NumProposals * (m * BatchLength)
      BY <2>5
    <3>3. l <= NumProposals
      BY <2>2, <2>3, <2>5
    <3>4. ValSize * l <= ValSize * NumProposals /\ ValSize * l \in Nat
      BY <2>3, <2>5, <3>3, Scale
    <3>5. ValSize * NumProposals = NumProposals * ValSize /\ NumProposals * ValSize \in Nat
      BY <2>5
    <3>6. SlotRollouts \in Nat
      BY <2>5, <2>7
    <3>7. NumProposals * SlotRollouts \in Nat
          /\ NumProposals * (SlotRollouts + ValSize)
              = NumProposals * SlotRollouts + NumProposals * ValSize
      BY <2>5, <3>6
    <3> QED
      BY <2>7, <3>1, <3>2, <3>4, <3>5, <3>7
  <2>9. SlotRollouts' = SlotRollouts
    BY DEF SlotRollouts, BatchLength
  <2>10. /\ DueRollouts' <= MaxRollouts - 1 + NumProposals * SlotRollouts
         /\ DueSystemRuns' <= MaxSystemRuns - 1 + NumProposals * (SlotRollouts + ValSize)
    BY <1>2, <2>1, <2>4, <2>8, Numbers
  <2>11. /\ saved'.rollouts <= stats'.rollouts /\ saved'.systemRuns <= stats'.systemRuns
         /\ stats'.root = NoCandidate => saved'.systemRuns = 0
    BY <1>2, <1>3 DEF RInv, BudgetInv, SameBest
  <2> QED
    BY <1>2, <2>9, <2>10, <2>11 DEF BudgetInv
<1> QED
  BY <1>10, <1>11, <1>12, <1>13 DEF RInv

LEMMA InitRInv == Init => RInv
<1> SUFFICES ASSUME Init PROVE RInv
  OBVIOUS
<1>1. Running = {} /\ DOMAIN store = {} /\ main = "start"
      /\ stats = NoStatistics /\ saved = NoStatistics
  BY DEF Init, Running, IdleTask, Awaiting, EmptyStore
<1>2. /\ stats.root = NoCandidate /\ stats.rollouts = 0 /\ stats.systemRuns = 0
      /\ saved = stats
  BY <1>1 DEF NoStatistics
<1>3. EA!Alive(store) = {}
  <2>1. \A c : c \notin EA!Alive(store)
    BY <1>1, AliveMeans
  <2> QED
    BY <2>1
<1>4. SlotInv /\ PoolInv
  BY <1>1, <1>2, <1>3 DEF SlotInv, PoolInv, SameBest, Started
<1>5. BudgetInv
  <2>1. TypeOK
    BY InitIInv DEF IInv
  <2>2. /\ BatchLength \in Nat /\ ValSize \in Nat /\ NumProposals \in Nat \ {0}
        /\ MaxRollouts \in Nat /\ MaxSystemRuns \in Nat /\ SlotRollouts \in Nat
    BY <2>1, Numbers, DueNumbers DEF DueNumbered
  <2>3. Cardinality(Todo) = 0 /\ Cardinality(Unvalidated) = 0
    BY <1>1, NothingTodo
  <2>4. DueRollouts = 0 /\ DueSystemRuns = 0
    <3>1. BatchLength * 0 = 0 /\ ValSize * 0 = 0
      BY <2>2
    <3> QED
      BY <1>2, <2>3, <3>1 DEF DueRollouts, DueSystemRuns
  <2>5. SlotRollouts >= 1
    <3>1. BatchLength \in Nat \ {0} /\ MaxReflections \in Nat
      BY OptimizerAssumption DEF BatchLength
    <3>2. (2 + MaxReflections) * 1 <= (2 + MaxReflections) * BatchLength
      BY <3>1, Scale
    <3> QED
      BY <2>2, <3>1, <3>2 DEF SlotRollouts
  <2>6. /\ NumProposals * SlotRollouts >= 1
        /\ NumProposals * (SlotRollouts + ValSize) >= 1
    <3>1. /\ SlotRollouts * 1 <= SlotRollouts * NumProposals
          /\ (SlotRollouts + ValSize) * 1 <= (SlotRollouts + ValSize) * NumProposals
      BY <2>2, Scale
    <3>2. /\ SlotRollouts * NumProposals = NumProposals * SlotRollouts
          /\ (SlotRollouts + ValSize) * NumProposals = NumProposals * (SlotRollouts + ValSize)
          /\ NumProposals * SlotRollouts \in Nat
          /\ NumProposals * (SlotRollouts + ValSize) \in Nat
      BY <2>2
    <3> QED
      BY <2>2, <2>5, <3>1, <3>2
  <2>7. /\ NumProposals * SlotRollouts \in Nat
        /\ NumProposals * (SlotRollouts + ValSize) \in Nat
    BY <2>2
  <2>8. /\ DueRollouts <= MaxRollouts - 1 + NumProposals * SlotRollouts
        /\ DueSystemRuns <= MaxSystemRuns - 1 + NumProposals * (SlotRollouts + ValSize)
    BY <2>2, <2>4, <2>6, <2>7
  <2> QED
    BY <1>2, <2>8 DEF BudgetInv
<1> QED
  BY <1>4, <1>5 DEF RInv

LEMMA MainStepKeepsPool ==
    ASSUME IInv, IInv', RInv, MainStep
    PROVE  RInv'
<1>1. CASE StartFromScratch
  BY <1>1, StartFromScratchKeepsPool
<1>2. CASE BaselineEvaluated
  BY <1>2, BaselineEvaluatedKeepsPool
<1>3. CASE OpenSlot
  BY <1>3, OpenSlotKeepsPool
<1>4. CASE Resume
  BY <1>4, ControlKeeps DEF Resume, Started
<1>5. CASE BaselineRaises
  BY <1>5, ControlKeeps DEF BaselineRaises, Started
<1>6. CASE StopOnBudget \/ AwaitPermit \/ NothingSelectable \/ SelectRaises \/ Wake
  <2>1. /\ UNCHANGED <<store, lastId, stats, saved, tasks>>
        /\ main \notin {"start", "baseline", "down"}
        /\ main' \notin {"start", "baseline", "down"}
    BY <1>6 DEF StopOnBudget, AwaitPermit, NothingSelectable, SelectRaises, Wake, MainGoes,
       HoldsPermit
  <2>2. stats.root # NoCandidate
    BY <2>1 DEF RInv, PoolInv, Started
  <2> QED
    BY <2>1, <2>2, ControlKeeps
<1>7. CASE Finish
  <2>1. /\ UNCHANGED <<store, lastId, stats, tasks>> /\ saved' = stats
        /\ main = "drain" /\ main' = "done"
    BY <1>7 DEF Finish
  <2>2. stats.root # NoCandidate
    BY <2>1 DEF RInv, PoolInv, Started
  <2> QED
    BY <2>1, <2>2, ControlKeeps
<1> QED
  BY <1>1, <1>2, <1>3, <1>4, <1>5, <1>6, <1>7 DEF MainStep

LEMMA NextRInv == IInv /\ IInv' /\ RInv /\ [Next]_vars => RInv'
<1> SUFFICES ASSUME IInv, IInv', RInv, [Next]_vars PROVE RInv'
  OBVIOUS
<1>1. CASE MainStep
  BY <1>1, MainStepKeepsPool
<1>2. ASSUME NEW i \in Iterations, SlotStep(i) PROVE RInv'
  <2>1. SlotsRun /\ (Discard(i) \/ (i \in Running /\ (Moves(i) \/ Ends(i))))
    BY <1>2, SlotStepShape DEF RInv
  <2>2. CASE Discard(i)
    <3>1. stats.root # NoCandidate
      BY <2>1 DEF RInv, PoolInv, Started, SlotsRun
    <3>2. UNCHANGED <<store, lastId, stats, saved, main>>
      BY <2>2 DEF Discard
    <3> QED
      BY <2>1, <2>2, <3>1, <3>2, ControlKeeps DEF SlotsRun
  <2> QED
    BY <2>1, <2>2, MovesKeep, EndsKeep
<1>3. ASSUME UNCHANGED <<store, lastId, stats, saved, tasks, main>> PROVE RInv'
  <2>1. Started' = Started
    BY <1>3 DEF Started
  <2>2. Started => stats.root # NoCandidate
    BY DEF RInv, PoolInv
  <2> QED
    BY <1>3, <2>1, <2>2, ControlKeeps
<1>4. CASE LimitReached
  BY <1>3, <1>4 DEF LimitReached
<1>5. CASE CrashAtAwait
  BY <1>5, CrashKeepsPool
<1>6. CASE Restart
  BY <1>6, RestartKeepsPool
<1>7. CASE Terminated \/ UNCHANGED vars
  BY <1>3, <1>7 DEF Terminated, vars
<1> QED
  BY <1>1, <1>2, <1>4, <1>5, <1>6, <1>7 DEF Next

(* The invariant the theorems below follow from.                            *)
THEOREM PoolInvariance == Spec => [](IInv /\ RInv)
<1>1. Init => IInv /\ RInv
  BY InitIInv, InitRInv
<1>2. IInv /\ RInv /\ [Next]_vars => IInv' /\ RInv'
  BY NextIInv, NextRInv
<1> QED
  BY <1>1, <1>2, PTL DEF Spec

(* From the baseline on the best candidate the statistics report is the     *)
(* best of the alive ones, with its own score, in every launch, as long as  *)
(* the process is only killed at an await.  A kill between the writes of a  *)
(* slot's last step leaves statistics of before that step, one inside a     *)
(* write may lose the best (CandidateStoreDisk!ResumesCleanly).             *)
THEOREM BestIsReported == Spec => []BestIsBest
<1>1. IInv /\ RInv => BestIsBest
  BY DEF RInv, PoolInv, BestIsBest, Reported
<1> QED
  BY <1>1, PoolInvariance, PTL

(* The limits are overshot by no more than what the slots in flight run.    *)
THEOREM OvershootIsBounded == Spec => []BudgetOvershoot
<1>1. IInv /\ RInv => BudgetOvershoot
  <2> SUFFICES ASSUME IInv, RInv PROVE BudgetOvershoot
    OBVIOUS
  <2>1. TypeOK /\ TodoCounted
    BY TodoFinite DEF IInv
  <2>2. /\ BatchLength * Cardinality(Todo) \in Nat /\ ValSize * Cardinality(Unvalidated) \in Nat
    BY <2>1, Numbers DEF TodoCounted
  <2>3. stats.rollouts <= DueRollouts /\ stats.systemRuns <= DueSystemRuns
    BY <2>1, <2>2, Numbers DEF DueRollouts, DueSystemRuns
  <2>4. DueNumbered
    BY <2>1, DueNumbers
  <2> DEFINE r == MaxRollouts - 1 + NumProposals * SlotRollouts
             q == MaxSystemRuns - 1 + NumProposals * (SlotRollouts + ValSize)
  <2>5. DueRollouts <= r /\ DueSystemRuns <= q
    BY DEF RInv, BudgetInv
  <2>6. r \in Int /\ q \in Int
    BY <2>1, <2>4, Numbers DEF DueNumbered
  <2> HIDE DEF r, q
  <2>7. stats.rollouts <= r /\ stats.systemRuns <= q
    BY <2>1, <2>3, <2>4, <2>5, <2>6, Numbers DEF DueNumbered
  <2> QED
    BY <2>7 DEF BudgetOvershoot, r, q
<1> QED
  BY <1>1, PoolInvariance, PTL

(* A step of a slot in flight spends, it never gives back.                  *)
LEMMA SlotsOnlySpend ==
    ASSUME IInv, IInv', RInv, NEW i \in Iterations, SlotStep(i), BudgetExhausted
    PROVE  BudgetExhausted'
<1>1. SlotsRun /\ (Discard(i) \/ (i \in Running /\ (Moves(i) \/ Ends(i))))
  BY SlotStepShape DEF RInv
<1>2. limitHit' = limitHit
  BY DEF SlotStep, SlotStart, ParentPerfect, ParentEvaluated, Proposed, ProposeFailed,
     ChildAccepted, ChildRejected, ChildReflects, Reflected, ReflectFailed, ChainEvaluated,
     Validated, RolloutRaises, Discard, EndChain, NextReflection, Completed, EndSlot,
     AwaitRollout, AwaitProposer
<1>3. /\ stats \in Statistics /\ TypeOK /\ MaxIterations \in Nat
      /\ lastId' \in Nat /\ StoreType(store', lastId') /\ Scored(store')
  BY OptimizerAssumption DEF IInv, TypeOK, StoreType
<1>4. /\ stats'.iteration = stats.iteration /\ stats.rollouts <= stats'.rollouts
      /\ stats.systemRuns <= stats'.systemRuns
  <2>1. CASE Discard(i)
    BY <1>3, <2>1, Numbers DEF Discard
  <2>2. CASE i \in Running /\ Moves(i)
    <3>1. stats' \in {stats, CountTrain(stats), CountVal(stats)}
      BY <2>2 DEF Moves, MovesTo, Spends
    <3> QED
      BY <1>3, <3>1, Counting, Numbers
  <2>3. CASE Ends(i)
    <3>1. PICK accepted \in BOOLEAN : stats' = Booked(store', accepted)
      BY <2>3 DEF Ends
    <3>2. /\ stats'.rollouts = stats.rollouts /\ stats'.systemRuns = stats.systemRuns
      BY <1>3, <3>1, BookedBest
    <3>3. stats'.iteration = stats.iteration
      BY <1>3, <3>1, BookedCounts
    <3> QED
      BY <1>3, <3>2, <3>3, Numbers
  <2> QED
    BY <1>1, <2>1, <2>2, <2>3
<1>5. stats'.rollouts \in Nat /\ stats'.systemRuns \in Nat
  BY DEF IInv, TypeOK, Statistics
<1> QED
  BY <1>2, <1>3, <1>4, <1>5, Numbers DEF BudgetExhausted

(* With no task left there is something to select.                          *)
LEMMA IdleMeansSelectable ==
    ASSUME IInv, RInv, Started, Active = {}
    PROVE  EA!Selectable(store) # {}
<1>1. Running = {}
  BY DEF Active, Running
<1>2. Evolving(store) = {}
  BY <1>1 DEF IInv, Ownership, Started, Parents
<1>3. lastId \in Nat /\ StoreType(store, lastId) /\ Scored(store)
  BY DEF IInv, TypeOK, StoreType
<1>4. EA!Alive(store) # {}
  BY DEF RInv, PoolInv
<1> QED
  BY <1>2, <1>3, <1>4, IdlePoolIsSelectable

(* The loop gives up because of a limit, or because select raised: with no  *)
(* slot in flight an empty selection is impossible.                         *)
THEOREM GivesUpOnlyOnBudget == Spec => []StopsOnlyOnBudget
<1>1. Init => StopsOnlyOnBudget
  BY DEF Init, StopsOnlyOnBudget
<1>2. ASSUME IInv, IInv', RInv, StopsOnlyOnBudget, [Next]_vars
      PROVE  StopsOnlyOnBudget'
  <2>1. ASSUME UNCHANGED <<stats, limitHit>>, main' \in {"drain", "done"} => main \in {"drain", "done"}
        PROVE  StopsOnlyOnBudget'
    BY <1>2, <2>1 DEF StopsOnlyOnBudget, BudgetExhausted
  <2>2. CASE MainStep
    <3>1. CASE StopOnBudget
      BY <3>1 DEF StopOnBudget, MainGoes, StopsOnlyOnBudget, BudgetExhausted
    <3>2. CASE SelectRaises
      BY <3>2 DEF SelectRaises, StopsOnlyOnBudget
    <3>3. CASE NothingSelectable
      <4>1. Started
        BY <3>3 DEF NothingSelectable, HoldsPermit, Started
      <4>2. Active # {}
        BY <1>2, <3>3, <4>1, IdleMeansSelectable DEF NothingSelectable
      <4> QED
        BY <3>3, <4>2 DEF NothingSelectable, MainGoes, StopsOnlyOnBudget
    <3>4. CASE Finish
      BY <2>1, <3>4 DEF Finish
    <3>5. CASE Resume \/ StartFromScratch \/ BaselineEvaluated \/ BaselineRaises
               \/ AwaitPermit \/ OpenSlot \/ Wake
      BY <3>5 DEF Resume, StartFromScratch, BaselineEvaluated, BaselineRaises, AwaitPermit,
         OpenSlot, Wake, MainGoes, StopsOnlyOnBudget
    <3> QED
      BY <2>2, <3>1, <3>2, <3>3, <3>4, <3>5 DEF MainStep
  <2>3. ASSUME NEW i \in Iterations, SlotStep(i) PROVE StopsOnlyOnBudget'
    <3>1. main' = main
      BY <2>3 DEF SlotStep, SlotStart, ParentPerfect, ParentEvaluated, Proposed, ProposeFailed,
         ChildAccepted, ChildRejected, ChildReflects, Reflected, ReflectFailed, ChainEvaluated,
         Validated, RolloutRaises, Discard, EndChain, NextReflection, Completed, EndSlot,
         AwaitRollout, AwaitProposer
    <3> QED
      BY <1>2, <2>3, <3>1, SlotsOnlySpend DEF StopsOnlyOnBudget
  <2>4. CASE LimitReached
    BY <1>2, <2>4 DEF LimitReached, StopsOnlyOnBudget, BudgetExhausted
  <2>5. CASE CrashAtAwait \/ Restart
    BY <2>5 DEF CrashAtAwait, Restart, StopsOnlyOnBudget
  <2>6. CASE Terminated \/ UNCHANGED vars
    BY <2>1, <2>6 DEF Terminated, vars
  <2> QED
    BY <1>2, <2>2, <2>3, <2>4, <2>5, <2>6 DEF Next
<1>3. IInv /\ RInv /\ IInv' /\ StopsOnlyOnBudget /\ [Next]_vars => StopsOnlyOnBudget'
  BY <1>2
<1> QED
  BY <1>1, <1>3, PoolInvariance, PTL DEF Spec
-----------------------------------------------------------------------------
(* The optimizer implements EvolutionPool.                                  *)

LEMMA PoolOperatorsAlike ==
    /\ \A p, c, s : PF!WithState(p, c, s) = Pool!WithState(p, c, s)
    /\ \A p, c, r : PF!Put(p, c, r) = Pool!Put(p, c, r)
    /\ \A p : PF!Settled(p) = Pool!Settled(p)
    /\ \A p : PF!EA!Selectable(p) = Pool!EA!Selectable(p)
    /\ \A p : PF!Busy(p) = Pool!Busy(p)
    /\ \A S : PF!Cardinality(S) = Cardinality(S) /\ Pool!Cardinality(S) = Cardinality(S)
<1>1. \A p, C : PF!Drop(p, C) = Pool!Drop(p, C)
  BY DEF PF!Drop, Pool!Drop
<1>2. \A p : PF!Settled(p) = Pool!Settled(p)
  BY <1>1, EliminatedAlike DEF PF!Settled, Pool!Settled
<1>3. \A p : PF!Busy(p) = Pool!Busy(p)
  BY DEF PF!Busy, Pool!Busy, PF!EA!InPool, Pool!EA!InPool
<1>4. \A S : PF!Cardinality(S) = Cardinality(S) /\ Pool!Cardinality(S) = Cardinality(S)
  BY DEF PF!Cardinality, Pool!Cardinality, Cardinality
<1> QED
  BY <1>2, <1>3, <1>4, SelectableAlike DEF PF!WithState, Pool!WithState, PF!Put, Pool!Put

(* The three ways a slot gives its candidate back are steps of the pool.    *)
LEMMA GivingBackIsAStep ==
    ASSUME NEW c \in Evolving(store), IInv, GivesBack(Population(store), Population(store'), c)
    PROVE  PF!Next
<1> DEFINE P == Population(store)
           Q == Population(store')
<1>1. c \in PF!Busy(P)
  BY PopulationShows DEF IInv, TypeOK, StoreType
<1>2. CASE Q = Pool!WithState(P, c, "pending")
  <2>1. \E d \in PF!Busy(P) : Q = PF!WithState(P, d, "pending")
    BY <1>1, <1>2, PoolOperatorsAlike
  <2>2. PF!Fail
    BY <2>1 DEF PF!Fail, Population
  <2> QED
    BY <2>2 DEF PF!Next
<1>3. CASE Q = Pool!Settled(Pool!WithState(P, c, "pending"))
  <2>1. \E d \in PF!Busy(P) : \E p \in {PF!WithState(P, d, "pending")} : Q = PF!Settled(p)
    BY <1>1, <1>3, PoolOperatorsAlike
  <2>2. PF!Return
    BY <2>1 DEF PF!Return, Population
  <2> QED
    BY <2>2 DEF PF!Next
<1>4. CASE \E n \in (Nat \ {0}) \ DOMAIN P, v \in ValScores, g \in {h \in Nat : h > P[c].generation} :
             Q = Pool!Settled(Pool!Put(Pool!WithState(P, c, "pending"), n,
                   [state |-> "pending", generation |-> g, scores |-> v]))
  <2>1. \E d \in PF!Busy(P), n \in (Nat \ {0}) \ DOMAIN P, v \in ValScores :
          \E g \in {h \in Nat : h > P[d].generation} :
            \E p \in {PF!Put(PF!WithState(P, d, "pending"), n,
                         [state |-> "pending", generation |-> g, scores |-> v])} :
                Q = PF!Settled(p)
    BY <1>1, <1>4, PoolOperatorsAlike
  <2>2. PF!ReturnWithChild
    BY <2>1 DEF PF!ReturnWithChild, Population
  <2> QED
    BY <2>2 DEF PF!Next
<1> QED
  BY <1>2, <1>3, <1>4 DEF GivesBack

(* A slot opens while fewer than NumProposals run.                          *)
LEMMA OpeningIsAStep ==
    ASSUME IInv, IInv', RInv, OpenSlot
    PROVE  PF!Next
<1> DEFINE P == Population(store)
           Q == Population(store')
<1>1. PICK c \in EA!Selectable(store) : Q = Pool!WithState(P, c, "evolving")
  BY OpenSlotKeepsPool
<1>2. lastId \in Nat /\ StoreType(store, lastId) /\ Scored(store)
  BY DEF IInv, TypeOK, StoreType
<1>3. /\ PF!EA!Selectable(P) = EA!Selectable(store) /\ PF!Busy(P) = Evolving(store)
      /\ PF!Cardinality(PF!Busy(P)) = Cardinality(Evolving(store))
  BY <1>2, PopulationShows, PoolOperatorsAlike
<1>4. Cardinality(Evolving(store)) < NumProposals
  <2>1. Evolving(store) = Parents
    BY DEF OpenSlot, HoldsPermit, IInv, Ownership
  <2> DEFINE f == [i \in Running |-> tasks[i].parent]
  <2>2. f \in Surjection(Running, Parents)
    BY DEF Parents, Surjection
  <2>3. IsFiniteSet(Running)
    BY RunningFinite
  <2>4. Cardinality(Parents) <= Cardinality(Running) /\ IsFiniteSet(Parents)
    BY <2>2, <2>3, FS_Surjection
  <2>5. Cardinality(Running) < NumProposals /\ Cardinality(Running) \in Nat
    <3>1. /\ permits + Cardinality(Running) = NumProposals /\ permits > 0
          /\ permits \in Nat /\ NumProposals \in Nat
      BY Numbers DEF IInv, PermitsBalance, OpenSlot, HoldsPermit, TypeOK
    <3>2. Cardinality(Running) \in Nat
      BY <2>3, FS_CardinalityType
    <3> QED
      BY <3>1, <3>2
  <2>6. Cardinality(Parents) \in Nat /\ NumProposals \in Nat
    BY <2>4, FS_CardinalityType, Numbers DEF IInv
  <2> QED
    BY <2>1, <2>4, <2>5, <2>6
<1>5. /\ PF!Cardinality(PF!Busy(P)) < NumProposals
      /\ \E d \in PF!EA!Selectable(P) : Q = PF!WithState(P, d, "evolving")
  BY <1>1, <1>3, <1>4, PoolOperatorsAlike
<1>6. PF!Borrow
  BY <1>5 DEF PF!Borrow, Population
<1> QED
  BY <1>6 DEF PF!Next

LEMMA SeedingIsAStep ==
    ASSUME IInv, IInv', RInv, BaselineEvaluated
    PROVE  PF!Next
<1> DEFINE P == Population(store)
           Q == Population(store')
<1>1. PICK v \in ValScores :
         Q = Pool!Put(P, lastId, [state |-> "pending", generation |-> 0, scores |-> v])
  BY BaselineEvaluatedKeepsPool
<1>2. DOMAIN P = {} /\ lastId \in Nat \ {0}
  <2>1. /\ main = "baseline" /\ lastId \in Nat /\ StoreType(store, lastId)
    BY DEF BaselineEvaluated, IInv, TypeOK, StoreType
  <2>2. EA!Alive(store) = {} /\ lastId \in DOMAIN store
    BY <2>1 DEF RInv, PoolInv
  <2> QED
    BY <2>1, <2>2 DEF Population, StoreType
<1>3. /\ DOMAIN P = {}
      /\ \E r \in Nat \ {0}, w \in ValScores :
            Q = PF!Put(P, r, [state |-> "pending", generation |-> 0, scores |-> w])
  BY <1>1, <1>2, PoolOperatorsAlike
<1>4. PF!Seed
  BY <1>3 DEF PF!Seed, Population
<1> QED
  BY <1>4 DEF PF!Next

LEMMA RestartIsAStep ==
    ASSUME IInv, IInv', RInv, Restart
    PROVE  PF!Next \/ Population(store') = Population(store)
<1> DEFINE P == Population(store)
           Q == Population(store')
<1>1. Q = [c \in DOMAIN P |-> [P[c] EXCEPT !.state = "pending"]]
  BY RestartKeepsPool
<1>2. CASE PF!Busy(P) # {}
  <2>1. PF!Recover
    BY <1>1, <1>2 DEF PF!Recover, Population
  <2> QED
    BY <2>1 DEF PF!Next
<1>3. CASE PF!Busy(P) = {}
  <2>1. \A c \in EA!Alive(store) : store[c].state = "pending"
    BY <1>3, AliveMeans DEF PF!Busy, PF!EA!InPool, Population
  <2>2. P = [c \in EA!Alive(store) |-> [state |-> store[c].state,
               generation |-> store[c].generation, scores |-> store[c].scores]]
    BY DEF Population
  <2> HIDE DEF P
  <2>3. \A c \in EA!Alive(store) : [P[c] EXCEPT !.state = "pending"] = P[c]
    BY <2>1, <2>2
  <2>4. DOMAIN P = EA!Alive(store)
    BY <2>2
  <2>5. Q = P
    BY <1>1, <2>2, <2>3, <2>4
  <2> QED
    BY <2>5 DEF P
<1> QED
  BY <1>2, <1>3

(* Every step of the optimizer is a step of the pool or not seen there.     *)
LEMMA NextIsAStep ==
    IInv /\ IInv' /\ RInv /\ RInv' /\ [Next]_vars
      => PF!Next \/ Population(store') = Population(store)
<1> SUFFICES ASSUME IInv, IInv', RInv, RInv', [Next]_vars
             PROVE  PF!Next \/ Population(store') = Population(store)
  OBVIOUS
<1>1. CASE store' = store
  BY <1>1
<1>2. CASE MainStep
  <2>1. CASE StartFromScratch
    <3>1. EA!Alive(store) = {} /\ EA!Alive(store') = {}
      BY <2>1 DEF StartFromScratch, RInv, PoolInv
    <3> QED
      BY <3>1, SamePopulation
  <2>2. CASE ~StartFromScratch /\ ~BaselineEvaluated /\ ~OpenSlot
    BY <1>1, <1>2, <2>2 DEF MainStep, Resume, BaselineRaises, StopOnBudget, AwaitPermit,
       NothingSelectable, SelectRaises, Wake, Finish, MainGoes
  <2> QED
    BY <2>1, <2>2, SeedingIsAStep, OpeningIsAStep
<1>3. ASSUME NEW i \in Iterations, SlotStep(i)
      PROVE  PF!Next \/ Population(store') = Population(store)
  <2>1. SlotsRun /\ (Discard(i) \/ (i \in Running /\ (Moves(i) \/ Ends(i))))
    BY <1>3, SlotStepShape DEF RInv
  <2>2. CASE Discard(i)
    BY <1>1, <2>2 DEF Discard
  <2>3. CASE Moves(i)
    BY <2>3 DEF Moves, MovesTo
  <2>4. CASE i \in Running /\ Ends(i)
    <3>1. tasks[i].parent \in Evolving(store)
      BY <2>1, <2>4, SlotFacts DEF RInv
    <3>2. GivesBack(Population(store), Population(store'), tasks[i].parent)
      BY <2>4 DEF Ends
    <3> QED
      BY <3>1, <3>2, GivingBackIsAStep
  <2> QED
    BY <2>1, <2>2, <2>3, <2>4
<1>4. CASE LimitReached \/ CrashAtAwait \/ Terminated \/ UNCHANGED vars
  BY <1>1, <1>4 DEF LimitReached, CrashAtAwait, Terminated, vars
<1>5. CASE Restart
  BY <1>5, RestartIsAStep
<1> QED
  BY <1>2, <1>3, <1>4, <1>5 DEF Next

LEMMA InitIsEmpty == Init => PF!Init
<1> SUFFICES ASSUME Init PROVE PF!Init
  OBVIOUS
<1>1. EA!Alive(store) = {}
  <2>1. \A c : c \notin EA!Alive(store)
    BY AliveMeans DEF Init, EmptyStore
  <2> QED
    BY <2>1
<1>2. Population(store) = <<>>
  BY <1>1 DEF Population
<1> QED
  BY <1>2 DEF PF!Init, Population

(* Every behaviour of the scheduler and its slots, kills at an await and    *)
(* relaunches included, is one of EvolutionPool: candidates are borrowed by *)
(* at most NumProposals slots, come back, and are retired as a whole        *)
(* population.                                                              *)
THEOREM OptimizerIsAPool == Spec => PF!Spec
<1>1. Init => PF!Init
  BY InitIsEmpty
<1>2. IInv /\ IInv' /\ RInv /\ RInv' /\ [Next]_vars => [PF!Next]_(Population(store))
  BY NextIsAStep
<1> QED
  BY <1>1, <1>2, PoolInvariance, PTL DEF Spec, PF!Spec

(* The same for OptimizerRefinesPool's instance, whose ids and generations  *)
(* a run bounds: with all of them available the refinement holds.           *)
THEOREM ImplementsPool ==
    ASSUME PoolIds = Nat \ {0}, Generations = Nat
    PROVE  Spec => PoolSpec
<1>1. PF!Init => Pool!Init
  BY DEF PF!Init, Pool!Init, Population
<1>2. PF!Next => Pool!Next
  <2>1. PF!Seed => Pool!Seed
    BY PoolOperatorsAlike DEF PF!Seed, Pool!Seed, Population
  <2>2. PF!Borrow => Pool!Borrow
    BY PoolOperatorsAlike DEF PF!Borrow, Pool!Borrow, Population
  <2>3. PF!Return => Pool!Return
    BY PoolOperatorsAlike DEF PF!Return, Pool!Return, Population
  <2>4. PF!ReturnWithChild => Pool!ReturnWithChild
    <3> SUFFICES ASSUME PF!ReturnWithChild PROVE Pool!ReturnWithChild
      OBVIOUS
    <3> DEFINE P == Population(store)
    <3>1. PICK c \in PF!Busy(P), n \in (Nat \ {0}) \ DOMAIN P, v \in ValScores :
             \E g \in {h \in Nat : h > P[c].generation} :
               Population(store') = PF!Settled(PF!Put(PF!WithState(P, c, "pending"), n,
                   [state |-> "pending", generation |-> g, scores |-> v]))
      BY DEF PF!ReturnWithChild
    <3>2. PICK g \in {h \in Nat : h > P[c].generation} :
             Population(store') = PF!Settled(PF!Put(PF!WithState(P, c, "pending"), n,
                   [state |-> "pending", generation |-> g, scores |-> v]))
      BY <3>1
    <3>3. /\ c \in Pool!Busy(P) /\ n \in PoolIds \ DOMAIN P
          /\ g \in {h \in Generations : h > P[c].generation}
          /\ Population(store') = Pool!Settled(Pool!Put(Pool!WithState(P, c, "pending"), n,
                   [state |-> "pending", generation |-> g, scores |-> v]))
      BY <3>2, PoolOperatorsAlike
    <3> QED
      BY <3>3 DEF Pool!ReturnWithChild
  <2>5. PF!Fail => Pool!Fail
    BY PoolOperatorsAlike DEF PF!Fail, Pool!Fail, Population
  <2>6. PF!Recover => Pool!Recover
    BY PoolOperatorsAlike DEF PF!Recover, Pool!Recover, Population
  <2> QED
    BY <2>1, <2>2, <2>3, <2>4, <2>5, <2>6 DEF PF!Next, Pool!Next
<1>3. Init => Pool!Init
  BY <1>1, InitIsEmpty
<1>4. IInv /\ IInv' /\ RInv /\ RInv' /\ [Next]_vars => [Pool!Next]_(Population(store))
  BY <1>2, NextIsAStep
<1> QED
  BY <1>3, <1>4, PoolInvariance, PTL DEF Spec, PoolSpec, Pool!Spec, Population

(* The alive candidates never exceed the cap by more than the slots in      *)
(* flight, whatever kills at an await and relaunches intervene.             *)
THEOREM AliveIsBounded ==
    Spec => [](Cardinality(EA!Alive(store)) <= MaxCandidateNum + NumProposals - 1)
<1>1. Spec => []PF!PoolBound
  BY OptimizerIsAPool, PoolConstants, PF!PoolIsBounded, PTL
<1>2. PF!PoolBound => Cardinality(EA!Alive(store)) <= MaxCandidateNum + NumProposals - 1
  BY PoolOperatorsAlike DEF PF!PoolBound, Population
<1> QED
  BY <1>1, <1>2, PTL

(* The best average of the alive candidates never drops, while the process  *)
(* runs, when it is killed at an await, and at the relaunch:                *)
(* avg_score_history is non-decreasing (workspace-artifacts.md), but for    *)
(* what the tolerance of a comparison lets one elimination lose.  A kill    *)
(* inside the rewrite of a meta.json may lose a candidate, the best one     *)
(* too (StoreContract!crash).                                               *)
BestAverageNeverDrops ==
    [][\A a \in EA!Alive(store) : \E b \in EA!Alive(store') :
          EA!AvgScore(store'[b].scores) + PF!Drift >= EA!AvgScore(store[a].scores)
      ]_(Population(store))

(* The drift vanishes when scores compare exactly.                          *)
LEMMA ExactDrift ==
    /\ ValScores # {} => PF!Drift \in Nat
    /\ ValScores # {} /\ ScoreEps = 0 => PF!Drift = 0
<1>1. ValScores # {} => /\ PF!Drift \in Nat /\ PF!Instances \in Nat
                        /\ MaxCandidateNum + NumProposals - 1 \in Nat
  BY PF!DriftType, PoolConstants
<1>2. ASSUME ValScores # {}, ScoreEps = 0 PROVE PF!Drift = 0
  <2>1. (MaxCandidateNum + NumProposals - 1) * ScoreEps = 0
    BY <1>1, <1>2
  <2>2. PF!Instances * 0 = 0
    BY <1>1, <1>2
  <2> QED
    BY <2>1, <2>2 DEF PF!Drift
<1> QED
  BY <1>1, <1>2

(* So promises the pool (BestIsNeverLost), and Optimizer implements it.      *)
THEOREM BestAverageIsKept == Spec => BestAverageNeverDrops
<1>1. Spec => PF!BestNeverDrops
  BY OptimizerIsAPool, PoolConstants, PF!BestIsNeverLost, PTL
<1>2. [\A a \in PF!Avgs(Population(store)) :
          \E b \in PF!Avgs(Population(store)') : b + PF!Drift >= a]_(Population(store))
        => [\A a \in EA!Alive(store) : \E b \in EA!Alive(store') :
              EA!AvgScore(store'[b].scores) + PF!Drift >= EA!AvgScore(store[a].scores)
           ]_(Population(store))
  <2>1. \A s : PF!Avgs(Population(s)) = {EA!AvgScore(s[c].scores) : c \in EA!Alive(s)}
    <3> TAKE s
    <3>1. /\ DOMAIN Population(s) = EA!Alive(s)
          /\ \A c \in EA!Alive(s) : Population(s)[c].scores = s[c].scores
      BY DEF Population
    <3> QED
      BY <3>1, RankedAlike DEF PF!Avgs
  <2> QED
    BY <2>1
<1> QED
  BY <1>1, <1>2, PTL DEF PF!BestNeverDrops, BestAverageNeverDrops

(* The score the statistics report never drops from slot to slot, nor from  *)
(* one launch to the next if the process was killed at an await:            *)
(* avg_score_history is monotonic non-decreasing (workspace-artifacts.md),  *)
(* but for the drift.  After a kill inside the write of statistics.json the *)
(* next launch starts over (CandidateStoreDisk!ResumesCleanly).             *)
ReportedNeverDrops ==
    [][stats.root # NoCandidate =>
         stats'.root # NoCandidate /\ stats'.bestAvg + PF!Drift >= stats.bestAvg]_vars

(* The reported candidate is the best alive one, in memory and in the file. *)
THEOREM ReportedIsKept == Spec => ReportedNeverDrops
<1> DEFINE Kept(s, t) ==
             \A a \in EA!Alive(s) : \E b \in EA!Alive(t) :
                EA!AvgScore(t[b].scores) + PF!Drift >= EA!AvgScore(s[a].scores)
<1>1. IInv /\ RInv /\ IInv' /\ RInv' /\ [Kept(store, store')]_(Population(store))
        => [stats.root # NoCandidate =>
              stats'.root # NoCandidate /\ stats'.bestAvg + PF!Drift >= stats.bestAvg]_vars
  <2> SUFFICES ASSUME IInv, RInv, IInv', RInv', [Kept(store, store')]_(Population(store)),
                      stats.root # NoCandidate
               PROVE  stats'.root # NoCandidate /\ stats'.bestAvg + PF!Drift >= stats.bestAvg
    OBVIOUS
  <2>1. /\ BestCandidates(store) = {stats.best}
        /\ stats.bestAvg = EA!AvgScore(store[stats.best].scores)
    BY DEF RInv, PoolInv, Reported
  <2>2. stats.best \in EA!Alive(store)
    BY <2>1 DEF BestCandidates
  <2>3. \A s, n : n \in Nat /\ StoreType(s, n) /\ Scored(s) =>
          \A c \in EA!Alive(s) : EA!AvgScore(s[c].scores) \in Nat
    <3> SUFFICES ASSUME NEW s, NEW n \in Nat, StoreType(s, n), Scored(s), NEW c \in EA!Alive(s)
                 PROVE  EA!AvgScore(s[c].scores) \in Nat
      OBVIOUS
    <3>1. s[c].scores \in ValScores
      BY AliveMeans DEF Scored
    <3>2. PF!EA!AvgScore(s[c].scores) \in Nat
      BY <3>1, PF!AverageType, PoolConstants
    <3> QED
      BY <3>2, RankedAlike
  <2>4. /\ lastId \in Nat /\ StoreType(store, lastId) /\ Scored(store)
        /\ lastId' \in Nat /\ StoreType(store', lastId') /\ Scored(store')
    BY DEF IInv, TypeOK, StoreType
  <2>5. PF!Drift \in Nat
    <3>1. store[stats.best].scores \in ValScores
      BY <2>2, <2>4, AliveMeans DEF Scored
    <3> QED
      BY <3>1, ExactDrift
  <2>6. Kept(store, store')
    <3>1. CASE Population(store') = Population(store)
      <4>1. /\ DOMAIN Population(store) = EA!Alive(store)
            /\ DOMAIN Population(store') = EA!Alive(store')
            /\ \A c \in EA!Alive(store) : Population(store)[c].scores = store[c].scores
            /\ \A c \in EA!Alive(store') : Population(store')[c].scores = store'[c].scores
        BY DEF Population
      <4>2. EA!Alive(store') = EA!Alive(store)
        BY <3>1, <4>1
      <4>3. \A c \in EA!Alive(store) : store'[c].scores = store[c].scores
        BY <3>1, <4>1, <4>2
      <4>4. \A c \in EA!Alive(store) : EA!AvgScore(store[c].scores) \in Nat
        BY <2>3, <2>4
      <4> QED
        BY <2>5, <4>2, <4>3, <4>4
    <3>2. CASE Kept(store, store')
      BY <3>2
    <3> QED
      BY <3>1, <3>2
  <2>7. PICK b \in EA!Alive(store') : EA!AvgScore(store'[b].scores) + PF!Drift >= stats.bestAvg
    BY <2>1, <2>2, <2>6
  <2>8. /\ stats'.root # NoCandidate
        /\ BestCandidates(store') = {stats'.best}
        /\ stats'.bestAvg = EA!AvgScore(store'[stats'.best].scores)
    BY <2>7 DEF RInv, PoolInv, Reported
  <2>9. /\ stats'.best \in EA!Alive(store')
        /\ b = stats'.best \/ EA!RanksAbove(store', stats'.best, b)
    BY <2>7, <2>8 DEF BestCandidates
  <2>10. EA!AvgScore(store'[stats'.best].scores) >= EA!AvgScore(store'[b].scores)
    <3>1. /\ EA!AvgScore(store'[stats'.best].scores) \in Nat
          /\ EA!AvgScore(store'[b].scores) \in Nat
      BY <2>3, <2>4, <2>9
    <3> QED
      BY <2>9, <3>1 DEF EA!RanksAbove
  <2>11. /\ EA!AvgScore(store'[stats'.best].scores) \in Nat
         /\ EA!AvgScore(store'[b].scores) \in Nat /\ stats.bestAvg \in Nat
    BY <2>1, <2>2, <2>3, <2>4, <2>9
  <2> QED
    BY <2>5, <2>7, <2>8, <2>10, <2>11
<1>2. Spec => [][Kept(store, store')]_(Population(store))
  BY BestAverageIsKept DEF BestAverageNeverDrops
<1> QED
  BY <1>1, <1>2, PoolInvariance, PTL DEF ReportedNeverDrops
=============================================================================
