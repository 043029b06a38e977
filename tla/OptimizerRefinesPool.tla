------------------------ MODULE OptimizerRefinesPool ------------------------
(***************************************************************************)
(* The optimizer implements EvolutionPool: its alive candidates are the    *)
(* population, opening a slot borrows, a completed slot returns, a raised  *)
(* slot fails, the startup recovery recovers; every other step stutters.   *)
(***************************************************************************)
EXTENDS MCOptimizer

CONSTANTS
    PoolIds,      \* candidate ids of the population
    Generations   \* generations they may have

(* What EvolutionPool sees of a store: its alive candidates.                *)
Population(s) ==
    [c \in EA!Alive(s) |-> [state |-> s[c].state, generation |-> s[c].generation,
                            scores |-> s[c].scores]]

Pool == INSTANCE EvolutionPool WITH Ids <- PoolIds, pop <- Population(store)

(* Every behaviour of the scheduler and its slots, kills at an await and   *)
(* relaunches included, is one of EvolutionPool.                           *)
PoolSpec == Pool!Spec
=============================================================================
