-------------------------- MODULE MCEvolutionPool --------------------------
(* TLC instance of EvolutionPool: a val set of two instances.  Three of the *)
(* score lists are incomparable, and not of one sum; one dominates every    *)
(* other, one is dominated by every other.                                  *)
EXTENDS EvolutionPool

MCValScores == {<<0, 0>>, <<1, 1>>, <<2, 0>>, <<0, 3>>, <<2, 3>>}
=============================================================================
