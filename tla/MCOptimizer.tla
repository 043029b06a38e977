---------------------------- MODULE MCOptimizer ----------------------------
(* TLC instances of Optimizer: a val set of ValSize instances scored        *)
(* 0 .. MaxScore.                                                          *)
EXTENDS Optimizer

CONSTANT MaxScore

MCValScores == [1 .. ValSize -> 0 .. MaxScore]
=============================================================================
