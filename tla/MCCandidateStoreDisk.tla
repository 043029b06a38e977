----------------------- MODULE MCCandidateStoreDisk -----------------------
(* CandidateStoreDisk with one val score list and two cursors. *)
EXTENDS CandidateStoreDisk

MCScoreLists == {<<1>>}
MCCursors == {StartCursor, [epoch |-> 1, index |-> 0]}
=============================================================================
