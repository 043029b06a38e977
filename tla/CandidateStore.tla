--------------------------- MODULE CandidateStore ---------------------------
(***************************************************************************)
(* The operations of store/candidate_store.py that change or query the     *)
(* candidates, as functions from store values to store values.  Every one  *)
(* of them runs without an await, so to the asyncio tasks that share the   *)
(* store it is one step.                                                   *)
(*                                                                         *)
(* A store `s` maps the existing candidate ids to                          *)
(*   state       CandidateMeta.state                                       *)
(*   parent      parent_id, NoCandidate for a root                         *)
(*   children    children_ids                                              *)
(*   generation                                                            *)
(*   cursor      (epoch, dataset_index)                                    *)
(*   scores      CandidateSummary.score_list, <<>> until evaluated         *)
(* Ids are numbers in the order of creation.  Artifacts, changelogs and    *)
(* run records are not represented.                                        *)
(***************************************************************************)
EXTENDS Integers, Sequences, DatasetCursor

CONSTANT CleanupUnavailable  \* cleanup_unavailable

ASSUME StoreAssumption == CleanupUnavailable \in BOOLEAN

NoCandidate == 0

CandidateState == {"pending", "evolving", "unavailable"}

Candidate == [state : CandidateState, parent : Nat, children : SUBSET Nat,
              generation : Nat, cursor : Cursor, scores : Seq(Nat)]

EmptyStore == [c \in {} |-> c]

Add(s, c, rec) == [d \in DOMAIN s \cup {c} |-> IF d = c THEN rec ELSE s[d]]

(* create_root: a fresh, unscored, unavailable candidate. *)
CreateRoot(s, c) ==
    Add(s, c, [state |-> "unavailable", parent |-> NoCandidate, children |-> {},
               generation |-> 0, cursor |-> StartCursor, scores |-> <<>>])

(* Mutant: the child is created selectable. *)
CreateChild_Pending(s, p, c, cursor) ==
    Add([s EXCEPT ![p].children = @ \cup {c}], c,
        [state |-> "pending", parent |-> p, children |-> {},
         generation |-> s[p].generation + 1, cursor |-> cursor, scores |-> <<>>])

(* create_child of an existing parent p, and its entry in p's children_ids. *)
CreateChild(s, p, c, cursor) ==
    Add([s EXCEPT ![p].children = @ \cup {c}], c,
        [state |-> "unavailable", parent |-> p, children |-> {},
         generation |-> s[p].generation + 1, cursor |-> cursor, scores |-> <<>>])

(* Mutant: deleted candidates stay in their parent's children_ids. *)
Delete_KeepsLink(s, C) == [c \in DOMAIN s \ C |-> s[c]]

(* delete each candidate of C: its entry, its directory, and the reference *)
(* in its parent's children_ids.                                           *)
Delete(s, C) ==
    [c \in DOMAIN s \ C |-> [s[c] EXCEPT !.children = @ \ C]]

(* set_state of each existing candidate of C. *)
SetState(s, C, st) ==
    [c \in DOMAIN s |-> IF c \in C THEN [s[c] EXCEPT !.state = st] ELSE s[c]]

(* retire each candidate of C. *)
Retire(s, C) ==
    IF CleanupUnavailable THEN Delete(s, C) ELSE SetState(s, C, "unavailable")

(* set_progress. *)
SetProgress(s, c, cursor) ==
    IF c \in DOMAIN s THEN [s EXCEPT ![c].cursor = cursor] ELSE s

(* update_summary_scores. *)
UpdateScores(s, c, scores) ==
    IF c \in DOMAIN s THEN [s EXCEPT ![c].scores = scores] ELSE s

(* get_pool_by_state. *)
PoolByState(s, states) == {c \in DOMAIN s : s[c].state \in states}

(* Mutant: an evolving candidate starts over at the head of the dataset. *)
Recover_FromScratch(s) ==
    LET kept == IF CleanupUnavailable
                THEN Delete(s, PoolByState(s, {"unavailable"})) ELSE s
    IN  [c \in DOMAIN kept |->
            IF kept[c].state = "evolving"
            THEN [kept[c] EXCEPT !.state = "pending", !.cursor = StartCursor]
            ELSE kept[c]]

(* Startup recovery: delete_unavailable_candidates when the store cleans   *)
(* up, then reset_evolving_to_pending.                                     *)
Recover(s) ==
    LET kept == IF CleanupUnavailable
                THEN Delete(s, PoolByState(s, {"unavailable"})) ELSE s
    IN  SetState(kept, PoolByState(kept, {"evolving"}), "pending")
=============================================================================
