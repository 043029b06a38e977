--------------------------- MODULE DatasetCursor ---------------------------
(***************************************************************************)
(* The training-set cursor of a candidate, as Optimizer._derive_batch      *)
(* reads and advances it.  A cursor is the pair (epoch, dataset_index)     *)
(* kept in CandidateMeta; a slot evaluates one batch of training items and *)
(* the cursor then moves past it.  The last batch of an epoch is aligned   *)
(* to the tail of the dataset.                                             *)
(*                                                                         *)
(* Items are numbered 0 .. size-1, as the Python list is indexed.          *)
(***************************************************************************)
EXTENDS Integers

Cursor == [epoch : Nat, index : Nat]

StartCursor == [epoch |-> 0, index |-> 0]

(* Mutant: `>` for `>=`, the boundary the comment of _derive_batch names. *)
IsTail_Strict(size, batch, index) == index + batch > size

(* This slot consumes the last batch of the epoch. *)
IsTail(size, batch, index) == index + batch >= size

(* Mutant: the start of the tail slice is not clamped at 0. *)
BatchStart_Unclamped(size, batch, index) ==
    IF IsTail(size, batch, index) THEN size - batch ELSE index

(* batch_start_index: the tail slice starts at max(0, n - batch_size). *)
BatchStart(size, batch, index) ==
    CASE ~IsTail(size, batch, index) -> index
      [] IsTail(size, batch, index) /\ batch <= size -> size - batch
      [] IsTail(size, batch, index) /\ batch > size -> 0

(* The end of the slice, exclusive. *)
BatchEnd(size, batch, index) ==
    IF IsTail(size, batch, index) THEN size ELSE index + batch

BatchItems(size, batch, index) ==
    BatchStart(size, batch, index) .. BatchEnd(size, batch, index) - 1

(* Mutant: the index is wrapped by subtraction in the wrong direction. *)
Advance_Overshoot(size, batch, cursor) ==
    IF IsTail(size, batch, cursor.index)
    THEN [epoch |-> cursor.epoch + 1, index |-> size - cursor.index - batch]
    ELSE [cursor EXCEPT !.index = @ + batch]

(* Mutant: the index wraps modulo the size, as if the tail batch were not   *)
(* aligned to the end of the dataset.                                      *)
Advance_Modulo(size, batch, cursor) ==
    [epoch |-> cursor.epoch + (cursor.index + batch) \div size,
     index |-> (cursor.index + batch) % size]

(* Mutant: the index is reset but the epoch is not counted. *)
Advance_SameEpoch(size, batch, cursor) ==
    IF IsTail(size, batch, cursor.index)
    THEN [cursor EXCEPT !.index = 0]
    ELSE [cursor EXCEPT !.index = @ + batch]

(* (next_epoch, next_index): where the cursor stands after this batch. *)
Advance(size, batch, cursor) ==
    IF IsTail(size, batch, cursor.index)
    THEN [epoch |-> cursor.epoch + 1, index |-> 0]
    ELSE [cursor EXCEPT !.index = @ + batch]
=============================================================================
