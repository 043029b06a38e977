----------------------------- MODULE CursorWalk -----------------------------
(***************************************************************************)
(* One lineage walking the training set: each slot of a candidate, or of   *)
(* the accepted child that inherits the ADVANCED cursor, evaluates the     *)
(* batch its cursor points at.  A slot that raises leaves the cursor where *)
(* it was (a stuttering step here).  The run may be resumed with another   *)
(* dataset or batch size, which are constructor arguments of Optimizer and *)
(* not checkpointed, while the cursor is read back from meta.json.         *)
(***************************************************************************)
EXTENDS DatasetCursor

CONSTANTS
    Sizes,       \* possible len(train_dataset)
    BatchSizes,  \* possible batch_size
    MaxEpoch     \* bound of the model: epochs walked

ASSUME CursorWalkAssumption ==
    /\ Sizes \subseteq Nat \ {0}
    /\ BatchSizes \subseteq Nat \ {0}
    /\ MaxEpoch \in Nat

VARIABLES
    size, batch,  \* len(train_dataset) and batch_size of the current launch
    cursor,       \* the lineage's (epoch, dataset_index)
    (***********************************************************************)
    (* Observation only.                                                   *)
    (***********************************************************************)
    seen,         \* items completed slots evaluated in the current epoch
    slots,        \* completed slots of the current epoch
    intact,       \* the current epoch began under the current dataset
    closed        \* {} or {the last epoch, if it ran intact from start to wrap}

vars == <<size, batch, cursor, seen, slots, intact, closed>>

Epoch == [size : Nat, batch : Nat, seen : SUBSET Nat, slots : Nat]

TypeOK ==
    /\ size \in Sizes /\ batch \in BatchSizes
    /\ cursor \in Cursor
    /\ seen \in SUBSET Nat
    /\ slots \in Nat
    /\ intact \in BOOLEAN
    /\ closed \in SUBSET Epoch

Init ==
    /\ size \in Sizes /\ batch \in BatchSizes
    /\ cursor = StartCursor
    /\ seen = {} /\ slots = 0
    /\ intact = TRUE
    /\ closed = {}

Items == BatchItems(size, batch, cursor.index)

(* A slot completes: its batch was evaluated and set_progress moves the    *)
(* cursor (an accepted child gets the same cursor at create_child).        *)
Consume ==
    /\ cursor' = Advance(size, batch, cursor)
    /\ cursor'.epoch <= MaxEpoch
    /\ IF cursor'.epoch # cursor.epoch
       THEN /\ closed' = IF intact
                         THEN {[size |-> size, batch |-> batch,
                                seen |-> seen \cup Items, slots |-> slots + 1]}
                         ELSE {}
            /\ seen' = {} /\ slots' = 0 /\ intact' = TRUE
       ELSE /\ seen' = seen \cup Items
            /\ slots' = slots + 1
            /\ UNCHANGED <<intact, closed>>
    /\ UNCHANGED <<size, batch>>

(* The same workspace is run again with other data or another batch size. *)
Relaunch ==
    /\ \E s \in Sizes, b \in BatchSizes :
        /\ <<s, b>> # <<size, batch>>
        /\ size' = s /\ batch' = b
    /\ intact' = (cursor.index = 0)
    /\ seen' = {} /\ slots' = 0
    /\ UNCHANGED <<cursor, closed>>

Next == Consume \/ Relaunch

Spec == Init /\ [][Next]_vars
-----------------------------------------------------------------------------
(* Every epoch that began under its dataset and wrapped has evaluated every *)
(* item of it: the tail-aligned batch and the jump to the next epoch skip   *)
(* nothing, whatever the sizes (optimizer.py _derive_batch).                *)
EpochCovers == \A e \in closed : e.seen = 0 .. e.size - 1

(* Such an epoch takes ceil(size / batch) slots: when the size is a        *)
(* multiple of the batch the tail is not evaluated a second time (the `>=`  *)
(* of _derive_batch).                                                      *)
EpochSlots == \A e \in closed :
    /\ (e.slots - 1) * e.batch < e.size
    /\ e.size <= e.slots * e.batch

(* The batch is never empty and never reaches outside the dataset, even    *)
(* when a relaunch left the cursor beyond the end of a smaller dataset.    *)
BatchInDataset == Items # {} /\ Items \subseteq 0 .. size - 1

(* The lineage never goes back: a candidate is not asked twice for the     *)
(* batch of an epoch it has completed, relaunches included.                *)
CursorForward == [][
    \/ cursor'.epoch > cursor.epoch
    \/ cursor'.epoch = cursor.epoch /\ cursor'.index >= cursor.index]_cursor
=============================================================================
