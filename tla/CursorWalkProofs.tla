-------------------------- MODULE CursorWalkProofs --------------------------
(***************************************************************************)
(* Proofs about CursorWalk, for every set of dataset and batch sizes.      *)
(***************************************************************************)
EXTENDS CursorWalk, TLAPS

(* A batch is not empty and lies inside the dataset.                        *)
LEMMA BatchRange ==
    ASSUME NEW s \in Nat \ {0}, NEW b \in Nat \ {0}, NEW i \in Nat
    PROVE  /\ BatchItems(s, b, i) # {}
           /\ BatchItems(s, b, i) \subseteq 0 .. s - 1
<1>1. BatchStart(s, b, i) \in Nat /\ BatchEnd(s, b, i) \in Nat
  BY DEF BatchStart, BatchEnd, IsTail
<1>2. /\ BatchStart(s, b, i) < BatchEnd(s, b, i)
      /\ BatchEnd(s, b, i) <= s
  BY DEF BatchStart, BatchEnd, IsTail
<1>3. BatchStart(s, b, i) \in BatchItems(s, b, i)
  BY <1>1, <1>2 DEF BatchItems
<1> QED
  BY <1>1, <1>2, <1>3 DEF BatchItems

(* What an epoch that runs under one dataset has done so far: the items     *)
(* before the cursor, in that many full batches.                           *)
Prefix == intact => /\ cursor.index < size
                    /\ seen = 0 .. cursor.index - 1
                    /\ slots * batch = cursor.index

IInv == TypeOK /\ Prefix /\ EpochCovers /\ EpochSlots

(* The type invariant alone keeps the batch inside the dataset.             *)
LEMMA TypeGivesBatch == TypeOK => BatchInDataset
BY CursorWalkAssumption, BatchRange
   DEF TypeOK, BatchInDataset, Items, Cursor

LEMMA InitIInv == Init => IInv
BY CursorWalkAssumption
   DEF Init, IInv, TypeOK, Prefix, EpochCovers, EpochSlots, StartCursor, Cursor, Epoch

(* Completing the last batch of an intact epoch closes it with every item   *)
(* seen, in as many slots as there are batches.                            *)
LEMMA ConsumeIInv == IInv /\ Consume => IInv'
<1> SUFFICES ASSUME IInv, Consume PROVE IInv'
  OBVIOUS
<1> USE CursorWalkAssumption
<1>1. /\ size \in Nat \ {0} /\ batch \in Nat \ {0}
      /\ cursor \in Cursor /\ cursor.index \in Nat /\ cursor.epoch \in Nat
      /\ size' = size /\ batch' = batch /\ slots \in Nat
  BY DEF IInv, TypeOK, Consume, Cursor
<1>2. Items \subseteq 0 .. size - 1 /\ Items \subseteq Nat
  BY <1>1, BatchRange DEF Items
<1>3. cursor' = Advance(size, batch, cursor) /\ cursor' \in Cursor
  BY <1>1 DEF Consume, Advance, IsTail, Cursor
<1>4. (slots + 1) * batch = slots * batch + batch
  BY <1>1
<1>5. CASE IsTail(size, batch, cursor.index)
  <2>1. cursor'.epoch # cursor.epoch /\ cursor'.index = 0
    BY <1>1, <1>3, <1>5 DEF Advance
  <2>2. /\ closed' = IF intact
                     THEN {[size |-> size, batch |-> batch,
                            seen |-> seen \cup Items, slots |-> slots + 1]}
                     ELSE {}
        /\ seen' = {} /\ slots' = 0 /\ intact' = TRUE
    BY <2>1 DEF Consume
  <2>3. TypeOK'
    BY <1>1, <1>2, <1>3, <2>2 DEF IInv, TypeOK, Epoch, Consume
  <2>4. Prefix'
    BY <1>1, <2>1, <2>2 DEF Prefix
  <2>5. ASSUME intact PROVE seen \cup Items = 0 .. size - 1
    BY <1>1, <1>5, <2>5
       DEF IInv, Prefix, Items, BatchItems, BatchStart, BatchEnd, IsTail
  <2>6. EpochCovers'
    <3>1. CASE intact
      <4> USE DEF EpochCovers
      <4>1. TAKE e \in closed'
      <4>2. e.size = size /\ e.seen = seen \cup Items
        BY <2>2, <3>1, <4>1
      <4>3. QED
        BY <2>5, <3>1, <4>2
    <3>2. CASE ~intact
      BY <2>2, <3>2 DEF EpochCovers
    <3>3. QED
      BY <3>1, <3>2
  <2>7. ASSUME intact
        PROVE  /\ (slots + 1 - 1) * batch < size
               /\ size <= (slots + 1) * batch
    BY <1>1, <1>4, <1>5, <2>7 DEF IInv, Prefix, IsTail
  <2>8. EpochSlots'
    <3>1. CASE intact
      BY <1>1, <2>2, <2>7, <3>1 DEF EpochSlots
    <3>2. CASE ~intact
      BY <2>2, <3>2 DEF EpochSlots
    <3>3. QED
      BY <3>1, <3>2
  <2>9. QED
    BY <2>3, <2>4, <2>6, <2>8 DEF IInv
<1>6. CASE ~IsTail(size, batch, cursor.index)
  <2>1. cursor'.epoch = cursor.epoch /\ cursor'.index = cursor.index + batch
    BY <1>1, <1>3, <1>6 DEF Advance, Cursor
  <2>2. /\ seen' = seen \cup Items /\ slots' = slots + 1
        /\ intact' = intact /\ closed' = closed
    BY <2>1 DEF Consume
  <2>3. TypeOK'
    BY <1>1, <1>2, <1>3, <2>2 DEF IInv, TypeOK, Consume
  <2>4. Items = cursor.index .. cursor.index + batch - 1
    BY <1>1, <1>6 DEF Items, BatchItems, BatchStart, BatchEnd
  <2>5. Prefix'
    BY <1>1, <1>4, <1>6, <2>1, <2>2, <2>4 DEF IInv, Prefix, IsTail
  <2>6. QED
    BY <2>2, <2>3, <2>5 DEF IInv, EpochCovers, EpochSlots
<1>7. QED
  BY <1>5, <1>6

(* A relaunch starts observing afresh: intact only at the start of an epoch. *)
LEMMA RelaunchIInv == IInv /\ Relaunch => IInv'
<1> SUFFICES ASSUME IInv, Relaunch PROVE IInv'
  OBVIOUS
<1> USE CursorWalkAssumption
<1>1. size' \in Sizes /\ batch' \in BatchSizes /\ cursor' = cursor /\ closed' = closed
  BY DEF Relaunch
<1>2. seen' = {} /\ slots' = 0
  BY DEF Relaunch
<1>3. intact' = (cursor.index = 0)
  BY DEF Relaunch
<1>4. TypeOK'
  BY <1>1, <1>2, <1>3 DEF IInv, TypeOK
<1>5. Prefix'
  <2>1. SUFFICES ASSUME intact'
                 PROVE  cursor'.index < size' /\ seen' = 0 .. cursor'.index - 1
                        /\ slots' * batch' = cursor'.index
    BY DEF Prefix
  <2>2. cursor'.index = 0 /\ size' \in Nat \ {0} /\ batch' \in Nat
    BY <1>1, <1>3, <2>1
  <2>3. 0 .. 0 - 1 = {}
    OBVIOUS
  <2>4. seen' = 0 .. cursor'.index - 1
    BY <1>2, <2>2, <2>3, Zenon
  <2>5. slots' * batch' = 0
    <3>1. \A b \in Nat : 0 * b = 0
      OBVIOUS
    <3>2. QED
      BY <1>2, <2>2, <3>1, Zenon
  <2>6. QED
    BY <2>2, <2>4, <2>5
<1>6. QED
  BY <1>1, <1>4, <1>5 DEF IInv, EpochCovers, EpochSlots

LEMMA NextIInv == IInv /\ [Next]_vars => IInv'
<1>1. IInv /\ UNCHANGED vars => IInv'
  BY DEF IInv, TypeOK, Prefix, EpochCovers, EpochSlots, vars
<1>2. QED
  BY <1>1, ConsumeIInv, RelaunchIInv DEF Next

(* Type correctness of the cursor and its history.                          *)
THEOREM TypeCorrect == Spec => []TypeOK
<1>1. IInv => TypeOK
  BY DEF IInv
<1>2. QED
  BY <1>1, InitIInv, NextIInv, PTL DEF Spec

(* Whatever the dataset and batch sizes, an epoch that runs to its end      *)
(* evaluates every training item (optimizer.py _derive_batch).             *)
THEOREM EpochCoverage == Spec => []EpochCovers
<1>1. IInv => EpochCovers
  BY DEF IInv
<1>2. QED
  BY <1>1, InitIInv, NextIInv, PTL DEF Spec

(* And it does so in ceil(size / batch) slots: the tail is not repeated.    *)
THEOREM EpochLength == Spec => []EpochSlots
<1>1. IInv => EpochSlots
  BY DEF IInv
<1>2. QED
  BY <1>1, InitIInv, NextIInv, PTL DEF Spec

(* No slot is ever handed an empty batch or an index out of range, even     *)
(* after a relaunch with a smaller dataset.                                *)
THEOREM BatchAlwaysInDataset == Spec => []BatchInDataset
BY TypeCorrect, TypeGivesBatch, PTL

(* The cursor only moves forward.                                           *)
THEOREM CursorNeverBack == Spec => CursorForward
<1>1. TypeOK /\ [Next]_vars =>
        [\/ cursor'.epoch > cursor.epoch
         \/ cursor'.epoch = cursor.epoch /\ cursor'.index >= cursor.index]_cursor
  BY CursorWalkAssumption DEF TypeOK, Next, Consume, Relaunch, Advance, Cursor, vars
<1>2. QED
  BY <1>1, TypeCorrect, PTL DEF Spec, CursorForward
=============================================================================
