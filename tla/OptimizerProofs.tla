-------------------------- MODULE OptimizerProofs --------------------------
(***************************************************************************)
(* Proofs about Optimizer, for every number of slots, reflections,         *)
(* iterations, relaunches and every dataset, batch size and score list:    *)
(* its types, who owns which candidate, the balance of permits, and what   *)
(* the slots leave behind.                                                 *)
(***************************************************************************)
EXTENDS Optimizer, FiniteSetTheorems, TLAPS

-----------------------------------------------------------------------------
(* What the operations of CandidateStore return, preserve and leave alone. *)
(* A slot changes the store at its own candidates only; Effect says so of  *)
(* one operation, and the rest uses nothing else of them.                  *)

StoreType(s, n) ==
    /\ DOMAIN s \subseteq 1 .. n
    /\ \A c \in DOMAIN s : s[c] \in Candidate

ScoreList == Seq(Nat)

(* From s to t nothing changes outside C but cursors and children.         *)
Effect(s, t, C) ==
    /\ DOMAIN t \ C = DOMAIN s \ C
    /\ \A c \in DOMAIN s \ C : t[c].state = s[c].state /\ t[c].scores = s[c].scores

Evolving(s) == PoolByState(s, {"evolving"})

(* The cursor never leaves its type: Advance yields an epoch and an index.  *)
LEMMA AdvanceType ==
    ASSUME NEW s \in Nat, NEW b \in Nat, NEW c \in Cursor
    PROVE  Advance(s, b, c) \in Cursor
BY DEF Advance, IsTail, Cursor

(* create_child adds one unavailable, unscored candidate and keeps the others. *)
LEMMA CreateChildEffect ==
    ASSUME NEW n \in Nat, NEW s, StoreType(s, n), NEW p \in DOMAIN s, NEW cursor \in Cursor
    PROVE  LET t == CreateChild(s, p, n + 1, cursor) IN
           /\ StoreType(t, n + 1)
           /\ Effect(s, t, {n + 1})
           /\ n + 1 \in DOMAIN t
           /\ t[n + 1].state = "unavailable"
<1> DEFINE t == CreateChild(s, p, n + 1, cursor)
           u == [s EXCEPT ![p].children = @ \cup {n + 1}]
           rec == [state |-> "unavailable", parent |-> p, children |-> {},
                   generation |-> s[p].generation + 1, cursor |-> cursor, scores |-> <<>>]
<1>1. /\ DOMAIN u = DOMAIN s /\ n + 1 \notin DOMAIN s
      /\ \A c \in DOMAIN s : /\ u[c] \in Candidate
                             /\ u[c].state = s[c].state /\ u[c].scores = s[c].scores
  <2>1. DOMAIN u = DOMAIN s /\ n + 1 \notin DOMAIN s
    BY DEF StoreType
  <2>2. s[p] \in Candidate /\ n + 1 \in Nat
    BY DEF StoreType
  <2>3. /\ u[p] = [s[p] EXCEPT !.children = @ \cup {n + 1}]
        /\ \A c \in DOMAIN s \ {p} : u[c] = s[c]
    OBVIOUS
  <2>4. /\ [s[p] EXCEPT !.children = @ \cup {n + 1}] \in Candidate
        /\ [s[p] EXCEPT !.children = @ \cup {n + 1}].state = s[p].state
        /\ [s[p] EXCEPT !.children = @ \cup {n + 1}].scores = s[p].scores
    BY <2>2 DEF Candidate
  <2>5. QED
    BY <2>1, <2>3, <2>4 DEF StoreType
<1>2. p \in Nat /\ s[p].generation \in Nat
  BY DEF StoreType, Candidate
<1>3. rec \in Candidate
  BY <1>2 DEF Candidate, CandidateState
<1>4. t = [d \in DOMAIN u \cup {n + 1} |-> IF d = n + 1 THEN rec ELSE u[d]]
  BY DEF CreateChild, Add
<1> HIDE DEF t, u, rec
<1>5. /\ DOMAIN t = DOMAIN s \cup {n + 1}
      /\ t[n + 1] = rec
      /\ \A c \in DOMAIN s : t[c] = u[c]
  BY <1>1, <1>4
<1>6. StoreType(t, n + 1)
  BY <1>1, <1>3, <1>5 DEF StoreType
<1>7. Effect(s, t, {n + 1})
  BY <1>1, <1>5 DEF Effect
<1>8. t[n + 1].state = "unavailable"
  BY <1>5 DEF rec
<1>9. QED
  BY <1>5, <1>6, <1>7, <1>8 DEF t

(* create_root on an id of its own. *)
LEMMA CreateRootEffect ==
    ASSUME NEW n \in Nat, NEW s, StoreType(s, n)
    PROVE  LET t == CreateRoot(s, n + 1) IN
           /\ StoreType(t, n + 1)
           /\ Effect(s, t, {n + 1})
           /\ n + 1 \in DOMAIN t
           /\ t[n + 1].state = "unavailable"
<1> DEFINE t == CreateRoot(s, n + 1)
           rec == [state |-> "unavailable", parent |-> NoCandidate, children |-> {},
                   generation |-> 0, cursor |-> StartCursor, scores |-> <<>>]
<1>1. rec \in Candidate
  BY DEF Candidate, CandidateState, NoCandidate, StartCursor, Cursor
<1>2. t = [d \in DOMAIN s \cup {n + 1} |-> IF d = n + 1 THEN rec ELSE s[d]]
  BY DEF CreateRoot, Add
<1>3. rec.state = "unavailable"
  OBVIOUS
<1> HIDE DEF t, rec
<1>4. /\ DOMAIN t = DOMAIN s \cup {n + 1} /\ n + 1 \notin DOMAIN s
      /\ t[n + 1] = rec
      /\ \A c \in DOMAIN s : t[c] = s[c]
  BY <1>2 DEF StoreType
<1>5. StoreType(t, n + 1) /\ Effect(s, t, {n + 1})
  BY <1>1, <1>4 DEF StoreType, Effect
<1>6. QED
  BY <1>3, <1>4, <1>5 DEF t

(* set_state changes the state of the candidates it is given, nothing else. *)
LEMMA SetStateEffect ==
    ASSUME NEW n \in Nat, NEW s, StoreType(s, n), NEW C, NEW st \in CandidateState
    PROVE  LET t == SetState(s, C, st) IN
           /\ StoreType(t, n)
           /\ Effect(s, t, C)
           /\ DOMAIN t = DOMAIN s
           /\ \A c \in DOMAIN s : /\ t[c].scores = s[c].scores
                                  /\ c \in C => t[c].state = st
BY DEF SetState, StoreType, Effect, Candidate

(* set_progress changes a cursor, nothing else. *)
LEMMA SetProgressEffect ==
    ASSUME NEW n \in Nat, NEW s, StoreType(s, n), NEW p, NEW cursor \in Cursor
    PROVE  LET t == SetProgress(s, p, cursor) IN
           /\ StoreType(t, n)
           /\ Effect(s, t, {})
BY DEF SetProgress, StoreType, Effect, Candidate

(* update_summary_scores changes the scores of one candidate. *)
LEMMA UpdateScoresEffect ==
    ASSUME NEW n \in Nat, NEW s, StoreType(s, n), NEW c, NEW v \in ScoreList
    PROVE  /\ StoreType(UpdateScores(s, c, v), n)
           /\ Effect(s, UpdateScores(s, c, v), {c})
           /\ DOMAIN UpdateScores(s, c, v) = DOMAIN s
           /\ c \in DOMAIN s => /\ UpdateScores(s, c, v)[c].state = s[c].state
                                /\ UpdateScores(s, c, v)[c].scores = v
BY DEF UpdateScores, StoreType, Effect, Candidate, ScoreList

(* A candidate that joins the pool with its scores: nothing else changes.   *)
JoinsPool(s, c, v) == SetState(UpdateScores(s, c, v), {c}, "pending")

LEMMA JoinsPoolEffect ==
    ASSUME NEW n \in Nat, NEW s, StoreType(s, n), NEW c, NEW v \in ScoreList
    PROVE  /\ StoreType(JoinsPool(s, c, v), n)
           /\ Effect(s, JoinsPool(s, c, v), {c})
           /\ DOMAIN JoinsPool(s, c, v) = DOMAIN s
           /\ c \in DOMAIN s => /\ JoinsPool(s, c, v)[c].state = "pending"
                                /\ JoinsPool(s, c, v)[c].scores = v
<1> DEFINE mid == UpdateScores(s, c, v)
           t == SetState(mid, {c}, "pending")
<1>1. /\ StoreType(mid, n) /\ Effect(s, mid, {c}) /\ DOMAIN mid = DOMAIN s
      /\ c \in DOMAIN s => mid[c].scores = v
  BY UpdateScoresEffect
<1> HIDE DEF mid
<1>2. /\ StoreType(t, n) /\ Effect(mid, t, {c}) /\ DOMAIN t = DOMAIN mid
      /\ \A d \in DOMAIN mid : /\ t[d].scores = mid[d].scores
                               /\ d \in {c} => t[d].state = "pending"
  BY <1>1, SetStateEffect DEF CandidateState
<1>3. t = JoinsPool(s, c, v)
  BY DEF JoinsPool, mid
<1> HIDE DEF t
<1>4. Effect(s, t, {c})
  BY <1>1, <1>2 DEF Effect
<1>5. QED
  BY <1>1, <1>2, <1>3, <1>4

(* retire deletes its candidates or makes them unavailable. *)
LEMMA RetireEffect ==
    ASSUME NEW n \in Nat, NEW s, StoreType(s, n), NEW C
    PROVE  LET t == Retire(s, C) IN
           /\ StoreType(t, n)
           /\ Effect(s, t, C)
           /\ \A c \in C \cap DOMAIN t : t[c].state = "unavailable"
<1>1. CASE CleanupUnavailable
  <2>1. Retire(s, C) = [c \in DOMAIN s \ C |-> [s[c] EXCEPT !.children = @ \ C]]
    BY <1>1 DEF Retire, Delete
  <2>2. \A c \in DOMAIN s : [s[c] EXCEPT !.children = @ \ C] \in Candidate
    BY DEF StoreType, Candidate
  <2>3. \A c \in DOMAIN s : /\ [s[c] EXCEPT !.children = @ \ C].state = s[c].state
                            /\ [s[c] EXCEPT !.children = @ \ C].scores = s[c].scores
    BY DEF StoreType, Candidate
  <2>4. QED
    BY <2>1, <2>2, <2>3 DEF StoreType, Effect
<1>2. CASE ~CleanupUnavailable
  BY <1>2, SetStateEffect DEF Retire, CandidateState
<1>3. QED
  BY <1>1, <1>2

(* After the startup recovery nothing is evolving, and whoever is alive was  *)
(* alive before, with the same scores.                                     *)
LEMMA RecoverEffect ==
    ASSUME NEW n \in Nat, NEW s, StoreType(s, n)
    PROVE  LET t == Recover(s) IN
           /\ StoreType(t, n)
           /\ Evolving(t) = {}
           /\ \A c \in DOMAIN t :
                 /\ c \in DOMAIN s /\ t[c].scores = s[c].scores
                 /\ t[c].state # "unavailable" => s[c].state # "unavailable"
<1> DEFINE kept == IF CleanupUnavailable
                   THEN Delete(s, PoolByState(s, {"unavailable"})) ELSE s
           t == SetState(kept, PoolByState(kept, {"evolving"}), "pending")
<1>1. /\ StoreType(kept, n)
      /\ \A c \in DOMAIN kept : /\ c \in DOMAIN s /\ kept[c].state = s[c].state
                                /\ kept[c].scores = s[c].scores
  <2>1. CASE CleanupUnavailable
    <3> DEFINE C == PoolByState(s, {"unavailable"})
    <3>1. kept = Retire(s, C)
      BY <2>1 DEF Retire
    <3>2. \A c \in DOMAIN kept : c \in DOMAIN s \ C
      BY <2>1 DEF Delete
    <3> HIDE DEF kept, C
    <3>3. QED
      BY <3>1, <3>2, RetireEffect DEF Effect
  <2>2. CASE ~CleanupUnavailable
    BY <2>2
  <2>3. QED
    BY <2>1, <2>2
<1>2. Recover(s) = t
  BY DEF Recover
<1> HIDE DEF kept
<1>3. /\ StoreType(t, n) /\ DOMAIN t = DOMAIN kept
      /\ \A c \in DOMAIN kept : t[c].scores = kept[c].scores
      /\ \A c \in PoolByState(kept, {"evolving"}) : t[c].state = "pending"
      /\ \A c \in DOMAIN kept \ PoolByState(kept, {"evolving"}) : t[c].state = kept[c].state
  BY <1>1, SetStateEffect DEF CandidateState, Effect, PoolByState
<1> HIDE DEF t
<1>4. Evolving(t) = {}
  BY <1>3 DEF Evolving, PoolByState
<1>5. \A c \in DOMAIN t : t[c].state # "unavailable" => s[c].state # "unavailable"
  BY <1>1, <1>3 DEF PoolByState
<1>6. QED
  BY <1>1, <1>2, <1>3, <1>4, <1>5

-----------------------------------------------------------------------------
(* The inductive invariant. *)

(* The children a slot works on are in its chain as long as it needs them. *)
LocalOK(t, n) ==
    /\ t.pc \in {"propose", "child", "reflect", "chain"} => t.child \in t.chain
    /\ t.pc \in {"reflect", "chain", "validate"} => t.best \in t.chain
    /\ t.child <= n

(* A candidate outside the pool may lack scores, one inside may not.        *)
Scored(s) == \A c \in DOMAIN s : s[c].state # "unavailable" => s[c].scores \in ValScores

Parents == {tasks[i].parent : i \in Running}

(* No slot runs before the loop starts, nor after the process died.         *)
Quiet == main \in {"start", "baseline", "down"} => Running = {}

(* A slot's iteration has been counted, so the next one is a fresh index.   *)
Counted == \A i \in Running : i <= stats.iteration

(* SlotOwnership, before the loop starts too.                               *)
Ownership ==
    main # "down" =>
      /\ \A i, j \in Running : tasks[i].parent = tasks[j].parent => i = j
      /\ Evolving(store) = Parents

Chains ==
    \A i \in Running :
      /\ \A c \in tasks[i].chain : c \in DOMAIN store /\ store[c].state = "unavailable"
      /\ LocalOK(tasks[i], lastId)
      /\ \A j \in Running \ {i} : tasks[i].chain \cap tasks[j].chain = {}

IInv ==
    /\ TypeOK /\ PermitsBalance /\ Scored(store)
    /\ Quiet /\ Counted /\ Ownership /\ Chains

SlotsRun == main \in {"acquire", "wait", "drain"}
-----------------------------------------------------------------------------
(* Lemmas about the operators. *)

(* eliminate retires pending candidates only.                               *)
LEMMA EliminatedPending ==
    ASSUME NEW s
    PROVE  EA!Eliminated(s) \subseteq {c \in DOMAIN s : s[c].state = "pending"}
BY DEF EA!Eliminated, EA!InPool

LEMMA ConstantTypes ==
    /\ NumProposals \in Nat \ {0} /\ MaxIterations \in Nat /\ MaxRestarts \in Nat
    /\ DatasetSize \in Nat /\ BatchSize \in Nat /\ PerfectSum \in Nat /\ ValSize \in Nat
BY OptimizerAssumption

LEMMA BatchLengthType == BatchLength \in Nat
BY ConstantTypes DEF BatchLength

(* A val score list is a sequence of scores.                                *)
LEMMA ScoreLists == ASSUME NEW v \in ValScores PROVE v \in ScoreList
<1>1. v \in [1 .. ValSize -> Nat] /\ ValSize \in Nat
  BY OptimizerAssumption
<1>2. QED
  BY <1>1 DEF ScoreList

LEMMA CountTypes ==
    ASSUME NEW st \in Statistics
    PROVE  /\ CountTrain(st) \in Statistics /\ CountTrain(st).iteration = st.iteration
           /\ CountVal(st) \in Statistics /\ CountVal(st).iteration = st.iteration
<1>1. /\ st.rollouts + BatchLength \in Nat /\ st.systemRuns + BatchLength \in Nat
      /\ st.systemRuns + ValSize \in Nat
  BY BatchLengthType, ConstantTypes DEF Statistics
<1>2. CountTrain(st) \in Statistics /\ CountTrain(st).iteration = st.iteration
  BY <1>1 DEF CountTrain, Statistics
<1>3. CountVal(st) \in Statistics /\ CountVal(st).iteration = st.iteration
  BY <1>1 DEF CountVal, Statistics
<1>4. QED
  BY <1>2, <1>3

(* Recording an iteration keeps the statistics' type: the best candidate is *)
(* alive, so it has a val score list.                                      *)
LEMMA BookedType ==
    ASSUME stats \in Statistics, NEW s, StoreType(s, lastId), lastId \in Nat, Scored(s),
           NEW accepted \in BOOLEAN
    PROVE  /\ Booked(s, accepted) \in Statistics
           /\ Booked(s, accepted).iteration = stats.iteration
<1> DEFINE counted == [stats EXCEPT !.total = @ + (IF accepted THEN 1 ELSE 0),
                                    !.rejected = @ + (IF accepted THEN 0 ELSE 1)]
           b == CHOOSE c \in BestCandidates(s) : TRUE
           avg == EA!AvgScore(s[b].scores)
<1>1. counted \in Statistics /\ counted.iteration = stats.iteration
  <2>1. stats.total \in Nat /\ stats.rejected \in Nat
    BY DEF Statistics
  <2>2. /\ stats.total + (IF accepted THEN 1 ELSE 0) \in Nat
        /\ stats.rejected + (IF accepted THEN 0 ELSE 1) \in Nat
    BY <2>1
  <2>3. QED
    BY <2>2 DEF Statistics
<1>2. CASE BestCandidates(s) = {}
  BY <1>1, <1>2 DEF Booked
<1>3. CASE BestCandidates(s) # {}
  <2>1. b \in BestCandidates(s)
    BY <1>3
  <2>2. b \in DOMAIN s /\ s[b].state \in {"pending", "evolving"}
    BY <2>1 DEF BestCandidates, EA!Alive, EA!InPool
  <2>3. b \in Nat /\ s[b].scores \in ValScores
    BY <2>2 DEF StoreType, Scored
  <2> HIDE DEF counted, b
  <2>4. avg \in Averages
    BY <2>3 DEF Averages
  <2>5. Booked(s, accepted) = [counted EXCEPT !.best = b, !.bestAvg = avg]
    BY <1>3 DEF Booked, counted, b
  <2> HIDE DEF avg
  <2>6. QED
    BY <1>1, <2>3, <2>4, <2>5 DEF Statistics
<1>4. QED
  BY <1>2, <1>3
-----------------------------------------------------------------------------
(* The three ways a slot changes the state.  Each lemma says what a step    *)
(* must do to keep the invariant; the actions below are shown to do it.    *)

LEMMA RunningFinite == IsFiniteSet(Running)
<1>1. IsFiniteSet(Iterations)
  BY ConstantTypes, FS_Interval DEF Iterations
<1>2. QED
  BY <1>1, FS_Subset DEF Running

(* Facts every one of them starts from.                                     *)
LEMMA RunningSlot ==
    ASSUME IInv, SlotsRun, NEW i \in Running
    PROVE  /\ i \in Iterations /\ tasks[i] \in Task /\ tasks[i].pc \in Awaiting
           /\ lastId \in Nat /\ StoreType(store, lastId)
           /\ Evolving(store) = Parents
           /\ tasks[i].parent \in DOMAIN store /\ tasks[i].parent \in Nat
           /\ store[tasks[i].parent].state = "evolving"
           /\ store[tasks[i].parent] \in Candidate
<1>1. i \in Iterations /\ tasks[i] \in Task /\ tasks[i].pc \in Awaiting
  BY DEF IInv, TypeOK, Running
<1>2. lastId \in Nat /\ StoreType(store, lastId)
  BY DEF IInv, TypeOK, StoreType
<1>3. Evolving(store) = Parents
  BY DEF IInv, Ownership, SlotsRun
<1>4. tasks[i].parent \in Evolving(store)
  BY <1>3 DEF Parents
<1>5. tasks[i].parent \in DOMAIN store /\ store[tasks[i].parent].state = "evolving"
  BY <1>4 DEF Evolving, PoolByState
<1>6. QED
  BY <1>1, <1>2, <1>3, <1>5 DEF StoreType, Task

(* The slot goes on to its next await with the locals t: it touches only    *)
(* its chain and candidates it creates, and leaves none of them alive.     *)
LEMMA SlotMoves ==
    ASSUME IInv, SlotsRun, NEW i \in Running, NEW t \in Task,
           t.pc \in Awaiting, t.parent = tasks[i].parent,
           lastId' \in Nat, lastId' >= lastId, StoreType(store, lastId)',
           NEW C, C = tasks[i].chain \cup (lastId + 1 .. lastId'),
           Effect(store, store', C),
           \A c \in C \cap DOMAIN store' : store'[c].state = "unavailable",
           t.chain \subseteq C \cap DOMAIN store', LocalOK(t, lastId'),
           tasks' = [tasks EXCEPT ![i] = t],
           stats' \in Statistics, stats'.iteration = stats.iteration,
           UNCHANGED <<saved, recorded, main, permits, awaited, limitHit, restarts>>
    PROVE  IInv'
<1>1. i \in Iterations /\ tasks \in [Iterations -> Task]
  BY DEF IInv, TypeOK, Running
<1>2. /\ tasks' \in [Iterations -> Task] /\ tasks'[i] = t
      /\ \A j \in Iterations \ {i} : tasks'[j] = tasks[j]
  BY <1>1
<1>3. Running' = Running
  BY <1>1, <1>2 DEF Running
<1>4. Parents' = Parents
  BY <1>1, <1>2, <1>3 DEF Parents, Running
<1>5. C \cap Evolving(store) = {}
  <2>1. \A c \in tasks[i].chain : c \notin Evolving(store)
    BY DEF IInv, Chains, Evolving, PoolByState
  <2>2. \A c \in lastId + 1 .. lastId' : c \notin DOMAIN store
    BY DEF IInv, TypeOK
  <2>3. QED
    BY <2>1, <2>2 DEF Evolving, PoolByState
<1>6. Evolving(store)' = Evolving(store)
  BY <1>5 DEF Effect, Evolving, PoolByState
<1>7. TypeOK'
  BY <1>2 DEF IInv, TypeOK, StoreType
<1>8. PermitsBalance'
  BY <1>3 DEF IInv, PermitsBalance
<1>9. Scored(store)'
  BY DEF IInv, Scored, Effect
<1>10. Quiet' /\ Counted'
  BY <1>3 DEF IInv, Quiet, Counted
<1>11. Ownership'
  <2>1. \A j \in Running : tasks'[j].parent = tasks[j].parent
    BY <1>2 DEF Running
  <2>2. main' = main /\ Ownership
    BY DEF IInv
  <2> QED
    BY <1>3, <1>4, <1>6, <2>1, <2>2 DEF Ownership
<1>12. Chains'
  <2>1. \A j \in Running \ {i} : /\ tasks'[j] = tasks[j]
                                 /\ tasks[j].chain \cap C = {}
    <3> TAKE j \in Running \ {i}
    <3>1. tasks'[j] = tasks[j]
      BY <1>2 DEF Running
    <3>2. tasks[j].chain \cap tasks[i].chain = {}
      BY DEF IInv, Chains
    <3>3. \A c \in tasks[j].chain : c \in DOMAIN store /\ c \in 1 .. lastId
      BY DEF IInv, Chains, TypeOK
    <3>4. lastId \in Nat /\ \A c \in lastId + 1 .. lastId' : c \notin 1 .. lastId
      BY DEF IInv, TypeOK
    <3>5. QED
      BY <3>1, <3>2, <3>3, <3>4
  <2>2. ASSUME NEW j \in Running \ {i}
        PROVE  /\ \A c \in tasks'[j].chain : c \in DOMAIN store' /\ store'[c].state = "unavailable"
               /\ LocalOK(tasks'[j], lastId')
    <3>1. \A c \in tasks[j].chain : c \in DOMAIN store /\ store[c].state = "unavailable"
      BY DEF IInv, Chains
    <3>2. LocalOK(tasks[j], lastId) /\ tasks[j] \in Task
      BY DEF IInv, Chains, TypeOK, Running
    <3>3. LocalOK(tasks[j], lastId')
      BY <3>2 DEF LocalOK, Task, IInv, TypeOK
    <3>4. QED
      BY <2>1, <3>1, <3>3 DEF Effect
  <2>3. \A c \in t.chain : c \in DOMAIN store' /\ store'[c].state = "unavailable"
    OBVIOUS
  <2>4. \A j, k \in Running : j # k => tasks'[j].chain \cap tasks'[k].chain = {}
    <3> SUFFICES ASSUME NEW j \in Running, NEW k \in Running, j # k
                 PROVE  tasks'[j].chain \cap tasks'[k].chain = {}
      OBVIOUS
    <3>1. CASE j # i /\ k # i
      BY <2>1, <3>1 DEF IInv, Chains
    <3>2. CASE j = i
      BY <1>2, <2>1, <3>2
    <3>3. CASE k = i
      BY <1>2, <2>1, <3>3
    <3>4. QED
      BY <3>1, <3>2, <3>3
  <2>5. QED
    BY <1>2, <1>3, <2>2, <2>3, <2>4 DEF Chains
<1>13. QED
  BY <1>7, <1>8, <1>9, <1>10, <1>11, <1>12 DEF IInv

(* The slot ends with the store s, in which its parent is no longer evolving *)
(* and every other slot finds its candidates as they were.                 *)
LEMMA SlotEnds ==
    ASSUME IInv, SlotsRun, NEW i \in Running, NEW s, NEW accepted \in BOOLEAN,
           EndSlot(i, s, accepted),
           StoreType(s, lastId), Scored(s),
           Evolving(s) = Evolving(store) \ {tasks[i].parent},
           \A c \in DOMAIN store \ tasks[i].chain :
               store[c].state = "unavailable" => c \in DOMAIN s /\ s[c].state = "unavailable"
    PROVE  IInv'
<1>1. i \in Iterations /\ tasks \in [Iterations -> Task] /\ lastId \in Nat
  BY DEF IInv, TypeOK, Running
<1>2. store' = s /\ lastId' = lastId /\ main' = main
  BY DEF EndSlot
<1>3. IdleTask("released") \in Task /\ IdleTask("released").pc \notin Awaiting
  BY DEF IdleTask, Task, TaskPC, Awaiting, NoCandidate, StartCursor, Cursor
<1>4. /\ tasks' \in [Iterations -> Task] /\ tasks'[i] = IdleTask("released")
      /\ \A j \in Iterations \ {i} : tasks'[j] = tasks[j]
  BY <1>1, <1>3 DEF EndSlot
<1>5. Running' = Running \ {i}
  BY <1>1, <1>3, <1>4 DEF Running
<1>6. \A j \in Running' : tasks'[j] = tasks[j] /\ j \in Running
  BY <1>4, <1>5 DEF Running
<1>7. /\ IsFiniteSet(Running)
      /\ Cardinality(Running') = Cardinality(Running) - 1
      /\ Cardinality(Running) \in Nat /\ Cardinality(Running') \in Nat
  BY <1>5, RunningFinite, FS_RemoveElement, FS_CardinalityType
<1>8. permits' = permits + 1 /\ permits \in 0 .. NumProposals
  BY DEF EndSlot, IInv, TypeOK
<1>9. PermitsBalance'
  BY <1>7, <1>8 DEF IInv, PermitsBalance
<1>10. permits' \in 0 .. NumProposals
  BY <1>7, <1>8, <1>9, ConstantTypes DEF PermitsBalance
<1>11. stats' \in Statistics /\ saved' = stats' /\ stats'.iteration = stats.iteration
  <2>1. stats \in Statistics
    BY DEF IInv, TypeOK
  <2>2. stats' = Booked(s, accepted) /\ saved' = stats'
    BY DEF EndSlot
  <2>3. QED
    BY <1>1, <2>1, <2>2, BookedType
<1>12. TypeOK'
  <2>1. recorded' \in Nat /\ UNCHANGED <<awaited, limitHit, restarts>>
    BY DEF EndSlot, IInv, TypeOK
  <2>2. QED
    BY <1>1, <1>2, <1>4, <1>10, <1>11, <2>1 DEF IInv, TypeOK, StoreType
<1>13. Scored(store)' /\ Quiet' /\ Counted'
  BY <1>2, <1>5, <1>11 DEF IInv, Scored, Quiet, Counted
<1>14. Ownership'
  <2>1. \A j, k \in Running : tasks[j].parent = tasks[k].parent => j = k
    BY DEF IInv, Ownership, SlotsRun
  <2>2. Evolving(store) = Parents
    BY DEF IInv, Ownership, SlotsRun
  <2>3. Parents' = Parents \ {tasks[i].parent}
    BY <1>5, <1>6, <2>1 DEF Parents
  <2>4. QED
    BY <1>2, <1>6, <2>1, <2>2, <2>3 DEF Ownership
<1>15. Chains'
  <2>1. ASSUME NEW j \in Running'
        PROVE  /\ \A c \in tasks[j].chain : c \in DOMAIN s /\ s[c].state = "unavailable"
               /\ LocalOK(tasks[j], lastId)
    <3>1. tasks[j].chain \cap tasks[i].chain = {}
      BY <1>5 DEF IInv, Chains
    <3>2. \A c \in tasks[j].chain : c \in DOMAIN store /\ store[c].state = "unavailable"
      BY <1>5 DEF IInv, Chains
    <3>3. LocalOK(tasks[j], lastId)
      BY <1>5 DEF IInv, Chains
    <3>4. QED
      BY <3>1, <3>2, <3>3
  <2>2. \A j \in Running' : \A k \in Running' \ {j} : tasks[j].chain \cap tasks[k].chain = {}
    BY <1>5 DEF IInv, Chains
  <2>3. QED
    BY <1>2, <1>6, <2>1, <2>2 DEF Chains
<1>16. QED
  BY <1>9, <1>12, <1>13, <1>14, <1>15 DEF IInv

(* The slot completes: its parent returns to the pool with a new cursor and *)
(* the pool is eliminated.  It may start from any store s that still has   *)
(* the evolving candidates and the other slots' chains.                    *)
LEMMA SlotCompletes ==
    ASSUME IInv, SlotsRun, NEW i \in Running, NEW s, NEW accepted \in BOOLEAN,
           Completed(i, s, accepted),
           StoreType(s, lastId), Scored(s), Evolving(s) = Evolving(store),
           \A c \in DOMAIN store \ tasks[i].chain :
               store[c].state = "unavailable" => c \in DOMAIN s /\ s[c].state = "unavailable"
    PROVE  IInv'
<1> DEFINE p == tasks[i].parent
           moved == SetProgress(s, p, tasks[i].advanced)
           back == SetState(moved, {p}, "pending")
           out == Retire(back, EA!Eliminated(back))
<1>1. EndSlot(i, out, accepted)
  BY DEF Completed
<1>2. p \in Evolving(store) /\ p \in Evolving(s) /\ lastId \in Nat
  BY RunningSlot DEF Parents
<1>3. p \in DOMAIN s /\ s[p].state = "evolving" /\ s[p].scores \in ValScores
  BY <1>2 DEF Evolving, PoolByState, Scored
<1>4. tasks[i].advanced \in Cursor
  BY RunningSlot DEF Task
<1>5. StoreType(moved, lastId) /\ Effect(s, moved, {})
  BY <1>2, <1>4, SetProgressEffect
<1> HIDE DEF moved
<1>6. /\ StoreType(back, lastId) /\ Effect(moved, back, {p}) /\ DOMAIN back = DOMAIN moved
      /\ \A c \in DOMAIN moved : /\ back[c].scores = moved[c].scores
                                 /\ c = p => back[c].state = "pending"
  BY <1>2, <1>5, SetStateEffect DEF CandidateState
<1> DEFINE E == EA!Eliminated(back)
<1>7. \A c \in E : c \in DOMAIN back /\ back[c].state = "pending"
  BY EliminatedPending
<1> HIDE DEF back, E, p
<1>8. /\ StoreType(out, lastId) /\ Effect(back, out, E)
      /\ \A c \in E \cap DOMAIN out : out[c].state = "unavailable"
  BY <1>2, <1>6, RetireEffect DEF E
<1> HIDE DEF out
<1>9. /\ DOMAIN back = DOMAIN s
      /\ back[p].state = "pending" /\ back[p].scores = s[p].scores
      /\ \A c \in DOMAIN s \ {p} : back[c].state = s[c].state /\ back[c].scores = s[c].scores
  BY <1>3, <1>5, <1>6 DEF Effect
<1>10. Scored(out)
  <2>1. Scored(back)
    BY <1>3, <1>9 DEF Scored
  <2>2. QED
    BY <1>8, <2>1 DEF Scored, Effect
<1>11. Evolving(out) = Evolving(store) \ {p}
  <2>1. Evolving(back) = Evolving(s) \ {p}
    BY <1>9 DEF Evolving, PoolByState
  <2>2. Evolving(out) = Evolving(back)
    BY <1>7, <1>8 DEF Evolving, PoolByState, Effect
  <2>3. QED
    BY <2>1, <2>2
<1>12. ASSUME NEW c \in DOMAIN store \ tasks[i].chain, store[c].state = "unavailable"
       PROVE  c \in DOMAIN out /\ out[c].state = "unavailable"
  <2>1. c \in DOMAIN s /\ s[c].state = "unavailable" /\ c # p
    BY <1>3, <1>12
  <2>2. c \in DOMAIN back /\ back[c].state = "unavailable" /\ c \notin E
    BY <1>7, <1>9, <2>1
  <2>3. QED
    BY <1>8, <2>2 DEF Effect
<1>13. QED
  BY <1>1, <1>8, <1>10, <1>11, <1>12, SlotEnds DEF p
-----------------------------------------------------------------------------
(* The slots' shared helpers keep the invariant. *)

(* A slot that starts a rollout keeps or shrinks its chain.                 *)
LEMMA AwaitRolloutKeeps ==
    ASSUME IInv, SlotsRun, NEW i \in Running, NEW t \in Task, NEW st \in Statistics,
           AwaitRollout(i, t, st), lastId' = lastId, store' = store,
           st.iteration = stats.iteration,
           t.pc \in Awaiting, t.parent = tasks[i].parent, t.chain = tasks[i].chain,
           LocalOK(t, lastId)
    PROVE  IInv'
<1>1. lastId \in Nat /\ StoreType(store, lastId)
  BY RunningSlot
<1>2. tasks[i].chain \cup (lastId + 1 .. lastId') = tasks[i].chain
  BY <1>1
<1>3. \A c \in tasks[i].chain : c \in DOMAIN store /\ store[c].state = "unavailable"
  BY DEF IInv, Chains
<1>4. Effect(store, store', tasks[i].chain)
  BY DEF Effect
<1>5. /\ tasks' = [tasks EXCEPT ![i] = t]
      /\ stats' \in Statistics /\ stats'.iteration = stats.iteration
      /\ UNCHANGED <<saved, recorded, main, permits, awaited, limitHit, restarts>>
  BY DEF AwaitRollout
<1>6. LocalOK(t, lastId') /\ lastId' \in Nat /\ lastId' >= lastId /\ StoreType(store, lastId)'
  BY <1>1
<1>7. QED
  BY <1>2, <1>3, <1>4, <1>5, <1>6, SlotMoves

(* A slot that creates a child of an existing candidate adds it to its chain. *)
LEMMA AwaitProposerKeeps ==
    ASSUME IInv, SlotsRun, NEW i \in Running, NEW from \in DOMAIN store, NEW cursor \in Cursor,
           NEW t \in Task, AwaitProposer(i, from, cursor, t),
           t.pc \in {"propose", "reflect"}, t.parent = tasks[i].parent,
           t.chain = tasks[i].chain, t.pc = "reflect" => t.best \in t.chain
    PROVE  IInv'
<1> DEFINE u == [t EXCEPT !.child = lastId', !.chain = @ \cup {lastId'}]
           C == tasks[i].chain \cup (lastId + 1 .. lastId')
<1>1. lastId \in Nat /\ StoreType(store, lastId) /\ lastId' = lastId + 1
  BY RunningSlot DEF AwaitProposer
<1>2. lastId + 1 .. lastId' = {lastId + 1}
  BY <1>1
<1>3. store' = CreateChild(store, from, lastId + 1, cursor)
  BY <1>1 DEF AwaitProposer
<1>4. /\ StoreType(store, lastId)' /\ Effect(store, store', {lastId + 1})
      /\ lastId + 1 \in DOMAIN store' /\ store'[lastId + 1].state = "unavailable"
  BY <1>1, <1>3, CreateChildEffect
<1>5. \A c \in tasks[i].chain : c \in DOMAIN store /\ store[c].state = "unavailable"
  BY DEF IInv, Chains
<1>6. Effect(store, store', C)
  BY <1>2, <1>4 DEF Effect
<1>7. \A c \in C : c \in DOMAIN store' /\ store'[c].state = "unavailable"
  <2>1. \A c \in tasks[i].chain : c # lastId + 1
    BY <1>1, <1>5 DEF StoreType
  <2>2. QED
    BY <1>2, <1>4, <1>5, <2>1 DEF Effect
<1>8. /\ u \in Task /\ u.pc = t.pc /\ u.parent = tasks[i].parent /\ u.best = t.best
      /\ u.child = lastId + 1 /\ u.chain = tasks[i].chain \cup {lastId + 1}
  <2>1. lastId' \in Nat /\ t.chain \cup {lastId'} \in SUBSET Nat
    BY <1>1 DEF Task
  <2>2. QED
    BY <1>1, <2>1 DEF Task
<1>9. LocalOK(u, lastId') /\ u.pc \in Awaiting
  BY <1>1, <1>8 DEF LocalOK, Awaiting
<1>10. /\ tasks' = [tasks EXCEPT ![i] = u]
       /\ stats' = stats /\ stats \in Statistics
       /\ UNCHANGED <<saved, recorded, main, permits, awaited, limitHit, restarts>>
  BY DEF AwaitProposer, IInv, TypeOK
<1> HIDE DEF u, C
<1>11. u.chain \subseteq C \cap DOMAIN store'
  BY <1>2, <1>7, <1>8 DEF C
<1>12. lastId' \in Nat /\ lastId' >= lastId
  BY <1>1
<1>13. QED
  BY <1>4, <1>6, <1>7, <1>8, <1>9, <1>10, <1>11, <1>12, SlotMoves DEF C

(* Retiring the chain of a slot is not seen by the pool or the other slots. *)
LEMMA RetireChain ==
    ASSUME IInv, SlotsRun, NEW i \in Running
    PROVE  LET s == Retire(store, tasks[i].chain) IN
           /\ StoreType(s, lastId) /\ Scored(s) /\ Evolving(s) = Evolving(store)
           /\ \A c \in DOMAIN store \ tasks[i].chain :
                 store[c].state = "unavailable" => c \in DOMAIN s /\ s[c].state = "unavailable"
<1> DEFINE s == Retire(store, tasks[i].chain)
<1>1. lastId \in Nat /\ StoreType(store, lastId)
  BY RunningSlot
<1>2. /\ StoreType(s, lastId) /\ Effect(store, s, tasks[i].chain)
      /\ \A c \in tasks[i].chain \cap DOMAIN s : s[c].state = "unavailable"
  BY <1>1, RetireEffect
<1> HIDE DEF s
<1>3. \A c \in tasks[i].chain : c \in DOMAIN store /\ store[c].state = "unavailable"
  BY DEF IInv, Chains
<1>4. Scored(s)
  BY <1>2 DEF IInv, Scored, Effect
<1>5. Evolving(s) = Evolving(store)
  BY <1>2, <1>3 DEF Effect, Evolving, PoolByState
<1>6. QED
  BY <1>2, <1>4, <1>5 DEF Effect, s

(* A chain that ends on one of its candidates keeps at most that one.       *)
LEMMA EndChainKeeps ==
    ASSUME IInv, SlotsRun, NEW i \in Running, NEW b \in tasks[i].chain, NEW sum \in Nat,
           EndChain(i, b, sum)
    PROVE  IInv'
<1> DEFINE t == [tasks[i] EXCEPT !.pc = "validate", !.best = b, !.bestSum = sum, !.chain = {b}]
           C == tasks[i].chain
<1>1. /\ lastId \in Nat /\ StoreType(store, lastId) /\ tasks[i] \in Task
      /\ tasks[i].pc \in Awaiting
  BY RunningSlot
<1>2. \A c \in C : c \in DOMAIN store /\ store[c].state = "unavailable"
  BY DEF IInv, Chains
<1>3. CASE sum > tasks[i].parentSum
  <2>1. /\ store' = Retire(store, C \ {b}) /\ lastId' = lastId
        /\ AwaitRollout(i, t, CountVal(stats))
    BY <1>3 DEF EndChain
  <2>2. /\ StoreType(store, lastId)' /\ Effect(store, store', C \ {b})
        /\ \A c \in (C \ {b}) \cap DOMAIN store' : store'[c].state = "unavailable"
    BY <1>1, <2>1, RetireEffect
  <2>3. b \in DOMAIN store' /\ store'[b].state = "unavailable"
    BY <1>2, <2>2 DEF Effect
  <2>4. Effect(store, store', C)
    BY <2>2 DEF Effect
  <2>5. b \in Nat
    BY <1>1, <1>2 DEF StoreType
  <2>6. /\ t \in Task /\ t.pc = "validate" /\ t.parent = tasks[i].parent
        /\ t.chain = {b} /\ t.best = b /\ t.child = tasks[i].child
    <3>1. {b} \in SUBSET Nat /\ "validate" \in TaskPC
      BY <2>5 DEF TaskPC, Awaiting
    <3>2. QED
      BY <1>1, <2>5, <3>1 DEF Task
  <2>7. LocalOK(t, lastId') /\ t.pc \in Awaiting
    <3>1. LocalOK(tasks[i], lastId)
      BY DEF IInv, Chains
    <3>2. QED
      BY <2>1, <2>6, <3>1 DEF LocalOK, Awaiting
  <2>8. /\ tasks' = [tasks EXCEPT ![i] = t]
        /\ stats' \in Statistics /\ stats'.iteration = stats.iteration
        /\ UNCHANGED <<saved, recorded, main, permits, awaited, limitHit, restarts>>
    BY <2>1, CountTypes DEF AwaitRollout, IInv, TypeOK
  <2> HIDE DEF t
  <2>9. C \cup (lastId + 1 .. lastId') = C
    BY <1>1, <2>1
  <2>10. lastId' \in Nat /\ lastId' >= lastId
    BY <1>1, <2>1
  <2>11. t.chain \subseteq C \cap DOMAIN store'
    BY <2>3, <2>6
  <2>12. \A c \in C \cap DOMAIN store' : store'[c].state = "unavailable"
    BY <2>2, <2>3
  <2>13. QED
    BY <2>2, <2>4, <2>6, <2>7, <2>8, <2>9, <2>10, <2>11, <2>12, SlotMoves
<1>4. CASE ~(sum > tasks[i].parentSum)
  <2>1. Completed(i, Retire(store, C), FALSE)
    BY <1>4 DEF EndChain
  <2>2. QED
    BY <2>1, RetireChain, SlotCompletes
<1>5. QED
  BY <1>3, <1>4
-----------------------------------------------------------------------------
(* The steps of a slot. *)

(* A slot that completes without an accepted child or a chain.              *)
LEMMA KeepsStore ==
    ASSUME IInv, SlotsRun, NEW i \in Running
    PROVE  /\ StoreType(store, lastId) /\ Scored(store)
           /\ LocalOK(tasks[i], lastId)
BY RunningSlot DEF IInv, Chains

LEMMA SlotStartKeeps ==
    ASSUME IInv, SlotsRun, NEW i \in Running, SlotStart(i)
    PROVE  IInv'
<1> DEFINE adv == Advance(DatasetSize, BatchSize, store[tasks[i].parent].cursor)
           t == [tasks[i] EXCEPT !.pc = "parent", !.advanced = adv]
<1>1. tasks[i] \in Task /\ store[tasks[i].parent].cursor \in Cursor
  BY RunningSlot DEF Candidate
<1>2. adv \in Cursor
  BY <1>1, ConstantTypes, AdvanceType
<1> HIDE DEF adv
<1>3. /\ t \in Task /\ t.pc = "parent" /\ t.parent = tasks[i].parent
      /\ t.chain = tasks[i].chain /\ t.child = tasks[i].child
  <2>1. "parent" \in TaskPC
    BY DEF TaskPC, Awaiting
  <2>2. QED
    BY <1>1, <1>2, <2>1 DEF Task
<1>4. LocalOK(t, lastId) /\ t.pc \in Awaiting
  BY <1>3, KeepsStore DEF LocalOK, Awaiting
<1>5. AwaitRollout(i, t, CountTrain(stats)) /\ lastId' = lastId /\ store' = store
  BY DEF SlotStart, adv
<1> HIDE DEF t
<1>6. CountTrain(stats) \in Statistics /\ CountTrain(stats).iteration = stats.iteration
  BY CountTypes DEF IInv, TypeOK
<1>7. QED
  BY <1>3, <1>4, <1>5, <1>6, AwaitRolloutKeeps

LEMMA ParentPerfectKeeps ==
    ASSUME IInv, SlotsRun, NEW i \in Running, ParentPerfect(i)
    PROVE  IInv'
<1>1. \A c \in DOMAIN store \ tasks[i].chain :
         store[c].state = "unavailable" => c \in DOMAIN store /\ store[c].state = "unavailable"
  OBVIOUS
<1>2. Completed(i, store, FALSE)
  BY DEF ParentPerfect
<1>3. QED
  BY <1>1, <1>2, KeepsStore, SlotCompletes

LEMMA ParentEvaluatedKeeps ==
    ASSUME IInv, SlotsRun, NEW i \in Running, ParentEvaluated(i)
    PROVE  IInv'
<1>1. PICK sum \in 0 .. PerfectSum - 1 :
         AwaitProposer(i, tasks[i].parent, tasks[i].advanced,
                       [tasks[i] EXCEPT !.pc = "propose", !.parentSum = sum])
  BY DEF ParentEvaluated
<1> DEFINE t == [tasks[i] EXCEPT !.pc = "propose", !.parentSum = sum]
<1>2. /\ tasks[i] \in Task /\ tasks[i].parent \in DOMAIN store
      /\ tasks[i].advanced \in Cursor
  BY RunningSlot DEF Task
<1>3. sum \in Nat
  BY ConstantTypes
<1>4. /\ t \in Task /\ t.pc = "propose" /\ t.parent = tasks[i].parent
      /\ t.chain = tasks[i].chain
  <2>1. "propose" \in TaskPC
    BY DEF TaskPC, Awaiting
  <2>2. QED
    BY <1>2, <1>3, <2>1 DEF Task
<1> HIDE DEF t
<1>5. AwaitProposer(i, tasks[i].parent, tasks[i].advanced, t)
  BY <1>1 DEF t
<1>6. QED
  BY <1>2, <1>4, <1>5, AwaitProposerKeeps

(* The two steps that run a child after its proposer has succeeded.         *)
LEMMA RunChildKeeps ==
    ASSUME IInv, SlotsRun, NEW i \in Running,
           Proposed(i) \/ Reflected(i)
    PROVE  IInv'
<1>1. tasks[i] \in Task /\ LocalOK(tasks[i], lastId)
  BY RunningSlot, KeepsStore
<1>2. CountTrain(stats) \in Statistics /\ CountTrain(stats).iteration = stats.iteration
  BY CountTypes DEF IInv, TypeOK
<1>3. PICK pc \in {"child", "chain"} :
         /\ AwaitRollout(i, [tasks[i] EXCEPT !.pc = pc], CountTrain(stats))
         /\ lastId' = lastId /\ store' = store
         /\ tasks[i].pc \in {"propose", "reflect"}
         /\ pc = "chain" => tasks[i].pc = "reflect"
  BY DEF Proposed, Reflected
<1> DEFINE t == [tasks[i] EXCEPT !.pc = pc]
<1>4. /\ t \in Task /\ t.pc = pc /\ t.parent = tasks[i].parent /\ t.best = tasks[i].best
      /\ t.chain = tasks[i].chain /\ t.child = tasks[i].child
  <2>1. pc \in TaskPC
    BY DEF TaskPC, Awaiting
  <2>2. QED
    BY <1>1, <2>1 DEF Task
<1>5. LocalOK(t, lastId) /\ t.pc \in Awaiting
  BY <1>1, <1>3, <1>4 DEF LocalOK, Awaiting
<1> HIDE DEF t
<1>6. AwaitRollout(i, t, CountTrain(stats))
  BY <1>3 DEF t
<1>7. QED
  BY <1>2, <1>3, <1>4, <1>5, <1>6, AwaitRolloutKeeps

LEMMA ChainRejectedKeeps ==
    ASSUME IInv, SlotsRun, NEW i \in Running,
           ProposeFailed(i) \/ ChildRejected(i)
    PROVE  IInv'
<1>1. Completed(i, Retire(store, tasks[i].chain), FALSE)
  BY DEF ProposeFailed, ChildRejected
<1>2. QED
  BY <1>1, RetireChain, SlotCompletes

LEMMA ChildAcceptedKeeps ==
    ASSUME IInv, SlotsRun, NEW i \in Running, ChildAccepted(i)
    PROVE  IInv'
<1>1. PICK sum \in 0 .. PerfectSum :
         AwaitRollout(i, [tasks[i] EXCEPT !.pc = "validate", !.best = tasks[i].child,
                                          !.bestSum = sum], CountVal(stats))
  BY DEF ChildAccepted
<1> DEFINE t == [tasks[i] EXCEPT !.pc = "validate", !.best = tasks[i].child, !.bestSum = sum]
<1>2. /\ tasks[i] \in Task /\ LocalOK(tasks[i], lastId)
      /\ tasks[i].pc = "child" /\ store' = store /\ lastId' = lastId
  BY RunningSlot, KeepsStore DEF ChildAccepted
<1>3. sum \in Nat /\ tasks[i].child \in Nat /\ "validate" \in TaskPC
  BY <1>2, ConstantTypes DEF Task, TaskPC, Awaiting
<1>4. /\ t \in Task /\ t.pc = "validate" /\ t.parent = tasks[i].parent
      /\ t.best = tasks[i].child /\ t.chain = tasks[i].chain /\ t.child = tasks[i].child
  BY <1>2, <1>3 DEF Task
<1>5. LocalOK(t, lastId) /\ t.pc \in Awaiting
  BY <1>2, <1>4 DEF LocalOK, Awaiting
<1>6. CountVal(stats) \in Statistics /\ CountVal(stats).iteration = stats.iteration
  BY CountTypes DEF IInv, TypeOK
<1> HIDE DEF t
<1>7. AwaitRollout(i, t, CountVal(stats))
  BY <1>1 DEF t
<1>8. QED
  BY <1>2, <1>4, <1>5, <1>6, <1>7, AwaitRolloutKeeps

(* The next level of reflection starts from a child of the slot's own chain. *)
LEMMA NextReflectionKeeps ==
    ASSUME IInv, SlotsRun, NEW i \in Running, tasks[i].pc \in {"child", "chain"},
           NEW best \in tasks[i].chain, NEW top \in Nat,
           NextReflection(i, [tasks[i] EXCEPT !.best = best, !.bestSum = top])
    PROVE  IInv'
<1> DEFINE u == [tasks[i] EXCEPT !.best = best, !.bestSum = top]
           t == [u EXCEPT !.pc = "reflect", !.depth = @ + 1]
<1>1. tasks[i] \in Task /\ LocalOK(tasks[i], lastId) /\ StoreType(store, lastId)
  BY RunningSlot, KeepsStore
<1>2. tasks[i].child \in tasks[i].chain
  BY <1>1 DEF LocalOK
<1>3. tasks[i].child \in DOMAIN store /\ best \in DOMAIN store
  BY <1>2 DEF IInv, Chains
<1>4. store[tasks[i].child].cursor \in Cursor /\ best \in Nat
  BY <1>1, <1>3 DEF StoreType, Candidate
<1>5. /\ u \in Task /\ u.child = tasks[i].child /\ u.parent = tasks[i].parent
      /\ u.chain = tasks[i].chain /\ u.best = best
  BY <1>1, <1>4 DEF Task
<1> HIDE DEF u
<1>6. /\ t \in Task /\ t.pc = "reflect" /\ t.parent = tasks[i].parent
      /\ t.chain = tasks[i].chain /\ t.best = best
  <2>1. "reflect" \in TaskPC /\ u.depth + 1 \in Nat
    BY <1>5 DEF TaskPC, Awaiting, Task
  <2>2. QED
    BY <1>5, <2>1 DEF Task
<1>7. AwaitProposer(i, u.child, store[u.child].cursor, t)
  BY DEF NextReflection, u
<1> HIDE DEF t
<1>8. QED
  BY <1>3, <1>4, <1>5, <1>6, <1>7, AwaitProposerKeeps

LEMMA ChildReflectsKeeps ==
    ASSUME IInv, SlotsRun, NEW i \in Running, ChildReflects(i)
    PROVE  IInv'
<1>1. PICK sum \in 0 .. PerfectSum :
         NextReflection(i, [tasks[i] EXCEPT !.best = tasks[i].child, !.bestSum = sum])
  BY DEF ChildReflects
<1>2. sum \in Nat /\ tasks[i].pc = "child"
  BY ConstantTypes DEF ChildReflects
<1>3. tasks[i].child \in tasks[i].chain
  BY <1>2, KeepsStore DEF LocalOK
<1>4. QED
  BY <1>1, <1>2, <1>3, NextReflectionKeeps

LEMMA ReflectFailedKeeps ==
    ASSUME IInv, SlotsRun, NEW i \in Running, ReflectFailed(i)
    PROVE  IInv'
<1>1. tasks[i].best \in tasks[i].chain
  BY KeepsStore DEF LocalOK, ReflectFailed
<1>2. tasks[i].bestSum \in Nat
  BY RunningSlot DEF Task
<1>3. QED
  BY <1>1, <1>2, EndChainKeeps DEF ReflectFailed

LEMMA ChainEvaluatedKeeps ==
    ASSUME IInv, SlotsRun, NEW i \in Running, ChainEvaluated(i)
    PROVE  IInv'
<1>1. PICK sum \in 0 .. PerfectSum :
         LET better == sum > tasks[i].bestSum
             best   == IF better THEN tasks[i].child ELSE tasks[i].best
             top    == IF better THEN sum ELSE tasks[i].bestSum
         IN  IF Clears(tasks[i].parentSum, sum) \/ tasks[i].depth = MaxReflections
             THEN EndChain(i, best, top)
             ELSE NextReflection(i, [tasks[i] EXCEPT !.best = best, !.bestSum = top])
  BY DEF ChainEvaluated
<1> DEFINE best == IF sum > tasks[i].bestSum THEN tasks[i].child ELSE tasks[i].best
           top == IF sum > tasks[i].bestSum THEN sum ELSE tasks[i].bestSum
<1>2. tasks[i].pc = "chain" /\ sum \in Nat
  BY ConstantTypes DEF ChainEvaluated
<1>3. tasks[i].child \in tasks[i].chain /\ tasks[i].best \in tasks[i].chain
  BY <1>2, KeepsStore DEF LocalOK
<1>4. tasks[i].bestSum \in Nat
  BY RunningSlot DEF Task
<1>5. best \in tasks[i].chain /\ top \in Nat
  BY <1>2, <1>3, <1>4
<1>6. \/ EndChain(i, best, top)
      \/ NextReflection(i, [tasks[i] EXCEPT !.best = best, !.bestSum = top])
  BY <1>1
<1> HIDE DEF best, top
<1>7. QED
  BY <1>2, <1>5, <1>6, EndChainKeeps, NextReflectionKeeps

(* The validated child leaves its slot's chain with its scores and enters   *)
(* the pool.                                                               *)
LEMMA ValidatedKeeps ==
    ASSUME IInv, SlotsRun, NEW i \in Running, Validated(i)
    PROVE  IInv'
<1> DEFINE b == tasks[i].best
<1>1. PICK v \in ValScores : Completed(i, JoinsPool(store, b, v), TRUE)
  BY DEF Validated, JoinsPool
<1> DEFINE s == JoinsPool(store, b, v)
<1>2. b \in tasks[i].chain
  BY KeepsStore DEF LocalOK, Validated
<1>3. b \in DOMAIN store /\ store[b].state = "unavailable"
  BY <1>2 DEF IInv, Chains
<1>4. lastId \in Nat /\ StoreType(store, lastId) /\ v \in ScoreList
  BY RunningSlot, ScoreLists
<1>5. /\ StoreType(s, lastId) /\ Effect(store, s, {b}) /\ DOMAIN s = DOMAIN store
      /\ s[b].scores = v /\ s[b].state = "pending"
  BY <1>3, <1>4, JoinsPoolEffect
<1> HIDE DEF b, s
<1>6. \A c \in DOMAIN store \ {b} : s[c].state = store[c].state /\ s[c].scores = store[c].scores
  BY <1>5 DEF Effect
<1>7. Scored(s)
  BY <1>5, <1>6 DEF IInv, Scored
<1>8. Evolving(s) = Evolving(store)
  BY <1>3, <1>5, <1>6 DEF Evolving, PoolByState
<1>9. \A c \in DOMAIN store \ tasks[i].chain :
         store[c].state = "unavailable" => c \in DOMAIN s /\ s[c].state = "unavailable"
  BY <1>2, <1>5, <1>6
<1>10. Completed(i, s, TRUE)
  BY <1>1 DEF s
<1>11. QED
  BY <1>5, <1>7, <1>8, <1>9, <1>10, SlotCompletes

(* A slot that raises gives its parent back and leaves its chain behind.    *)
LEMMA RolloutRaisesKeeps ==
    ASSUME IInv, SlotsRun, NEW i \in Running, RolloutRaises(i)
    PROVE  IInv'
<1> DEFINE p == tasks[i].parent
           s == SetState(store, {p}, "pending")
<1>1. /\ lastId \in Nat /\ StoreType(store, lastId)
      /\ p \in DOMAIN store /\ store[p].state = "evolving"
  BY RunningSlot
<1> HIDE DEF p
<1>2. /\ StoreType(s, lastId) /\ Effect(store, s, {p}) /\ DOMAIN s = DOMAIN store
      /\ s[p].state = "pending" /\ \A c \in DOMAIN store : s[c].scores = store[c].scores
  BY <1>1, SetStateEffect DEF CandidateState
<1> HIDE DEF s
<1>3. \A c \in DOMAIN store \ {p} : s[c].state = store[c].state
  BY <1>2 DEF Effect
<1>4. Scored(s)
  BY <1>1, <1>2, <1>3 DEF IInv, Scored
<1>5. Evolving(s) = Evolving(store) \ {p}
  BY <1>2, <1>3 DEF Evolving, PoolByState
<1>6. \A c \in DOMAIN store \ tasks[i].chain :
         store[c].state = "unavailable" => c \in DOMAIN s /\ s[c].state = "unavailable"
  BY <1>1, <1>2, <1>3
<1>7. EndSlot(i, s, FALSE)
  BY DEF RolloutRaises, s, p
<1>8. QED
  BY <1>2, <1>4, <1>5, <1>6, <1>7, SlotEnds DEF p

(* The done callback only takes an ended task away.                         *)
LEMMA DiscardKeeps ==
    ASSUME IInv, NEW i \in Iterations, Discard(i)
    PROVE  IInv'
<1>1. /\ tasks \in [Iterations -> Task] /\ tasks[i].pc \notin Awaiting
      /\ tasks' = [tasks EXCEPT ![i] = IdleTask("gone")]
      /\ UNCHANGED <<store, lastId, stats, saved, recorded, main, permits, awaited, limitHit,
                     restarts>>
  BY DEF IInv, TypeOK, Discard, Awaiting
<1>2. IdleTask("gone") \in Task /\ IdleTask("gone").pc \notin Awaiting
  BY DEF IdleTask, Task, TaskPC, Awaiting, NoCandidate, StartCursor, Cursor
<1>3. tasks' \in [Iterations -> Task]
  BY <1>1, <1>2
<1>4. Running' = Running /\ \A j \in Running : tasks'[j] = tasks[j]
  BY <1>1, <1>2 DEF Running
<1>5. TypeOK'
  BY <1>1, <1>3 DEF IInv, TypeOK
<1>6. PermitsBalance' /\ Scored(store)' /\ Quiet' /\ Counted'
  BY <1>1, <1>4 DEF IInv, PermitsBalance, Scored, Quiet, Counted
<1>7. Parents' = Parents
  BY <1>4 DEF Parents
<1>8. Ownership'
  BY <1>1, <1>4, <1>7 DEF IInv, Ownership
<1>9. Chains'
  BY <1>1, <1>4 DEF IInv, Chains
<1>10. QED
  BY <1>5, <1>6, <1>8, <1>9 DEF IInv

LEMMA SlotStepKeeps ==
    ASSUME IInv, NEW i \in Iterations, SlotStep(i)
    PROVE  IInv'
<1>1. SlotsRun
  BY DEF SlotStep, SlotsRun
<1>2. CASE Discard(i)
  BY <1>2, DiscardKeeps
<1>3. CASE ~Discard(i)
  <2>1. i \in Running
    BY <1>3 DEF SlotStep, SlotStart, ParentPerfect, ParentEvaluated, Proposed, ProposeFailed,
       ChildAccepted, ChildRejected, ChildReflects, Reflected, ReflectFailed, ChainEvaluated,
       Validated, RolloutRaises, Running, Awaiting
  <2>2. \/ SlotStart(i)
        \/ ParentPerfect(i) \/ ParentEvaluated(i)
        \/ Proposed(i) \/ ProposeFailed(i)
        \/ ChildAccepted(i) \/ ChildRejected(i) \/ ChildReflects(i)
        \/ Reflected(i) \/ ReflectFailed(i) \/ ChainEvaluated(i)
        \/ Validated(i)
        \/ RolloutRaises(i)
    BY <1>3 DEF SlotStep
  <2>3. QED
    BY <1>1, <2>1, <2>2, SlotStartKeeps, ParentPerfectKeeps, ParentEvaluatedKeeps,
       RunChildKeeps, ChainRejectedKeeps, ChildAcceptedKeeps, ChildReflectsKeeps,
       ReflectFailedKeeps, ChainEvaluatedKeeps, ValidatedKeeps, RolloutRaisesKeeps
<1>4. QED
  BY <1>2, <1>3
-----------------------------------------------------------------------------
(* The steps of the main coroutine and of the environment. *)

(* A step that leaves the store and the tasks alone.                        *)
LEMMA ControlMoves ==
    ASSUME IInv, UNCHANGED <<store, lastId, tasks, permits>>,
           stats' \in Statistics, saved' \in Statistics, recorded' = recorded,
           stats'.iteration = stats.iteration,
           main' \in MainPC, awaited' \subseteq Iterations, limitHit' \in BOOLEAN,
           restarts' = restarts,
           main = "down" => main' = "down",
           main' \in {"start", "baseline", "down"} => Running = {}
    PROVE  IInv'
<1>1. Running' = Running /\ Parents' = Parents
  BY DEF Running, Parents
<1>2. TypeOK'
  BY DEF IInv, TypeOK
<1>3. PermitsBalance' /\ Scored(store)' /\ Quiet' /\ Counted' /\ Chains'
  BY <1>1 DEF IInv, PermitsBalance, Scored, Quiet, Counted, Chains
<1>4. Ownership'
  BY <1>1 DEF IInv, Ownership
<1>5. QED
  BY <1>2, <1>3, <1>4 DEF IInv

LEMMA StartFromScratchKeeps ==
    ASSUME IInv, StartFromScratch
    PROVE  IInv'
<1>1. /\ lastId \in Nat /\ StoreType(store, lastId) /\ stats \in Statistics
      /\ Running = {}
  BY DEF IInv, TypeOK, StoreType, Quiet, StartFromScratch
<1>2. /\ lastId' = lastId + 1 /\ store' = CreateRoot(store, lastId + 1)
      /\ stats' = CountVal(stats) /\ main' = "baseline" /\ main = "start"
      /\ UNCHANGED <<saved, recorded, permits, awaited, tasks, limitHit, restarts>>
  BY DEF StartFromScratch
<1>3. /\ StoreType(store', lastId + 1) /\ Effect(store, store', {lastId + 1})
      /\ lastId + 1 \in DOMAIN store' /\ store'[lastId + 1].state = "unavailable"
  BY <1>1, <1>2, CreateRootEffect
<1>4. Running' = {} /\ Parents = {} /\ Parents' = {}
  BY <1>1, <1>2 DEF Running, Parents
<1>5. TypeOK'
  <2>1. stats' \in Statistics /\ lastId' \in Nat /\ main' \in MainPC
    BY <1>1, <1>2, CountTypes DEF MainPC
  <2>2. QED
    BY <1>2, <1>3, <2>1 DEF IInv, TypeOK, StoreType
<1>6. PermitsBalance' /\ Quiet' /\ Counted' /\ Chains'
  BY <1>1, <1>2, <1>4 DEF IInv, PermitsBalance, Quiet, Counted, Chains
<1>7. Scored(store)'
  BY <1>3 DEF IInv, Scored, Effect
<1>8. Ownership'
  <2>1. Evolving(store) = {}
    BY <1>2, <1>4 DEF IInv, Ownership
  <2>2. Evolving(store') = {}
    BY <1>3, <2>1 DEF Evolving, PoolByState, Effect
  <2>3. QED
    BY <1>4, <2>2 DEF Ownership
<1>9. QED
  BY <1>5, <1>6, <1>7, <1>8 DEF IInv

LEMMA BaselineEvaluatedKeeps ==
    ASSUME IInv, BaselineEvaluated
    PROVE  IInv'
<1>1. /\ lastId \in Nat /\ StoreType(store, lastId) /\ stats \in Statistics
      /\ Running = {} /\ Scored(store)
  BY DEF IInv, TypeOK, StoreType, Quiet, BaselineEvaluated
<1>2. PICK v \in ValScores :
         /\ store' = JoinsPool(store, lastId, v)
         /\ stats' = [stats EXCEPT !.root = lastId, !.best = lastId,
                                   !.bestAvg = EA!AvgScore(v), !.total = 1]
  BY DEF BaselineEvaluated, JoinsPool
<1>3. /\ saved' = stats' /\ main' = "check" /\ main = "baseline"
      /\ UNCHANGED <<lastId, recorded, permits, awaited, tasks, limitHit, restarts>>
  BY DEF BaselineEvaluated
<1>4. v \in ScoreList
  BY ScoreLists
<1>5. /\ StoreType(store', lastId) /\ Effect(store, store', {lastId})
      /\ DOMAIN store' = DOMAIN store
      /\ lastId \in DOMAIN store => /\ store'[lastId].scores = v
                                    /\ store'[lastId].state = "pending"
  BY <1>1, <1>2, <1>4, JoinsPoolEffect
<1>6. \A c \in DOMAIN store \ {lastId} :
         store'[c].state = store[c].state /\ store'[c].scores = store[c].scores
  BY <1>5 DEF Effect
<1>7. Running' = {} /\ Parents = {} /\ Parents' = {}
  BY <1>1, <1>3 DEF Running, Parents
<1>8. stats' \in Statistics
  <2>1. EA!AvgScore(v) \in Averages
    BY DEF Averages
  <2>2. QED
    BY <1>1, <1>2, <2>1 DEF Statistics
<1>9. TypeOK'
  BY <1>1, <1>3, <1>5, <1>8 DEF IInv, TypeOK, StoreType, MainPC
<1>10. PermitsBalance' /\ Quiet' /\ Counted' /\ Chains'
  BY <1>1, <1>3, <1>7 DEF IInv, PermitsBalance, Quiet, Counted, Chains
<1>11. Scored(store)'
  BY <1>1, <1>5, <1>6 DEF Scored
<1>12. Ownership'
  <2>1. Evolving(store) = {}
    BY <1>3, <1>7 DEF IInv, Ownership
  <2>2. Evolving(store') = {}
    BY <1>5, <1>6, <2>1 DEF Evolving, PoolByState
  <2>3. QED
    BY <1>7, <2>2 DEF Ownership
<1>13. QED
  BY <1>9, <1>10, <1>11, <1>12 DEF IInv

(* A selectable candidate is pending.                                       *)
LEMMA SelectablePending ==
    ASSUME NEW s, NEW c \in EA!Selectable(s)
    PROVE  c \in DOMAIN s /\ s[c].state = "pending"
<1>1. c \in EA!InPool(s, {"pending"})
  BY DEF EA!Selectable
<1>2. QED
  BY <1>1 DEF EA!InPool

(* A slot opens at a fresh index, on a candidate no other slot has.         *)
LEMMA OpenSlotKeeps ==
    ASSUME IInv, OpenSlot
    PROVE  IInv'
<1> DEFINE n == stats.iteration + 1
<1>1. PICK c \in EA!Selectable(store) :
         /\ store' = SetState(store, {c}, "evolving")
         /\ tasks' = [tasks EXCEPT ![stats'.iteration] = [IdleTask("new") EXCEPT !.parent = c]]
  BY DEF OpenSlot
<1> DEFINE t == [IdleTask("new") EXCEPT !.parent = c]
<1>2. /\ stats' = [stats EXCEPT !.iteration = @ + 1]
      /\ permits' = permits - 1 /\ main' = "check" /\ main \in {"check", "acquire"}
      /\ permits > 0
      /\ UNCHANGED <<lastId, saved, recorded, awaited, limitHit, restarts>>
  BY DEF OpenSlot, HoldsPermit
<1>3. /\ lastId \in Nat /\ StoreType(store, lastId) /\ stats \in Statistics
      /\ tasks \in [Iterations -> Task] /\ permits \in 0 .. NumProposals
  BY DEF IInv, TypeOK, StoreType
<1>4. stats.iteration \in Nat /\ stats.iteration < MaxIterations
  <2>1. stats.iteration \in Nat
    BY <1>3 DEF Statistics
  <2>2. ~(stats.iteration >= MaxIterations)
    BY DEF OpenSlot, HoldsPermit, BudgetExhausted
  <2>3. QED
    BY <2>1, <2>2, ConstantTypes
<1>5. n \in Iterations
  BY <1>4, ConstantTypes DEF Iterations
<1>6. stats' \in Statistics /\ stats'.iteration = n
  BY <1>3, <1>4, <1>2 DEF Statistics
<1>7. c \in DOMAIN store /\ store[c].state = "pending"
  BY SelectablePending
<1>8. c \in Nat
  BY <1>3, <1>7 DEF StoreType
<1>9. t \in Task /\ t.pc = "new" /\ t.parent = c /\ t.chain = {} /\ t.child = 0
  BY <1>8 DEF IdleTask, Task, TaskPC, Awaiting, NoCandidate, StartCursor, Cursor
<1> HIDE DEF t
<1>10. tasks' = [tasks EXCEPT ![n] = t]
  BY <1>1, <1>6 DEF t
<1> HIDE DEF n
<1>11. /\ tasks' \in [Iterations -> Task] /\ tasks'[n] = t
       /\ \A j \in Iterations \ {n} : tasks'[j] = tasks[j]
  BY <1>3, <1>5, <1>9, <1>10
<1>12. n \notin Running /\ n = stats.iteration + 1
  BY <1>4 DEF IInv, Counted, n, Running, Iterations
<1>13. Running' = Running \cup {n} /\ \A j \in Running : tasks'[j] = tasks[j]
  BY <1>5, <1>9, <1>11, <1>12 DEF Running, Awaiting
<1>14. /\ StoreType(store', lastId) /\ Effect(store, store', {c}) /\ DOMAIN store' = DOMAIN store
       /\ store'[c].state = "evolving"
       /\ \A d \in DOMAIN store : store'[d].scores = store[d].scores
  BY <1>1, <1>3, <1>7, SetStateEffect DEF CandidateState
<1>15. \A d \in DOMAIN store \ {c} : store'[d].state = store[d].state
  BY <1>14 DEF Effect
<1>16. PermitsBalance'
  <2>1. IsFiniteSet(Running)
    BY RunningFinite
  <2>2. Cardinality(Running') = Cardinality(Running) + 1 /\ Cardinality(Running) \in Nat
    BY <1>12, <1>13, <2>1, FS_AddElement, FS_CardinalityType
  <2>3. QED
    BY <1>2, <1>3, <2>2 DEF IInv, PermitsBalance
<1>17. TypeOK'
  <2>1. permits' \in 0 .. NumProposals
    BY <1>2, <1>3, ConstantTypes
  <2>2. QED
    BY <1>2, <1>3, <1>6, <1>11, <1>14, <2>1 DEF IInv, TypeOK, StoreType, MainPC
<1>18. Scored(store)'
  BY <1>7, <1>14, <1>15 DEF IInv, Scored
<1>19. Quiet' /\ Counted'
  <2>1. \A j \in Running : j <= stats.iteration /\ j \in Nat
    BY DEF IInv, Counted, Running, Iterations
  <2>2. QED
    BY <1>2, <1>4, <1>6, <1>12, <1>13, <2>1 DEF Quiet, Counted
<1>20. Ownership'
  <2>1. /\ \A i, j \in Running : tasks[i].parent = tasks[j].parent => i = j
        /\ Evolving(store) = Parents
    BY <1>2 DEF IInv, Ownership
  <2>2. c \notin Parents
    BY <1>7, <2>1 DEF Evolving, PoolByState
  <2>3. Evolving(store') = Evolving(store) \cup {c}
    BY <1>7, <1>14, <1>15 DEF Evolving, PoolByState
  <2>4. Parents' = Parents \cup {c}
    BY <1>9, <1>11, <1>13 DEF Parents
  <2>5. \A i, j \in Running' : tasks'[i].parent = tasks'[j].parent => i = j
    <3>1. \A i \in Running : tasks'[i].parent \in Parents /\ tasks'[n].parent = c
      BY <1>9, <1>11, <1>13 DEF Parents
    <3>2. QED
      BY <1>13, <2>1, <2>2, <3>1
  <2>6. QED
    BY <2>1, <2>3, <2>4, <2>5 DEF Ownership
<1>21. Chains'
  <2>1. ASSUME NEW i \in Running
        PROVE  /\ \A d \in tasks'[i].chain : d \in DOMAIN store' /\ store'[d].state = "unavailable"
               /\ LocalOK(tasks'[i], lastId')
    BY <1>2, <1>7, <1>13, <1>14, <1>15 DEF IInv, Chains
  <2>2. LocalOK(t, lastId')
    BY <1>2, <1>3, <1>9 DEF LocalOK
  <2>3. \A i, j \in Running' : i # j => tasks'[i].chain \cap tasks'[j].chain = {}
    BY <1>9, <1>11, <1>13 DEF IInv, Chains
  <2>4. QED
    BY <1>9, <1>11, <1>13, <2>1, <2>2, <2>3 DEF Chains
<1>22. QED
  BY <1>16, <1>17, <1>18, <1>19, <1>20, <1>21 DEF IInv

(* A kill at an await forgets the slots, whatever they held in the store.  *)
LEMMA CrashKeeps ==
    ASSUME IInv, CrashAtAwait
    PROVE  IInv'
<1>1. /\ main' = "down" /\ stats' = saved /\ permits' = NumProposals /\ awaited' = {}
      /\ tasks' = [i \in Iterations |-> IdleTask("none")]
      /\ UNCHANGED <<store, lastId, saved, recorded, limitHit, restarts>>
  BY DEF CrashAtAwait
<1>2. IdleTask("none") \in Task /\ IdleTask("none").pc \notin Awaiting
  BY DEF IdleTask, Task, TaskPC, Awaiting, NoCandidate, StartCursor, Cursor
<1>3. Running' = {}
  BY <1>1, <1>2 DEF Running
<1>4. TypeOK'
  <2>1. tasks' \in [Iterations -> Task] /\ permits' \in 0 .. NumProposals
    BY <1>1, <1>2, ConstantTypes
  <2>2. QED
    BY <1>1, <2>1 DEF IInv, TypeOK, MainPC
<1>5. PermitsBalance'
  BY <1>1, <1>3, FS_EmptySet, ConstantTypes DEF PermitsBalance
<1>6. Scored(store)' /\ Quiet' /\ Counted' /\ Ownership' /\ Chains'
  BY <1>1, <1>3 DEF IInv, Scored, Quiet, Counted, Ownership, Chains
<1>7. QED
  BY <1>4, <1>5, <1>6 DEF IInv

(* The startup recovery takes the candidates back from the slots that are   *)
(* no more.                                                                *)
LEMMA RestartKeeps ==
    ASSUME IInv, Restart
    PROVE  IInv'
<1>1. /\ main = "down" /\ main' = "start" /\ store' = Recover(store) /\ stats' = saved
      /\ limitHit' \in {FALSE, limitHit} /\ restarts' = restarts + 1 /\ restarts < MaxRestarts
      /\ UNCHANGED <<lastId, saved, recorded, permits, awaited, tasks>>
  BY DEF Restart
<1>2. Running = {} /\ Running' = {} /\ Parents' = {}
  BY <1>1 DEF IInv, Quiet, Running, Parents
<1>3. lastId \in Nat /\ StoreType(store, lastId) /\ Scored(store)
  BY DEF IInv, TypeOK, StoreType
<1>4. /\ StoreType(store', lastId) /\ Evolving(store') = {}
      /\ \A c \in DOMAIN store' :
            /\ c \in DOMAIN store /\ store'[c].scores = store[c].scores
            /\ store'[c].state # "unavailable" => store[c].state # "unavailable"
  BY <1>1, <1>3, RecoverEffect
<1>5. TypeOK'
  <2>1. restarts' \in 0 .. MaxRestarts /\ limitHit' \in BOOLEAN
    <3>1. restarts \in 0 .. MaxRestarts /\ limitHit \in BOOLEAN
      BY DEF IInv, TypeOK
    <3>2. limitHit' = FALSE \/ limitHit' = limitHit
      BY <1>1
    <3>3. restarts' \in 0 .. MaxRestarts
      BY <1>1, <3>1, ConstantTypes
    <3>4. limitHit' \in BOOLEAN
      BY <3>1, <3>2, Zenon
    <3>5. QED
      BY <3>3, <3>4
  <2>2. QED
    BY <1>1, <1>4, <2>1 DEF IInv, TypeOK, StoreType, MainPC
<1>6. PermitsBalance' /\ Quiet' /\ Counted' /\ Chains'
  BY <1>1, <1>2 DEF IInv, PermitsBalance, Quiet, Counted, Chains
<1>7. Scored(store)' /\ Ownership'
  BY <1>2, <1>3, <1>4 DEF Scored, Ownership
<1>8. QED
  BY <1>5, <1>6, <1>7 DEF IInv

LEMMA MainStepKeeps ==
    ASSUME IInv, MainStep
    PROVE  IInv'
<1>1. /\ stats \in Statistics /\ saved \in Statistics /\ awaited \subseteq Iterations
      /\ main \in MainPC /\ limitHit \in BOOLEAN /\ Active \subseteq Iterations /\ Quiet
  BY DEF IInv, TypeOK, Active
<1>2. CASE Resume
  BY <1>1, <1>2, ControlMoves DEF Resume, MainPC, IInv
<1>3. CASE StartFromScratch
  BY <1>3, StartFromScratchKeeps
<1>4. CASE BaselineEvaluated
  BY <1>4, BaselineEvaluatedKeeps
<1>5. CASE BaselineRaises
  BY <1>1, <1>5, ControlMoves DEF BaselineRaises, MainPC, Quiet
<1>6. CASE StopOnBudget
  BY <1>1, <1>6, ControlMoves DEF StopOnBudget, MainGoes, MainPC
<1>7. CASE AwaitPermit
  BY <1>1, <1>7, ControlMoves DEF AwaitPermit, MainGoes, MainPC
<1>8. CASE OpenSlot
  BY <1>8, OpenSlotKeeps
<1>9. CASE NothingSelectable
  BY <1>1, <1>9, ControlMoves DEF NothingSelectable, HoldsPermit, MainGoes, MainPC
<1>10. CASE SelectRaises
  BY <1>1, <1>10, ControlMoves DEF SelectRaises, HoldsPermit, MainGoes, MainPC
<1>11. CASE Wake
  BY <1>1, <1>11, ControlMoves DEF Wake, MainGoes, MainPC
<1>12. CASE Finish
  BY <1>1, <1>12, ControlMoves DEF Finish, MainPC
<1>13. QED
  BY <1>2, <1>3, <1>4, <1>5, <1>6, <1>7, <1>8, <1>9, <1>10, <1>11, <1>12 DEF MainStep
-----------------------------------------------------------------------------
(* The theorems. *)

LEMMA InitIInv == Init => IInv
<1> SUFFICES ASSUME Init PROVE IInv
  OBVIOUS
<1>1. IdleTask("none") \in Task /\ IdleTask("none").pc \notin Awaiting
  BY DEF IdleTask, Task, TaskPC, Awaiting, NoCandidate, StartCursor, Cursor
<1>2. tasks = [i \in Iterations |-> IdleTask("none")]
  BY DEF Init
<1>3. Running = {} /\ Parents = {} /\ tasks \in [Iterations -> Task]
  BY <1>1, <1>2 DEF Running, Parents
<1>4. NoStatistics \in Statistics
  BY DEF NoStatistics, Statistics, NoCandidate, Averages
<1>5. DOMAIN store = {}
  BY DEF Init, EmptyStore
<1>6. TypeOK
  <2>1. DOMAIN store \subseteq 1 .. lastId /\ \A c \in DOMAIN store : store[c] \in Candidate
    BY <1>5
  <2>2. permits \in 0 .. NumProposals /\ restarts \in 0 .. MaxRestarts
    BY ConstantTypes DEF Init
  <2>3. main \in MainPC /\ limitHit \in BOOLEAN /\ lastId \in Nat /\ recorded \in Nat
    BY DEF Init, MainPC
  <2>4. stats \in Statistics /\ saved \in Statistics /\ awaited \subseteq Iterations
    BY <1>4 DEF Init
  <2>5. QED
    BY <1>3, <2>1, <2>2, <2>3, <2>4 DEF TypeOK
<1>7. PermitsBalance
  BY <1>3, FS_EmptySet, ConstantTypes DEF Init, PermitsBalance
<1>8. Evolving(store) = {}
  BY <1>5 DEF Evolving, PoolByState
<1>9. Scored(store) /\ Quiet /\ Counted /\ Ownership /\ Chains
  BY <1>3, <1>5, <1>8 DEF Scored, Quiet, Counted, Ownership, Chains
<1>10. QED
  BY <1>6, <1>7, <1>9 DEF IInv

LEMMA NextIInv == IInv /\ [Next]_vars => IInv'
<1> SUFFICES ASSUME IInv, [Next]_vars PROVE IInv'
  OBVIOUS
<1>1. ASSUME UNCHANGED <<store, lastId, tasks, permits, stats, saved, recorded, main, awaited,
                         restarts>>,
             limitHit' \in BOOLEAN
      PROVE  IInv'
  BY <1>1, ControlMoves DEF IInv, TypeOK, Quiet
<1>2. CASE MainStep
  BY <1>2, MainStepKeeps
<1>3. CASE \E i \in Iterations : SlotStep(i)
  BY <1>3, SlotStepKeeps
<1>4. CASE LimitReached
  BY <1>1, <1>4 DEF LimitReached
<1>5. CASE CrashAtAwait
  BY <1>5, CrashKeeps
<1>6. CASE Restart
  BY <1>6, RestartKeeps
<1>7. CASE Terminated \/ UNCHANGED vars
  <2>1. limitHit \in BOOLEAN /\ UNCHANGED vars
    BY <1>7 DEF IInv, TypeOK, Terminated
  <2>2. limitHit' \in BOOLEAN
    BY <2>1, Zenon DEF vars
  <2>3. QED
    BY <1>1, <2>1, <2>2 DEF vars
<1>8. QED
  BY <1>2, <1>3, <1>4, <1>5, <1>6, <1>7 DEF Next

THEOREM Invariance == Spec => []IInv
BY InitIInv, NextIInv, PTL DEF Spec

(* Every variable keeps its type; in particular the best average reported   *)
(* is always that of an evaluation.                                        *)
THEOREM TypeCorrect == Spec => []TypeOK
<1>1. IInv => TypeOK
  BY DEF IInv
<1>2. QED
  BY <1>1, Invariance, PTL

(* Every candidate that is evolving has exactly one running slot, and every *)
(* running slot its own candidate.                                         *)
THEOREM OneSlotPerCandidate == Spec => []SlotOwnership
<1>1. IInv => SlotOwnership
  BY DEF IInv, Ownership, SlotOwnership, Evolving, Parents
<1>2. QED
  BY <1>1, Invariance, PTL

(* No permit is lost or released twice.                                     *)
THEOREM PermitsNeverLeak == Spec => []PermitsBalance
<1>1. IInv => PermitsBalance
  BY DEF IInv
<1>2. QED
  BY <1>1, Invariance, PTL

(* The children of a running slot stay in the store, out of the pool, and   *)
(* are nobody else's.                                                      *)
THEOREM ChainsBelongToTheirSlot == Spec => []ChainOwnership
<1>1. IInv => ChainOwnership
  BY DEF IInv, Chains, LocalOK, ChainOwnership
<1>2. QED
  BY <1>1, Invariance, PTL

(* Whoever can be selected or compared has a val score list, in every       *)
(* launch, as long as the process is only killed at an await.  A kill in    *)
(* the middle of a delete may leave a candidate without its scores          *)
(* (StoreContract!crash).                                                   *)
THEOREM PoolIsValidated == Spec => []AliveIsValidated
<1>1. IInv => AliveIsValidated
  BY DEF IInv, Scored, AliveIsValidated, EA!Alive, EA!InPool
<1>2. QED
  BY <1>1, Invariance, PTL

-----------------------------------------------------------------------------
(***************************************************************************)
(* What the slots leave behind: the family tree, the cursors, the records, *)
(* and that nothing unavailable outlives its slot.                         *)
(***************************************************************************)

(* FamilyTree of any store.  A parent that is gone has a smaller id too, so *)
(* a new candidate is nobody's parent.                                     *)
Tree(s) ==
    \A c \in DOMAIN s :
      /\ s[c].parent < c
      /\ \A d \in s[c].children : d \in DOMAIN s /\ s[d].parent = c
      /\ s[c].parent \in DOMAIN s =>
            /\ c \in s[s[c].parent].children
            /\ s[c].generation = s[s[c].parent].generation + 1

Unavailable(s) == PoolByState(s, {"unavailable"})

(* From s to t no cursor changes outside P.                                 *)
CursorsKept(s, t, P) ==
    \A c \in (DOMAIN s \cap DOMAIN t) \ P : t[c].cursor = s[c].cursor

(* A slot has no chain before it creates its first child, one child until   *)
(* it reflects, and the accepted one when it validates.                     *)
TidyChain(t) ==
    /\ t.pc \in {"new", "parent"} => t.chain = {}
    /\ t.pc \in {"propose", "child"} => t.chain = {t.child}
    /\ t.pc = "validate" => t.chain = {t.best}

Tidy == \A i \in Running : TidyChain(tasks[i])

(* SnapshotFresh of one slot.                                               *)
FreshTask(t, s) ==
    t.pc # "new" =>
      /\ t.advanced = Advance(DatasetSize, BatchSize, s[t.parent].cursor)
      /\ \A c \in t.chain : s[c].cursor = t.advanced

Fresh == \A i \in Running : FreshTask(tasks[i], store)

(* NoLeak, with what is left of the baseline and of a recovery.             *)
Leftovers ==
    CleanupUnavailable /\ ~RolloutMayFail =>
      /\ main = "baseline" => Unavailable(store) \subseteq {lastId}
      /\ main \notin {"baseline", "down"} => Unavailable(store) = Owned

(* EverySlotRecordedOnce, with the permits for the running slots.           *)
Recorded ==
    restarts = 0 /\ main # "down" =>
      /\ stats.iteration = recorded + (NumProposals - permits)
      /\ main \in {"start", "baseline"} \/ stats.root # NoCandidate
      /\ main = "baseline" => lastId > 0 /\ stats.root = NoCandidate
      /\ IF stats.root = NoCandidate
         THEN recorded = 0 /\ stats.rejected = 0
         ELSE stats.total + stats.rejected = 1 + recorded

Drained == main = "done" => Running = {} /\ saved = stats

HInv == Tree(store) /\ Tidy /\ Fresh /\ Leftovers /\ Recorded /\ Drained
-----------------------------------------------------------------------------
(* What the store's operations do to the tree, the cursors and the          *)
(* unavailable candidates.                                                 *)

(* An operation that leaves the lineage alone.                              *)
LEMMA SameLineage ==
    ASSUME NEW s, NEW t, Tree(s), DOMAIN t = DOMAIN s,
           \A c \in DOMAIN s : /\ t[c].parent = s[c].parent /\ t[c].children = s[c].children
                               /\ t[c].generation = s[c].generation
    PROVE  Tree(t)
BY DEF Tree

LEMMA SetStateHistory ==
    ASSUME NEW n \in Nat, NEW s, StoreType(s, n), Tree(s), NEW C,
           NEW st \in {"pending", "evolving"}
    PROVE  LET t == SetState(s, C, st) IN
           /\ Tree(t) /\ CursorsKept(s, t, {}) /\ DOMAIN t = DOMAIN s
           /\ Unavailable(t) = Unavailable(s) \ C
<1> DEFINE t == SetState(s, C, st)
<1>1. /\ DOMAIN t = DOMAIN s
      /\ \A c \in DOMAIN s : /\ t[c] = IF c \in C THEN [s[c] EXCEPT !.state = st] ELSE s[c]
                             /\ s[c] \in Candidate
  BY DEF SetState, StoreType
<1> HIDE DEF t
<1>2. \A c \in DOMAIN s : /\ t[c].parent = s[c].parent /\ t[c].children = s[c].children
                          /\ t[c].generation = s[c].generation /\ t[c].cursor = s[c].cursor
                          /\ t[c].state = IF c \in C THEN st ELSE s[c].state
  BY <1>1 DEF Candidate
<1>3. Tree(t)
  BY <1>1, <1>2, SameLineage
<1>4. Unavailable(t) = Unavailable(s) \ C
  BY <1>1, <1>2 DEF Unavailable, PoolByState
<1>5. QED
  BY <1>1, <1>2, <1>3, <1>4 DEF CursorsKept, t

LEMMA SetProgressHistory ==
    ASSUME NEW n \in Nat, NEW s, StoreType(s, n), Tree(s), NEW p, NEW cursor
    PROVE  LET t == SetProgress(s, p, cursor) IN
           /\ Tree(t) /\ CursorsKept(s, t, {p}) /\ DOMAIN t = DOMAIN s
           /\ p \in DOMAIN s => t[p].cursor = cursor
           /\ Unavailable(t) = Unavailable(s)
<1> DEFINE t == SetProgress(s, p, cursor)
<1>1. /\ DOMAIN t = DOMAIN s
      /\ \A c \in DOMAIN s : /\ t[c] = IF c = p THEN [s[c] EXCEPT !.cursor = cursor] ELSE s[c]
                             /\ s[c] \in Candidate
  BY DEF SetProgress, StoreType
<1> HIDE DEF t
<1>2. \A c \in DOMAIN s : /\ t[c].parent = s[c].parent /\ t[c].children = s[c].children
                          /\ t[c].generation = s[c].generation /\ t[c].state = s[c].state
                          /\ t[c].cursor = IF c = p THEN cursor ELSE s[c].cursor
  BY <1>1 DEF Candidate
<1>3. Tree(t)
  BY <1>1, <1>2, SameLineage
<1>4. Unavailable(t) = Unavailable(s)
  BY <1>1, <1>2 DEF Unavailable, PoolByState
<1>5. QED
  BY <1>1, <1>2, <1>3, <1>4 DEF CursorsKept, t

LEMMA UpdateScoresHistory ==
    ASSUME NEW n \in Nat, NEW s, StoreType(s, n), Tree(s), NEW c0, NEW v
    PROVE  LET t == UpdateScores(s, c0, v) IN
           /\ Tree(t) /\ CursorsKept(s, t, {}) /\ DOMAIN t = DOMAIN s
           /\ Unavailable(t) = Unavailable(s)
<1> DEFINE t == UpdateScores(s, c0, v)
<1>1. /\ DOMAIN t = DOMAIN s
      /\ \A c \in DOMAIN s : /\ t[c] = IF c = c0 THEN [s[c] EXCEPT !.scores = v] ELSE s[c]
                             /\ s[c] \in Candidate
  BY DEF UpdateScores, StoreType
<1> HIDE DEF t
<1>2. \A c \in DOMAIN s : /\ t[c].parent = s[c].parent /\ t[c].children = s[c].children
                          /\ t[c].generation = s[c].generation /\ t[c].state = s[c].state
                          /\ t[c].cursor = s[c].cursor
  BY <1>1 DEF Candidate
<1>3. Tree(t)
  BY <1>1, <1>2, SameLineage
<1>4. Unavailable(t) = Unavailable(s)
  BY <1>1, <1>2 DEF Unavailable, PoolByState
<1>5. QED
  BY <1>1, <1>2, <1>3, <1>4 DEF CursorsKept, t

(* A candidate that joins the pool with its scores.                         *)
LEMMA JoinsPoolHistory ==
    ASSUME NEW n \in Nat, NEW s, StoreType(s, n), Tree(s), NEW c0, NEW v \in ScoreList
    PROVE  LET t == JoinsPool(s, c0, v) IN
           /\ Tree(t) /\ CursorsKept(s, t, {}) /\ DOMAIN t = DOMAIN s
           /\ Unavailable(t) = Unavailable(s) \ {c0}
<1> DEFINE mid == UpdateScores(s, c0, v)
           t == SetState(mid, {c0}, "pending")
<1>1. /\ StoreType(mid, n) /\ Tree(mid) /\ CursorsKept(s, mid, {}) /\ DOMAIN mid = DOMAIN s
      /\ Unavailable(mid) = Unavailable(s)
  BY UpdateScoresHistory, UpdateScoresEffect
<1> HIDE DEF mid
<1>2. /\ Tree(t) /\ CursorsKept(mid, t, {}) /\ DOMAIN t = DOMAIN mid
      /\ Unavailable(t) = Unavailable(mid) \ {c0}
  BY <1>1, SetStateHistory
<1>3. t = JoinsPool(s, c0, v)
  BY DEF JoinsPool, mid
<1> HIDE DEF t
<1>4. CursorsKept(s, t, {})
  BY <1>1, <1>2 DEF CursorsKept
<1>5. QED
  BY <1>1, <1>2, <1>3, <1>4

LEMMA DeleteHistory ==
    ASSUME NEW n \in Nat, NEW s, StoreType(s, n), Tree(s), NEW C
    PROVE  LET t == Delete(s, C) IN
           /\ Tree(t) /\ CursorsKept(s, t, {}) /\ DOMAIN t = DOMAIN s \ C
           /\ Unavailable(t) = Unavailable(s) \ C
<1> DEFINE t == Delete(s, C)
<1>1. /\ DOMAIN t = DOMAIN s \ C
      /\ \A c \in DOMAIN t : /\ t[c] = [s[c] EXCEPT !.children = @ \ C]
                             /\ s[c] \in Candidate
  BY DEF Delete, StoreType
<1> HIDE DEF t
<1>2. \A c \in DOMAIN t : /\ t[c].parent = s[c].parent /\ t[c].children = s[c].children \ C
                          /\ t[c].generation = s[c].generation /\ t[c].state = s[c].state
                          /\ t[c].cursor = s[c].cursor
  BY <1>1 DEF Candidate
<1>3. Tree(t)
  <2> SUFFICES ASSUME NEW c \in DOMAIN t
               PROVE  /\ t[c].parent < c
                      /\ \A d \in t[c].children : d \in DOMAIN t /\ t[d].parent = c
                      /\ t[c].parent \in DOMAIN t =>
                            /\ c \in t[t[c].parent].children
                            /\ t[c].generation = t[t[c].parent].generation + 1
    BY DEF Tree
  <2>1. c \in DOMAIN s /\ c \notin C
    BY <1>1
  <2>2. \A d \in t[c].children : d \in DOMAIN t /\ t[d].parent = c
    BY <1>1, <1>2, <2>1 DEF Tree
  <2>3. t[c].parent \in DOMAIN t => /\ c \in t[t[c].parent].children
                                    /\ t[c].generation = t[t[c].parent].generation + 1
    BY <1>1, <1>2, <2>1 DEF Tree
  <2>4. t[c].parent < c
    BY <1>2, <2>1 DEF Tree
  <2>5. QED
    BY <2>2, <2>3, <2>4
<1>4. Unavailable(t) = Unavailable(s) \ C
  BY <1>1, <1>2 DEF Unavailable, PoolByState
<1>5. QED
  BY <1>1, <1>2, <1>3, <1>4 DEF CursorsKept, t

LEMMA RetireHistory ==
    ASSUME NEW n \in Nat, NEW s, StoreType(s, n), Tree(s), NEW C
    PROVE  LET t == Retire(s, C) IN
           /\ Tree(t) /\ CursorsKept(s, t, {}) /\ DOMAIN t \subseteq DOMAIN s
           /\ CleanupUnavailable => Unavailable(t) = Unavailable(s) \ C
<1> DEFINE t == Retire(s, C)
<1>1. CASE CleanupUnavailable
  <2>1. t = Delete(s, C)
    BY <1>1 DEF Retire
  <2> HIDE DEF t
  <2>2. Tree(t) /\ CursorsKept(s, t, {}) /\ DOMAIN t = DOMAIN s \ C
    BY <2>1, DeleteHistory
  <2>3. Unavailable(t) = Unavailable(s) \ C
    BY <2>1, DeleteHistory
  <2>4. QED
    BY <2>2, <2>3 DEF t
<1>2. CASE ~CleanupUnavailable
  <2>1. /\ DOMAIN t = DOMAIN s
        /\ \A c \in DOMAIN s : /\ t[c] = IF c \in C THEN [s[c] EXCEPT !.state = "unavailable"]
                                         ELSE s[c]
                               /\ s[c] \in Candidate
    BY <1>2 DEF Retire, SetState, StoreType
  <2> HIDE DEF t
  <2>2. \A c \in DOMAIN s : /\ t[c].parent = s[c].parent /\ t[c].children = s[c].children
                            /\ t[c].generation = s[c].generation /\ t[c].cursor = s[c].cursor
    BY <2>1 DEF Candidate
  <2>3. Tree(t)
    BY <2>1, <2>2, SameLineage
  <2>4. QED
    BY <1>2, <2>1, <2>2, <2>3 DEF CursorsKept, t
<1>3. QED
  BY <1>1, <1>2

(* A child created on p: everybody else keeps a cursor and a place.         *)
LEMMA CreateChildHistory ==
    ASSUME NEW n \in Nat, NEW s, StoreType(s, n), Tree(s), NEW p \in DOMAIN s,
           NEW cursor \in Cursor
    PROVE  LET t == CreateChild(s, p, n + 1, cursor) IN
           /\ Tree(t) /\ CursorsKept(s, t, {}) /\ DOMAIN t = DOMAIN s \cup {n + 1}
           /\ n + 1 \notin DOMAIN s /\ t[n + 1].cursor = cursor
           /\ Unavailable(t) = Unavailable(s) \cup {n + 1}
<1> DEFINE t == CreateChild(s, p, n + 1, cursor)
           u == [s EXCEPT ![p].children = @ \cup {n + 1}]
           rec == [state |-> "unavailable", parent |-> p, children |-> {},
                   generation |-> s[p].generation + 1, cursor |-> cursor, scores |-> <<>>]
<1>1. /\ n + 1 \notin DOMAIN s /\ p \in Nat /\ p < n + 1 /\ DOMAIN u = DOMAIN s
      /\ \A c \in DOMAIN s : c \in Nat /\ s[c] \in Candidate /\ s[c].parent # n + 1
  <2>1. \A c \in DOMAIN s : c \in 1 .. n /\ s[c] \in Candidate /\ s[c].parent < c
    BY DEF StoreType, Tree
  <2>2. \A c \in DOMAIN s : s[c].parent \in Nat
    BY <2>1 DEF Candidate
  <2>3. QED
    BY <2>1, <2>2
<1>2. \A c \in DOMAIN s : u[c] = IF c = p THEN [s[c] EXCEPT !.children = @ \cup {n + 1}]
                                 ELSE s[c]
  OBVIOUS
<1>3. \A c \in DOMAIN s : /\ u[c].parent = s[c].parent /\ u[c].generation = s[c].generation
                          /\ u[c].state = s[c].state /\ u[c].cursor = s[c].cursor
                          /\ u[c].children = IF c = p THEN s[c].children \cup {n + 1}
                                             ELSE s[c].children
  BY <1>1, <1>2 DEF Candidate
<1>4. t = [d \in DOMAIN u \cup {n + 1} |-> IF d = n + 1 THEN rec ELSE u[d]]
  BY DEF CreateChild, Add
<1>5. /\ rec.state = "unavailable" /\ rec.parent = p /\ rec.children = {}
      /\ rec.generation = s[p].generation + 1 /\ rec.cursor = cursor
  OBVIOUS
<1> HIDE DEF t, u, rec
<1>6. /\ DOMAIN t = DOMAIN s \cup {n + 1} /\ t[n + 1] = rec
      /\ \A c \in DOMAIN s : t[c] = u[c]
  BY <1>1, <1>4
<1>7. Tree(t)
  <2> SUFFICES ASSUME NEW c \in DOMAIN t
               PROVE  /\ t[c].parent < c
                      /\ \A d \in t[c].children : d \in DOMAIN t /\ t[d].parent = c
                      /\ t[c].parent \in DOMAIN t =>
                            /\ c \in t[t[c].parent].children
                            /\ t[c].generation = t[t[c].parent].generation + 1
    BY DEF Tree
  <2>1. CASE c = n + 1
    <3>1. t[c].parent = p /\ t[c].children = {} /\ t[c].generation = s[p].generation + 1
      BY <1>5, <1>6, <2>1
    <3>2. n + 1 \in t[p].children /\ t[p].generation = s[p].generation
      BY <1>3, <1>6
    <3>3. QED
      BY <1>1, <2>1, <3>1, <3>2
  <2>2. CASE c \in DOMAIN s
    <3>1. t[c].parent = s[c].parent /\ t[c].generation = s[c].generation
      BY <1>3, <1>6, <2>2
    <3>2. t[c].parent < c
      BY <2>2, <3>1 DEF Tree
    <3>3. \A d \in t[c].children : d \in DOMAIN t /\ t[d].parent = c
      <4> SUFFICES ASSUME NEW d \in t[c].children PROVE d \in DOMAIN t /\ t[d].parent = c
        OBVIOUS
      <4>1. d \in s[c].children \/ (c = p /\ d = n + 1)
        BY <1>3, <1>6, <2>2
      <4>2. CASE d \in s[c].children
        <5>1. d \in DOMAIN s /\ s[d].parent = c
          BY <2>2, <4>2 DEF Tree
        <5>2. QED
          BY <1>3, <1>6, <5>1
      <4>3. CASE c = p /\ d = n + 1
        BY <1>5, <1>6, <4>3
      <4>4. QED
        BY <4>1, <4>2, <4>3
    <3>4. t[c].parent \in DOMAIN t => t[c].parent \in DOMAIN s
      BY <1>1, <1>6, <2>2, <3>1
    <3>5. t[c].parent \in DOMAIN s => /\ c \in t[t[c].parent].children
                                      /\ t[c].generation = t[t[c].parent].generation + 1
      <4> SUFFICES ASSUME s[c].parent \in DOMAIN s
                   PROVE  /\ c \in t[s[c].parent].children
                          /\ t[c].generation = t[s[c].parent].generation + 1
        BY <3>1
      <4>1. c \in s[s[c].parent].children /\ s[c].generation = s[s[c].parent].generation + 1
        BY <2>2 DEF Tree
      <4>2. /\ t[s[c].parent].generation = s[s[c].parent].generation
            /\ s[s[c].parent].children \subseteq t[s[c].parent].children
        BY <1>3, <1>6
      <4>3. QED
        BY <3>1, <4>1, <4>2
    <3>6. QED
      BY <3>2, <3>3, <3>4, <3>5
  <2>3. QED
    BY <1>6, <2>1, <2>2
<1>8. CursorsKept(s, t, {})
  BY <1>1, <1>3, <1>6 DEF CursorsKept
<1>9. Unavailable(t) = Unavailable(s) \cup {n + 1}
  <2>1. /\ t[n + 1].state = "unavailable"
        /\ \A c \in DOMAIN s : t[c].state = s[c].state
    BY <1>3, <1>5, <1>6
  <2>2. QED
    BY <1>1, <1>6, <2>1 DEF Unavailable, PoolByState
<1>10. QED
  BY <1>1, <1>5, <1>6, <1>7, <1>8, <1>9 DEF t

LEMMA CreateRootHistory ==
    ASSUME NEW n \in Nat, NEW s, StoreType(s, n), Tree(s)
    PROVE  LET t == CreateRoot(s, n + 1) IN
           /\ Tree(t) /\ CursorsKept(s, t, {})
           /\ Unavailable(t) = Unavailable(s) \cup {n + 1}
<1> DEFINE t == CreateRoot(s, n + 1)
           rec == [state |-> "unavailable", parent |-> NoCandidate, children |-> {},
                   generation |-> 0, cursor |-> StartCursor, scores |-> <<>>]
<1>1. /\ n + 1 \notin DOMAIN s /\ 0 \notin DOMAIN s
      /\ \A c \in DOMAIN s : c \in Nat /\ s[c].parent # n + 1
  <2>1. \A c \in DOMAIN s : c \in 1 .. n /\ s[c] \in Candidate /\ s[c].parent < c
    BY DEF StoreType, Tree
  <2>2. \A c \in DOMAIN s : s[c].parent \in Nat
    BY <2>1 DEF Candidate
  <2>3. QED
    BY <2>1, <2>2
<1>2. t = [d \in DOMAIN s \cup {n + 1} |-> IF d = n + 1 THEN rec ELSE s[d]]
  BY DEF CreateRoot, Add
<1>3. rec.state = "unavailable" /\ rec.parent = 0 /\ rec.children = {}
  BY DEF NoCandidate
<1> HIDE DEF t, rec
<1>4. /\ DOMAIN t = DOMAIN s \cup {n + 1} /\ t[n + 1] = rec
      /\ \A c \in DOMAIN s : t[c] = s[c]
  BY <1>1, <1>2
<1>5. 0 \notin DOMAIN t
  BY <1>1, <1>4
<1>6. Tree(t)
  BY <1>1, <1>3, <1>4, <1>5 DEF Tree
<1>7. CursorsKept(s, t, {}) /\ Unavailable(t) = Unavailable(s) \cup {n + 1}
  BY <1>1, <1>3, <1>4 DEF CursorsKept, Unavailable, PoolByState
<1>8. QED
  BY <1>6, <1>7 DEF t

LEMMA RecoverHistory ==
    ASSUME NEW n \in Nat, NEW s, StoreType(s, n), Tree(s)
    PROVE  /\ Tree(Recover(s)) /\ CursorsKept(s, Recover(s), {})
           /\ CleanupUnavailable => Unavailable(Recover(s)) = {}
<1> DEFINE U == Unavailable(s)
           kept == IF CleanupUnavailable THEN Delete(s, U) ELSE s
           C == PoolByState(kept, {"evolving"})
           t == SetState(kept, C, "pending")
<1>1. /\ StoreType(kept, n) /\ Tree(kept) /\ CursorsKept(s, kept, {})
      /\ CleanupUnavailable => Unavailable(kept) = {}
  <2>1. CASE CleanupUnavailable
    <3>1. kept = Delete(s, U) /\ Delete(s, U) = Retire(s, U)
      BY <2>1 DEF Retire
    <3>2. StoreType(Retire(s, U), n)
      BY RetireEffect
    <3>3. Tree(Retire(s, U)) /\ CursorsKept(s, Retire(s, U), {})
      BY RetireHistory
    <3>4. Unavailable(Retire(s, U)) = Unavailable(s) \ U
      BY <2>1, RetireHistory
    <3> HIDE DEF kept
    <3>5. QED
      BY <3>1, <3>2, <3>3, <3>4
  <2>2. CASE ~CleanupUnavailable
    BY <2>2 DEF CursorsKept
  <2>3. QED
    BY <2>1, <2>2
<1>2. Recover(s) = t
  BY DEF Recover, Unavailable
<1> HIDE DEF kept, C
<1>3. /\ Tree(t) /\ CursorsKept(kept, t, {}) /\ DOMAIN t = DOMAIN kept
      /\ Unavailable(t) = Unavailable(kept) \ C
  BY <1>1, SetStateHistory
<1> HIDE DEF t
<1>4. CursorsKept(s, t, {})
  <2>1. DOMAIN kept \subseteq DOMAIN s
    BY DEF kept, Delete
  <2>2. QED
    BY <1>1, <1>3, <2>1 DEF CursorsKept
<1>5. QED
  BY <1>1, <1>2, <1>3, <1>4
-----------------------------------------------------------------------------
(* The two ways a slot changes the history. *)

(* CursorMonotone, of one step.                                             *)
CursorStep ==
    \A c \in DOMAIN store \cap DOMAIN store' :
      \/ store'[c].cursor = store[c].cursor
      \/ store'[c].cursor = Advance(DatasetSize, BatchSize, store[c].cursor)

(* A running slot's parent and chain are in the store, its parent is its    *)
(* own and in nobody's chain.                                              *)
LEMMA SlotCandidates ==
    ASSUME IInv, SlotsRun, NEW i \in Running
    PROVE  /\ tasks[i].chain \subseteq Unavailable(store) \cap DOMAIN store
           /\ \A j \in Running \ {i} : /\ tasks[j].parent # tasks[i].parent
                                       /\ tasks[i].parent \notin tasks[j].chain
                                       /\ tasks[j].chain \cap tasks[i].chain = {}
<1>1. /\ \A j \in Running : \A c \in tasks[j].chain : /\ c \in DOMAIN store
                                                      /\ store[c].state = "unavailable"
      /\ \A j \in Running \ {i} : tasks[j].chain \cap tasks[i].chain = {}
  BY DEF IInv, Chains
<1>2. \A j \in Running : tasks[j].parent = tasks[i].parent => i = j
  BY DEF IInv, Ownership, SlotsRun
<1>3. store[tasks[i].parent].state = "evolving"
  BY RunningSlot
<1>4. QED
  BY <1>1, <1>2, <1>3 DEF Unavailable, PoolByState

(* The slots that run after a step find their candidates in the new store.  *)
LEMMA SlotCandidatesNext ==
    ASSUME IInv', main' # "down", NEW j \in Running'
    PROVE  /\ tasks'[j].parent \in DOMAIN store'
           /\ tasks'[j].chain \subseteq DOMAIN store'
<1>1. tasks'[j].parent \in Evolving(store')
  BY DEF IInv, Ownership, Parents
<1>2. QED
  BY <1>1 DEF IInv, Chains, Evolving, PoolByState

(* The slot goes on to its next await with the locals t.                    *)
LEMMA MovesHistory ==
    ASSUME IInv, HInv, IInv', SlotsRun, NEW i \in Running, NEW t,
           t.pc \in Awaiting, t.parent = tasks[i].parent,
           tasks' = [tasks EXCEPT ![i] = t],
           Tree(store'), CursorsKept(store, store', {}),
           TidyChain(t), FreshTask(t, store'),
           CleanupUnavailable =>
               Unavailable(store') = (Unavailable(store) \ tasks[i].chain) \cup t.chain,
           stats'.iteration = stats.iteration, stats'.root = stats.root,
           stats'.total = stats.total, stats'.rejected = stats.rejected,
           UNCHANGED <<saved, recorded, main, permits, awaited, limitHit, restarts>>
    PROVE  HInv' /\ CursorStep
<1>1. i \in Iterations /\ tasks \in [Iterations -> Task]
  BY DEF IInv, TypeOK, Running
<1>2. tasks'[i] = t /\ \A j \in Iterations \ {i} : tasks'[j] = tasks[j]
  BY <1>1
<1>3. Running' = Running
  BY <1>1, <1>2 DEF Running
<1>4. \A j \in Running \ {i} : tasks'[j] = tasks[j]
  BY <1>2 DEF Running
<1>5. Tidy'
  BY <1>2, <1>3, <1>4 DEF HInv, Tidy
<1>6. Fresh'
  <2> SUFFICES ASSUME NEW j \in Running' PROVE FreshTask(tasks'[j], store')
    BY DEF Fresh
  <2>1. CASE j = i
    BY <1>2, <2>1
  <2>2. CASE j # i
    <3>1. j \in Running /\ tasks'[j] = tasks[j] /\ FreshTask(tasks[j], store)
      BY <1>3, <1>4, <2>2 DEF HInv, Fresh
    <3>2. main' # "down"
      BY DEF SlotsRun
    <3>3. tasks[j].parent \in DOMAIN store' /\ tasks[j].chain \subseteq DOMAIN store'
      BY <3>1, <3>2, SlotCandidatesNext
    <3>4. tasks[j].parent \in DOMAIN store /\ tasks[j].chain \subseteq DOMAIN store
      BY <3>1, RunningSlot, SlotCandidates
    <3>5. QED
      BY <3>1, <3>3, <3>4 DEF FreshTask, CursorsKept
  <2>3. QED
    BY <2>1, <2>2
<1>7. Leftovers'
  <2>1. Owned' = (Owned \ tasks[i].chain) \cup t.chain
    <3>1. \A j \in Running \ {i} : tasks[j].chain \cap tasks[i].chain = {}
      BY SlotCandidates
    <3>2. Owned' = UNION {tasks'[j].chain : j \in Running}
      BY <1>3 DEF Owned
    <3>3. QED
      BY <1>2, <1>4, <3>1, <3>2 DEF Owned
  <2>2. QED
    BY <2>1 DEF HInv, Leftovers, SlotsRun
<1>8. Recorded' /\ Drained'
  BY <1>3 DEF HInv, Recorded, Drained, SlotsRun
<1>9. CursorStep
  BY DEF CursorStep, CursorsKept
<1>10. QED
  BY <1>5, <1>6, <1>7, <1>8, <1>9 DEF HInv

(* What an ended slot adds to the statistics.                               *)
LEMMA BookedCounts ==
    ASSUME stats \in Statistics, NEW s, NEW accepted \in BOOLEAN
    PROVE  LET booked == Booked(s, accepted) IN
           /\ booked.iteration = stats.iteration /\ booked.root = stats.root
           /\ booked.total + booked.rejected = stats.total + stats.rejected + 1
<1> DEFINE counted == [stats EXCEPT !.total = @ + (IF accepted THEN 1 ELSE 0),
                                    !.rejected = @ + (IF accepted THEN 0 ELSE 1)]
           b == CHOOSE c \in BestCandidates(s) : TRUE
           avg == EA!AvgScore(s[b].scores)
<1>1. /\ counted.iteration = stats.iteration /\ counted.root = stats.root
      /\ counted.total = stats.total + (IF accepted THEN 1 ELSE 0)
      /\ counted.rejected = stats.rejected + (IF accepted THEN 0 ELSE 1)
      /\ stats.total \in Nat /\ stats.rejected \in Nat
      /\ DOMAIN counted = DOMAIN stats
  BY DEF Statistics
<1> HIDE DEF counted, avg, b
<1>2. \/ Booked(s, accepted) = counted
      \/ Booked(s, accepted) = [counted EXCEPT !.best = b, !.bestAvg = avg]
  BY DEF Booked, counted, avg, b
<1>3. /\ Booked(s, accepted).iteration = counted.iteration
      /\ Booked(s, accepted).root = counted.root
      /\ Booked(s, accepted).total = counted.total
      /\ Booked(s, accepted).rejected = counted.rejected
  BY <1>1, <1>2 DEF Statistics
<1>4. counted.total + counted.rejected = stats.total + stats.rejected + 1
  BY <1>1
<1>5. QED
  BY <1>1, <1>3, <1>4

(* The slot ends with the store s.                                          *)
LEMMA EndsHistory ==
    ASSUME IInv, HInv, IInv', SlotsRun, NEW i \in Running, NEW s, NEW accepted \in BOOLEAN,
           EndSlot(i, s, accepted),
           Tree(s), CursorsKept(store, s, {tasks[i].parent}),
           tasks[i].parent \in DOMAIN s =>
               \/ s[tasks[i].parent].cursor = store[tasks[i].parent].cursor
               \/ s[tasks[i].parent].cursor =
                     Advance(DatasetSize, BatchSize, store[tasks[i].parent].cursor),
           CleanupUnavailable /\ ~RolloutMayFail =>
               Unavailable(s) = Unavailable(store) \ tasks[i].chain
    PROVE  HInv' /\ CursorStep
<1>1. i \in Iterations /\ tasks \in [Iterations -> Task] /\ stats \in Statistics
  BY DEF IInv, TypeOK, Running
<1>2. /\ store' = s /\ main' = main /\ restarts' = restarts
      /\ stats' = Booked(s, accepted)
      /\ recorded' = recorded + 1 /\ permits' = permits + 1
      /\ tasks' = [tasks EXCEPT ![i] = IdleTask("released")]
  BY DEF EndSlot
<1>3. IdleTask("released").pc \notin Awaiting
  BY DEF IdleTask, Awaiting
<1>4. /\ tasks'[i] = IdleTask("released")
      /\ \A j \in Iterations \ {i} : tasks'[j] = tasks[j]
  BY <1>1, <1>2
<1>5. Running' = Running \ {i} /\ \A j \in Running' : tasks'[j] = tasks[j]
  BY <1>1, <1>3, <1>4 DEF Running
<1>6. Tidy'
  BY <1>5 DEF HInv, Tidy
<1>7. Fresh'
  <2> SUFFICES ASSUME NEW j \in Running' PROVE FreshTask(tasks'[j], store')
    BY DEF Fresh
  <2>1. j \in Running \ {i} /\ tasks'[j] = tasks[j] /\ FreshTask(tasks[j], store)
    BY <1>5 DEF HInv, Fresh
  <2>2. main' # "down"
    BY <1>2 DEF SlotsRun
  <2>3. tasks[j].parent \in DOMAIN s /\ tasks[j].chain \subseteq DOMAIN s
    BY <1>2, <2>1, <2>2, SlotCandidatesNext
  <2>4. tasks[j].parent \in DOMAIN store /\ tasks[j].chain \subseteq DOMAIN store
    BY <2>1, RunningSlot, SlotCandidates
  <2>5. tasks[j].parent # tasks[i].parent /\ tasks[i].parent \notin tasks[j].chain
    BY <2>1, SlotCandidates
  <2>6. QED
    BY <1>2, <2>1, <2>3, <2>4, <2>5 DEF FreshTask, CursorsKept
<1>8. Leftovers'
  <2>1. Owned' = Owned \ tasks[i].chain
    <3>1. \A j \in Running \ {i} : tasks[j].chain \cap tasks[i].chain = {}
      BY SlotCandidates
    <3>2. Owned' = UNION {tasks[j].chain : j \in Running \ {i}}
      BY <1>5 DEF Owned
    <3>3. QED
      BY <3>1, <3>2 DEF Owned
  <2>2. QED
    BY <1>2, <2>1 DEF HInv, Leftovers, SlotsRun
<1>9. Recorded'
  <2>1. /\ stats'.iteration = stats.iteration /\ stats'.root = stats.root
        /\ stats'.total + stats'.rejected = stats.total + stats.rejected + 1
    BY <1>1, <1>2, BookedCounts
  <2>2. /\ recorded \in Nat /\ permits \in Nat /\ NumProposals \in Nat
        /\ stats.total \in Nat /\ stats.rejected \in Nat
    BY <1>1, ConstantTypes DEF IInv, TypeOK, Statistics
  <2>3. QED
    BY <1>2, <2>1, <2>2 DEF HInv, Recorded, SlotsRun
<1>10. Drained'
  BY <1>2 DEF Drained, SlotsRun
<1>11. CursorStep
  BY <1>2 DEF CursorStep, CursorsKept
<1>12. QED
  BY <1>2, <1>6, <1>7, <1>8, <1>9, <1>10, <1>11 DEF HInv

(* The slot completes from a store s that has its chain behind it.          *)
LEMMA CompletesHistory ==
    ASSUME IInv, HInv, IInv', SlotsRun, NEW i \in Running, NEW s, NEW accepted \in BOOLEAN,
           Completed(i, s, accepted), tasks[i].pc # "new",
           StoreType(s, lastId), Evolving(s) = Evolving(store),
           DOMAIN s \subseteq DOMAIN store, Tree(s), CursorsKept(store, s, {}),
           CleanupUnavailable => Unavailable(s) = Unavailable(store) \ tasks[i].chain
    PROVE  HInv' /\ CursorStep
<1> DEFINE p == tasks[i].parent
           moved == SetProgress(s, p, tasks[i].advanced)
           back == SetState(moved, {p}, "pending")
           E == EA!Eliminated(back)
           out == Retire(back, E)
<1>1. EndSlot(i, out, accepted)
  BY DEF Completed
<1>2. /\ p \in Evolving(s) /\ lastId \in Nat /\ tasks[i].advanced \in Cursor
      /\ p \in DOMAIN store
  BY RunningSlot DEF Parents, Task
<1>3. p \in DOMAIN s /\ p \notin Unavailable(s)
  BY <1>2 DEF Evolving, Unavailable, PoolByState
<1>4. /\ StoreType(moved, lastId) /\ Tree(moved) /\ CursorsKept(s, moved, {p})
      /\ DOMAIN moved = DOMAIN s /\ moved[p].cursor = tasks[i].advanced
      /\ Unavailable(moved) = Unavailable(s)
  BY <1>2, <1>3, SetProgressHistory, SetProgressEffect
<1> HIDE DEF moved
<1>5. StoreType(back, lastId)
  BY <1>2, <1>4, SetStateEffect DEF CandidateState
<1>6. /\ Tree(back) /\ CursorsKept(moved, back, {}) /\ DOMAIN back = DOMAIN moved
      /\ Unavailable(back) = Unavailable(moved) \ {p}
  BY <1>2, <1>4, SetStateHistory
<1>7. E \cap Unavailable(back) = {}
  BY EliminatedPending DEF Unavailable, PoolByState
<1> HIDE DEF back, E
<1>8. /\ Tree(out) /\ CursorsKept(back, out, {}) /\ DOMAIN out \subseteq DOMAIN back
      /\ CleanupUnavailable => Unavailable(out) = Unavailable(back) \ E
  BY <1>2, <1>5, <1>6, RetireHistory
<1> HIDE DEF out, p
<1>9. CursorsKept(store, out, {p})
  BY <1>4, <1>6, <1>8 DEF CursorsKept
<1>10. p \in DOMAIN out => out[p].cursor = tasks[i].advanced
  BY <1>3, <1>4, <1>6, <1>8 DEF CursorsKept
<1>11. tasks[i].advanced = Advance(DatasetSize, BatchSize, store[p].cursor)
  BY DEF HInv, Fresh, FreshTask, p
<1>12. CleanupUnavailable => Unavailable(out) = Unavailable(store) \ tasks[i].chain
  BY <1>3, <1>4, <1>6, <1>7, <1>8
<1>13. QED
  BY <1>1, <1>8, <1>9, <1>10, <1>11, <1>12, EndsHistory DEF p
-----------------------------------------------------------------------------
(* The slots' shared helpers. *)

LEMMA CountKeeps ==
    ASSUME NEW st \in Statistics
    PROVE  /\ \A u \in {CountTrain(st), CountVal(st)} :
                 /\ u.iteration = st.iteration /\ u.root = st.root
                 /\ u.total = st.total /\ u.rejected = st.rejected
BY DEF CountTrain, CountVal, Statistics

(* A slot that starts a rollout: the store stays.                           *)
LEMMA AwaitRolloutHistory ==
    ASSUME IInv, HInv, IInv', SlotsRun, NEW i \in Running, NEW t,
           NEW st \in {CountTrain(stats), CountVal(stats)},
           AwaitRollout(i, t, st), store' = store,
           t.pc \in Awaiting, t.parent = tasks[i].parent, t.chain = tasks[i].chain,
           TidyChain(t), FreshTask(t, store)
    PROVE  HInv' /\ CursorStep
<1>1. /\ tasks' = [tasks EXCEPT ![i] = t] /\ stats' = st
      /\ UNCHANGED <<saved, recorded, main, permits, awaited, limitHit, restarts>>
  BY DEF AwaitRollout
<1>2. /\ stats'.iteration = stats.iteration /\ stats'.root = stats.root
      /\ stats'.total = stats.total /\ stats'.rejected = stats.rejected
  BY <1>1, CountKeeps DEF IInv, TypeOK
<1>3. Tree(store') /\ CursorsKept(store, store', {}) /\ FreshTask(t, store')
  BY DEF HInv, CursorsKept
<1>4. Unavailable(store') = (Unavailable(store) \ tasks[i].chain) \cup t.chain
  BY SlotCandidates
<1>5. QED
  BY <1>1, <1>2, <1>3, <1>4, MovesHistory

(* A slot that creates a child at its own advanced cursor.                  *)
LEMMA AwaitProposerHistory ==
    ASSUME IInv, HInv, IInv', SlotsRun, NEW i \in Running, NEW from \in DOMAIN store,
           NEW t \in Task, AwaitProposer(i, from, t.advanced, t),
           tasks[i].pc # "new",
           t.pc \in {"propose", "reflect"}, t.parent = tasks[i].parent,
           t.chain = tasks[i].chain, t.advanced = tasks[i].advanced,
           t.pc = "propose" => tasks[i].chain = {}
    PROVE  HInv' /\ CursorStep
<1> DEFINE u == [t EXCEPT !.child = lastId', !.chain = @ \cup {lastId'}]
           n == lastId + 1
<1>1. /\ lastId \in Nat /\ StoreType(store, lastId) /\ lastId' = n
      /\ tasks[i].parent \in DOMAIN store
  BY RunningSlot DEF AwaitProposer
<1>2. /\ store' = CreateChild(store, from, n, t.advanced) /\ t.advanced \in Cursor
      /\ tasks' = [tasks EXCEPT ![i] = u] /\ stats' = stats
      /\ UNCHANGED <<saved, recorded, main, permits, awaited, limitHit, restarts>>
  BY <1>1 DEF AwaitProposer, Task
<1>3. /\ Tree(store') /\ CursorsKept(store, store', {}) /\ DOMAIN store' = DOMAIN store \cup {n}
      /\ n \notin DOMAIN store /\ store'[n].cursor = t.advanced
      /\ Unavailable(store') = Unavailable(store) \cup {n}
  BY <1>1, <1>2, CreateChildHistory DEF HInv
<1>4. /\ u.pc = t.pc /\ u.parent = t.parent /\ u.advanced = t.advanced
      /\ u.child = n /\ u.chain = tasks[i].chain \cup {n}
  BY <1>1 DEF Task
<1> HIDE DEF u, n
<1>5. TidyChain(u) /\ u.pc \in Awaiting
  BY <1>4 DEF TidyChain, Awaiting
<1>6. FreshTask(tasks[i], store) /\ tasks[i].chain \subseteq DOMAIN store
  BY SlotCandidates DEF HInv, Fresh
<1>7. FreshTask(u, store')
  <2>1. \A c \in tasks[i].chain \cup {tasks[i].parent} : store'[c].cursor = store[c].cursor
    BY <1>1, <1>3, <1>6 DEF CursorsKept
  <2>2. QED
    BY <1>3, <1>4, <1>6, <2>1 DEF FreshTask
<1>8. Unavailable(store') = (Unavailable(store) \ tasks[i].chain) \cup u.chain
  BY <1>3, <1>4, SlotCandidates
<1>9. QED
  BY <1>2, <1>3, <1>4, <1>5, <1>7, <1>8, MovesHistory

(* Retiring the chain of a slot, or all of it but one.                      *)
LEMMA RetireChainHistory ==
    ASSUME IInv, HInv, SlotsRun, NEW i \in Running
    PROVE  LET s == Retire(store, tasks[i].chain) IN
           /\ Tree(s) /\ CursorsKept(store, s, {}) /\ DOMAIN s \subseteq DOMAIN store
           /\ CleanupUnavailable => Unavailable(s) = Unavailable(store) \ tasks[i].chain
<1>1. lastId \in Nat /\ StoreType(store, lastId) /\ Tree(store)
  BY RunningSlot DEF HInv
<1>2. QED
  BY <1>1, RetireHistory

(* A slot whose chain is rejected.                                          *)
LEMMA ChainRejectedHistory ==
    ASSUME IInv, HInv, IInv', SlotsRun, NEW i \in Running, tasks[i].pc # "new",
           Completed(i, Retire(store, tasks[i].chain), FALSE)
    PROVE  HInv' /\ CursorStep
<1> DEFINE s == Retire(store, tasks[i].chain)
<1>1. StoreType(s, lastId) /\ Evolving(s) = Evolving(store)
  BY RetireChain
<1>2. /\ Tree(s) /\ CursorsKept(store, s, {}) /\ DOMAIN s \subseteq DOMAIN store
      /\ CleanupUnavailable => Unavailable(s) = Unavailable(store) \ tasks[i].chain
  BY RetireChainHistory
<1> HIDE DEF s
<1>3. Completed(i, s, FALSE)
  BY DEF s
<1>4. QED
  BY <1>1, <1>2, <1>3, CompletesHistory

LEMMA EndChainHistory ==
    ASSUME IInv, HInv, IInv', SlotsRun, NEW i \in Running, tasks[i].pc # "new",
           NEW b \in tasks[i].chain, NEW sum \in Nat, EndChain(i, b, sum)
    PROVE  HInv' /\ CursorStep
<1>1. CASE sum > tasks[i].parentSum
  <2> DEFINE t == [tasks[i] EXCEPT !.pc = "validate", !.best = b, !.bestSum = sum,
                                   !.chain = {b}]
             C == tasks[i].chain \ {b}
  <2>1. /\ store' = Retire(store, C) /\ tasks' = [tasks EXCEPT ![i] = t]
        /\ stats' = CountVal(stats)
        /\ UNCHANGED <<saved, recorded, main, permits, awaited, limitHit, restarts>>
    BY <1>1 DEF EndChain, AwaitRollout
  <2>2. /\ tasks[i] \in Task /\ lastId \in Nat /\ StoreType(store, lastId) /\ Tree(store)
        /\ tasks[i].parent \in DOMAIN store
    BY RunningSlot DEF HInv
  <2>3. /\ t.pc = "validate" /\ t.parent = tasks[i].parent /\ t.advanced = tasks[i].advanced
        /\ t.best = b /\ t.chain = {b}
    BY <2>2 DEF Task
  <2>4. /\ Tree(store') /\ CursorsKept(store, store', {})
        /\ CleanupUnavailable => Unavailable(store') = Unavailable(store) \ C
    BY <2>1, <2>2, RetireHistory
  <2>5. /\ stats'.iteration = stats.iteration /\ stats'.root = stats.root
        /\ stats'.total = stats.total /\ stats'.rejected = stats.rejected
    BY <2>1, CountKeeps DEF IInv, TypeOK
  <2>6. tasks[i].chain \subseteq Unavailable(store) \cap DOMAIN store
    BY SlotCandidates
  <2> HIDE DEF t
  <2>7. TidyChain(t) /\ t.pc \in Awaiting
    BY <2>3 DEF TidyChain, Awaiting
  <2>8. /\ i \in Running' /\ tasks'[i] = t /\ main' # "down"
    <3>1. i \in Iterations /\ tasks \in [Iterations -> Task]
      BY DEF IInv, TypeOK, Running
    <3>2. tasks'[i] = t
      BY <2>1, <3>1
    <3>3. QED
      BY <2>1, <2>7, <3>1, <3>2 DEF Running, SlotsRun
  <2>9. t.parent \in DOMAIN store' /\ t.chain \subseteq DOMAIN store'
    BY <2>8, SlotCandidatesNext
  <2>10. FreshTask(t, store')
    BY <2>2, <2>3, <2>4, <2>6, <2>9 DEF FreshTask, CursorsKept, HInv, Fresh
  <2>11. CleanupUnavailable =>
            Unavailable(store') = (Unavailable(store) \ tasks[i].chain) \cup t.chain
    BY <2>3, <2>4, <2>6
  <2>12. QED
    BY <2>1, <2>3, <2>4, <2>5, <2>7, <2>10, <2>11, MovesHistory
<1>2. CASE ~(sum > tasks[i].parentSum)
  BY <1>2, ChainRejectedHistory DEF EndChain
<1>3. QED
  BY <1>1, <1>2
-----------------------------------------------------------------------------
(* The steps of a slot. *)

LEMMA SlotStartHistory ==
    ASSUME IInv, HInv, IInv', SlotsRun, NEW i \in Running, SlotStart(i)
    PROVE  HInv' /\ CursorStep
<1> DEFINE adv == Advance(DatasetSize, BatchSize, store[tasks[i].parent].cursor)
           t == [tasks[i] EXCEPT !.pc = "parent", !.advanced = adv]
<1>1. tasks[i] \in Task /\ tasks[i].pc = "new" /\ TidyChain(tasks[i])
  BY RunningSlot DEF SlotStart, HInv, Tidy
<1>2. /\ t.pc = "parent" /\ t.parent = tasks[i].parent /\ t.advanced = adv
      /\ t.chain = tasks[i].chain /\ tasks[i].chain = {}
  BY <1>1 DEF Task, TidyChain
<1>3. AwaitRollout(i, t, CountTrain(stats)) /\ store' = store
  BY DEF SlotStart
<1>4. FreshTask(t, store) /\ TidyChain(t) /\ t.pc \in Awaiting
  BY <1>2 DEF FreshTask, TidyChain, Awaiting
<1> HIDE DEF t
<1>5. QED
  BY <1>2, <1>3, <1>4, AwaitRolloutHistory

LEMMA ParentPerfectHistory ==
    ASSUME IInv, HInv, IInv', SlotsRun, NEW i \in Running, ParentPerfect(i)
    PROVE  HInv' /\ CursorStep
<1>1. /\ tasks[i].chain = {} /\ tasks[i].pc # "new" /\ Tree(store)
      /\ StoreType(store, lastId) /\ Completed(i, store, FALSE)
  BY RunningSlot DEF ParentPerfect, HInv, Tidy, TidyChain
<1>2. CursorsKept(store, store, {}) /\ Unavailable(store) = Unavailable(store) \ tasks[i].chain
  BY <1>1 DEF CursorsKept
<1>3. QED
  BY <1>1, <1>2, CompletesHistory

LEMMA ParentEvaluatedHistory ==
    ASSUME IInv, HInv, IInv', SlotsRun, NEW i \in Running, ParentEvaluated(i)
    PROVE  HInv' /\ CursorStep
<1>1. PICK sum \in 0 .. PerfectSum - 1 :
         AwaitProposer(i, tasks[i].parent, tasks[i].advanced,
                       [tasks[i] EXCEPT !.pc = "propose", !.parentSum = sum])
  BY DEF ParentEvaluated
<1> DEFINE t == [tasks[i] EXCEPT !.pc = "propose", !.parentSum = sum]
<1>2. /\ tasks[i] \in Task /\ tasks[i].parent \in DOMAIN store
      /\ tasks[i].pc = "parent" /\ tasks[i].chain = {}
  BY RunningSlot DEF ParentEvaluated, HInv, Tidy, TidyChain
<1>3. sum \in Nat
  BY ConstantTypes
<1>4. /\ t \in Task /\ t.pc = "propose" /\ t.parent = tasks[i].parent
      /\ t.chain = tasks[i].chain /\ t.advanced = tasks[i].advanced
  BY <1>2, <1>3 DEF Task, TaskPC, Awaiting
<1> HIDE DEF t
<1>5. AwaitProposer(i, tasks[i].parent, t.advanced, t)
  BY <1>1, <1>4 DEF t
<1>6. QED
  BY <1>2, <1>4, <1>5, AwaitProposerHistory

(* The two steps that run a child after its proposer has succeeded.         *)
LEMMA RunChildHistory ==
    ASSUME IInv, HInv, IInv', SlotsRun, NEW i \in Running, Proposed(i) \/ Reflected(i)
    PROVE  HInv' /\ CursorStep
<1>1. PICK pc \in {"child", "chain"} :
         /\ AwaitRollout(i, [tasks[i] EXCEPT !.pc = pc], CountTrain(stats))
         /\ store' = store
         /\ tasks[i].pc \in {"propose", "reflect"}
         /\ pc = "child" => tasks[i].pc = "propose"
  BY DEF Proposed, Reflected
<1> DEFINE t == [tasks[i] EXCEPT !.pc = pc]
<1>2. tasks[i] \in Task /\ TidyChain(tasks[i]) /\ FreshTask(tasks[i], store)
  BY RunningSlot DEF HInv, Tidy, Fresh
<1>3. /\ t.pc = pc /\ t.parent = tasks[i].parent /\ t.advanced = tasks[i].advanced
      /\ t.chain = tasks[i].chain /\ t.child = tasks[i].child
  BY <1>2 DEF Task
<1> HIDE DEF t
<1>4. AwaitRollout(i, t, CountTrain(stats))
  BY <1>1 DEF t
<1>5. TidyChain(t) /\ FreshTask(t, store) /\ t.pc \in Awaiting
  BY <1>1, <1>2, <1>3 DEF TidyChain, FreshTask, Awaiting
<1>6. QED
  BY <1>1, <1>3, <1>4, <1>5, AwaitRolloutHistory

LEMMA ChildAcceptedHistory ==
    ASSUME IInv, HInv, IInv', SlotsRun, NEW i \in Running, ChildAccepted(i)
    PROVE  HInv' /\ CursorStep
<1>1. PICK sum \in 0 .. PerfectSum :
         AwaitRollout(i, [tasks[i] EXCEPT !.pc = "validate", !.best = tasks[i].child,
                                          !.bestSum = sum], CountVal(stats))
  BY DEF ChildAccepted
<1> DEFINE t == [tasks[i] EXCEPT !.pc = "validate", !.best = tasks[i].child, !.bestSum = sum]
<1>2. /\ tasks[i] \in Task /\ TidyChain(tasks[i]) /\ FreshTask(tasks[i], store)
      /\ tasks[i].pc = "child" /\ store' = store
  BY RunningSlot DEF HInv, Tidy, Fresh, ChildAccepted
<1>3. /\ t.pc = "validate" /\ t.parent = tasks[i].parent /\ t.advanced = tasks[i].advanced
      /\ t.chain = tasks[i].chain /\ t.best = tasks[i].child
  BY <1>2 DEF Task
<1> HIDE DEF t
<1>4. AwaitRollout(i, t, CountVal(stats))
  BY <1>1 DEF t
<1>5. TidyChain(t) /\ FreshTask(t, store) /\ t.pc \in Awaiting
  BY <1>2, <1>3 DEF TidyChain, FreshTask, Awaiting
<1>6. QED
  BY <1>2, <1>3, <1>4, <1>5, AwaitRolloutHistory

(* A reflection child carries its parent's cursor, which is the slot's.     *)
LEMMA NextReflectionHistory ==
    ASSUME IInv, HInv, IInv', SlotsRun, NEW i \in Running, tasks[i].pc \in {"child", "chain"},
           NEW best \in tasks[i].chain, NEW top \in Nat,
           NextReflection(i, [tasks[i] EXCEPT !.best = best, !.bestSum = top])
    PROVE  HInv' /\ CursorStep
<1> DEFINE u == [tasks[i] EXCEPT !.best = best, !.bestSum = top]
           t == [u EXCEPT !.pc = "reflect", !.depth = @ + 1]
<1>1. tasks[i] \in Task /\ LocalOK(tasks[i], lastId) /\ StoreType(store, lastId)
  BY RunningSlot, KeepsStore
<1>2. tasks[i].child \in tasks[i].chain
  BY <1>1 DEF LocalOK
<1>3. tasks[i].child \in DOMAIN store /\ best \in DOMAIN store
  BY <1>2, SlotCandidates
<1>4. best \in Nat
  BY <1>1, <1>3 DEF StoreType
<1>5. /\ u \in Task /\ u.child = tasks[i].child /\ u.parent = tasks[i].parent
      /\ u.chain = tasks[i].chain /\ u.advanced = tasks[i].advanced
  BY <1>1, <1>4 DEF Task
<1>6. store[u.child].cursor = tasks[i].advanced
  BY <1>2, <1>5 DEF HInv, Fresh, FreshTask
<1> HIDE DEF u
<1>7. /\ t \in Task /\ t.pc = "reflect" /\ t.parent = tasks[i].parent
      /\ t.chain = tasks[i].chain /\ t.advanced = tasks[i].advanced
  <2>1. "reflect" \in TaskPC /\ u.depth + 1 \in Nat
    BY <1>5 DEF TaskPC, Awaiting, Task
  <2>2. QED
    BY <1>5, <2>1 DEF Task
<1>8. AwaitProposer(i, u.child, store[u.child].cursor, t)
  BY DEF NextReflection, u
<1> HIDE DEF t
<1>9. AwaitProposer(i, tasks[i].child, t.advanced, t)
  BY <1>5, <1>6, <1>7, <1>8
<1>10. QED
  BY <1>3, <1>7, <1>9, AwaitProposerHistory

LEMMA ChildReflectsHistory ==
    ASSUME IInv, HInv, IInv', SlotsRun, NEW i \in Running, ChildReflects(i)
    PROVE  HInv' /\ CursorStep
<1>1. PICK sum \in 0 .. PerfectSum :
         NextReflection(i, [tasks[i] EXCEPT !.best = tasks[i].child, !.bestSum = sum])
  BY DEF ChildReflects
<1>2. sum \in Nat /\ tasks[i].pc = "child"
  BY ConstantTypes DEF ChildReflects
<1>3. tasks[i].child \in tasks[i].chain
  BY <1>2, KeepsStore DEF LocalOK
<1>4. QED
  BY <1>1, <1>2, <1>3, NextReflectionHistory

LEMMA ReflectFailedHistory ==
    ASSUME IInv, HInv, IInv', SlotsRun, NEW i \in Running, ReflectFailed(i)
    PROVE  HInv' /\ CursorStep
<1>1. tasks[i].best \in tasks[i].chain /\ tasks[i].pc = "reflect"
  BY KeepsStore DEF LocalOK, ReflectFailed
<1>2. tasks[i].bestSum \in Nat
  BY RunningSlot DEF Task
<1>3. EndChain(i, tasks[i].best, tasks[i].bestSum)
  BY DEF ReflectFailed
<1>4. QED
  BY <1>1, <1>2, <1>3, EndChainHistory

LEMMA ChainEvaluatedHistory ==
    ASSUME IInv, HInv, IInv', SlotsRun, NEW i \in Running, ChainEvaluated(i)
    PROVE  HInv' /\ CursorStep
<1>1. PICK sum \in 0 .. PerfectSum :
         LET better == sum > tasks[i].bestSum
             best   == IF better THEN tasks[i].child ELSE tasks[i].best
             top    == IF better THEN sum ELSE tasks[i].bestSum
         IN  IF Clears(tasks[i].parentSum, sum) \/ tasks[i].depth = MaxReflections
             THEN EndChain(i, best, top)
             ELSE NextReflection(i, [tasks[i] EXCEPT !.best = best, !.bestSum = top])
  BY DEF ChainEvaluated
<1> DEFINE best == IF sum > tasks[i].bestSum THEN tasks[i].child ELSE tasks[i].best
           top == IF sum > tasks[i].bestSum THEN sum ELSE tasks[i].bestSum
<1>2. tasks[i].pc = "chain" /\ sum \in Nat
  BY ConstantTypes DEF ChainEvaluated
<1>3. tasks[i].child \in tasks[i].chain /\ tasks[i].best \in tasks[i].chain
  BY <1>2, KeepsStore DEF LocalOK
<1>4. tasks[i].bestSum \in Nat
  BY RunningSlot DEF Task
<1>5. best \in tasks[i].chain /\ top \in Nat
  BY <1>2, <1>3, <1>4
<1>6. \/ EndChain(i, best, top)
      \/ NextReflection(i, [tasks[i] EXCEPT !.best = best, !.bestSum = top])
  BY <1>1
<1> HIDE DEF best, top
<1>7. QED
  BY <1>2, <1>5, <1>6, EndChainHistory, NextReflectionHistory

(* The validated child leaves its slot's chain for the pool.                *)
LEMMA ValidatedHistory ==
    ASSUME IInv, HInv, IInv', SlotsRun, NEW i \in Running, Validated(i)
    PROVE  HInv' /\ CursorStep
<1> DEFINE b == tasks[i].best
<1>1. PICK v \in ValScores : Completed(i, JoinsPool(store, b, v), TRUE)
  BY DEF Validated, JoinsPool
<1> DEFINE s == JoinsPool(store, b, v)
<1>2. tasks[i].pc = "validate" /\ tasks[i].chain = {b} /\ Tree(store)
  BY DEF Validated, HInv, Tidy, TidyChain
<1>3. b \in DOMAIN store /\ store[b].state = "unavailable"
  BY <1>2, SlotCandidates DEF Unavailable, PoolByState
<1>4. lastId \in Nat /\ StoreType(store, lastId) /\ v \in ScoreList
  BY RunningSlot, ScoreLists
<1>5. /\ StoreType(s, lastId) /\ Effect(store, s, {b}) /\ DOMAIN s = DOMAIN store
      /\ s[b].scores = v /\ s[b].state = "pending"
  BY <1>3, <1>4, JoinsPoolEffect
<1>6. /\ Tree(s) /\ CursorsKept(store, s, {})
      /\ Unavailable(s) = Unavailable(store) \ {b}
  BY <1>2, <1>4, JoinsPoolHistory
<1> HIDE DEF b, s
<1>7. Evolving(s) = Evolving(store)
  BY <1>3, <1>5 DEF Evolving, PoolByState, Effect
<1>8. Completed(i, s, TRUE)
  BY <1>1 DEF s
<1>9. QED
  BY <1>2, <1>5, <1>6, <1>7, <1>8, CompletesHistory

LEMMA RolloutRaisesHistory ==
    ASSUME IInv, HInv, IInv', SlotsRun, NEW i \in Running, RolloutRaises(i)
    PROVE  HInv' /\ CursorStep
<1> DEFINE p == tasks[i].parent
           s == SetState(store, {p}, "pending")
<1>1. /\ lastId \in Nat /\ StoreType(store, lastId) /\ Tree(store) /\ p \in DOMAIN store
  BY RunningSlot DEF HInv
<1>2. Tree(s) /\ CursorsKept(store, s, {}) /\ DOMAIN s = DOMAIN store
  BY <1>1, SetStateHistory
<1>3. EndSlot(i, s, FALSE) /\ RolloutMayFail
  BY DEF RolloutRaises
<1> HIDE DEF p, s
<1>4. CursorsKept(store, s, {p}) /\ s[p].cursor = store[p].cursor
  BY <1>1, <1>2 DEF CursorsKept
<1>5. QED
  BY <1>2, <1>3, <1>4, EndsHistory DEF p

LEMMA DiscardHistory ==
    ASSUME IInv, HInv, NEW i \in Iterations, Discard(i)
    PROVE  HInv' /\ CursorStep
<1>1. /\ tasks \in [Iterations -> Task] /\ tasks[i].pc \notin Awaiting
      /\ tasks' = [tasks EXCEPT ![i] = IdleTask("gone")]
      /\ UNCHANGED <<store, lastId, stats, saved, recorded, main, permits, awaited, limitHit,
                     restarts>>
  BY DEF IInv, TypeOK, Discard, Awaiting
<1>2. IdleTask("gone").pc \notin Awaiting
  BY DEF IdleTask, Awaiting
<1>3. Running' = Running /\ \A j \in Running : tasks'[j] = tasks[j]
  BY <1>1, <1>2 DEF Running
<1>4. Owned' = Owned
  BY <1>3 DEF Owned
<1>5. Tree(store)' /\ Tidy' /\ Fresh'
  BY <1>1, <1>3 DEF HInv, Tidy, Fresh
<1>6. Leftovers' /\ Recorded' /\ Drained'
  BY <1>1, <1>3, <1>4 DEF HInv, Leftovers, Recorded, Drained
<1>7. CursorStep
  BY <1>1 DEF CursorStep
<1>8. QED
  BY <1>5, <1>6, <1>7 DEF HInv

LEMMA SlotStepHistory ==
    ASSUME IInv, HInv, IInv', NEW i \in Iterations, SlotStep(i)
    PROVE  HInv' /\ CursorStep
<1>1. SlotsRun
  BY DEF SlotStep, SlotsRun
<1>2. CASE Discard(i)
  BY <1>2, DiscardHistory
<1>3. CASE ~Discard(i)
  <2>1. i \in Running
    BY <1>3 DEF SlotStep, SlotStart, ParentPerfect, ParentEvaluated, Proposed, ProposeFailed,
       ChildAccepted, ChildRejected, ChildReflects, Reflected, ReflectFailed, ChainEvaluated,
       Validated, RolloutRaises, Running, Awaiting
  <2>2. CASE ProposeFailed(i) \/ ChildRejected(i)
    <3>1. Completed(i, Retire(store, tasks[i].chain), FALSE) /\ tasks[i].pc # "new"
      BY <2>2 DEF ProposeFailed, ChildRejected
    <3>2. QED
      BY <1>1, <2>1, <3>1, ChainRejectedHistory
  <2>3. CASE SlotStart(i) \/ ParentPerfect(i) \/ ParentEvaluated(i) \/ Proposed(i) \/ Reflected(i)
    BY <1>1, <2>1, <2>3, SlotStartHistory, ParentPerfectHistory, ParentEvaluatedHistory,
       RunChildHistory
  <2>4. CASE ChildAccepted(i) \/ ChildReflects(i) \/ ReflectFailed(i) \/ ChainEvaluated(i)
    BY <1>1, <2>1, <2>4, ChildAcceptedHistory, ChildReflectsHistory, ReflectFailedHistory,
       ChainEvaluatedHistory
  <2>5. CASE Validated(i) \/ RolloutRaises(i)
    BY <1>1, <2>1, <2>5, ValidatedHistory, RolloutRaisesHistory
  <2>6. QED
    BY <1>3, <2>2, <2>3, <2>4, <2>5 DEF SlotStep
<1>4. QED
  BY <1>2, <1>3
-----------------------------------------------------------------------------
(* The steps of the main coroutine and of the environment. *)

LEMMA QuietOwnsNothing == ASSUME Running = {} PROVE Owned = {}
BY DEF Owned

(* A step that leaves the store, the slots and the counts alone.            *)
LEMMA ControlHistory ==
    ASSUME HInv,
           UNCHANGED <<store, lastId, tasks, permits, stats, recorded, restarts>>,
           main = "down" => main' = "down",
           main' \in {"start", "baseline"} => main' = main,
           main = "baseline" => main' \in {"baseline", "down"},
           main = "start" => main' \in {"start", "down"} \/ stats.root # NoCandidate,
           main' = "done" => Running = {} /\ saved' = stats
    PROVE  HInv' /\ CursorStep
<1>1. Running' = Running /\ Owned' = Owned
  BY DEF Running, Owned
<1>2. Tree(store)' /\ Tidy' /\ Fresh'
  BY <1>1 DEF HInv, Tidy, Fresh
<1>3. Leftovers'
  BY <1>1 DEF HInv, Leftovers
<1>4. Recorded'
  BY DEF HInv, Recorded
<1>5. Drained'
  BY <1>1 DEF Drained
<1>6. CursorStep
  BY DEF CursorStep
<1>7. QED
  BY <1>2, <1>3, <1>4, <1>5, <1>6 DEF HInv

LEMMA StartFromScratchHistory ==
    ASSUME IInv, HInv, StartFromScratch
    PROVE  HInv' /\ CursorStep
<1>1. /\ lastId \in Nat /\ StoreType(store, lastId) /\ stats \in Statistics
      /\ Running = {} /\ Tree(store)
  BY DEF IInv, TypeOK, StoreType, Quiet, HInv, StartFromScratch
<1>2. /\ lastId' = lastId + 1 /\ store' = CreateRoot(store, lastId + 1)
      /\ stats' = CountVal(stats) /\ main' = "baseline" /\ main = "start"
      /\ stats.root = NoCandidate
      /\ UNCHANGED <<saved, recorded, permits, awaited, tasks, limitHit, restarts>>
  BY DEF StartFromScratch
<1>3. /\ Tree(store') /\ CursorsKept(store, store', {})
      /\ Unavailable(store') = Unavailable(store) \cup {lastId'}
  BY <1>1, <1>2, CreateRootHistory
<1>4. Running' = {} /\ Owned = {}
  BY <1>1, <1>2, QuietOwnsNothing DEF Running
<1>5. Tidy' /\ Fresh' /\ Drained'
  BY <1>2, <1>4 DEF Tidy, Fresh, Drained
<1>6. Leftovers'
  BY <1>2, <1>3, <1>4 DEF HInv, Leftovers
<1>7. Recorded'
  <2>1. /\ stats'.iteration = stats.iteration /\ stats'.root = stats.root
        /\ stats'.total = stats.total /\ stats'.rejected = stats.rejected
    BY <1>1, <1>2, CountKeeps
  <2>2. lastId' > 0
    BY <1>1, <1>2
  <2>3. QED
    BY <1>2, <2>1, <2>2 DEF HInv, Recorded
<1>8. CursorStep
  BY <1>3 DEF CursorStep, CursorsKept
<1>9. QED
  BY <1>3, <1>5, <1>6, <1>7, <1>8 DEF HInv

LEMMA BaselineEvaluatedHistory ==
    ASSUME IInv, HInv, BaselineEvaluated
    PROVE  HInv' /\ CursorStep
<1>1. /\ lastId \in Nat /\ StoreType(store, lastId) /\ stats \in Statistics
      /\ Running = {} /\ Tree(store)
  BY DEF IInv, TypeOK, StoreType, Quiet, HInv, BaselineEvaluated
<1>2. PICK v \in ValScores :
         /\ store' = JoinsPool(store, lastId, v)
         /\ stats' = [stats EXCEPT !.root = lastId, !.best = lastId,
                                   !.bestAvg = EA!AvgScore(v), !.total = 1]
  BY DEF BaselineEvaluated, JoinsPool
<1>3. /\ main' = "check" /\ main = "baseline"
      /\ UNCHANGED <<lastId, recorded, permits, awaited, tasks, limitHit, restarts>>
  BY DEF BaselineEvaluated
<1>4. /\ Tree(store') /\ CursorsKept(store, store', {})
      /\ Unavailable(store') = Unavailable(store) \ {lastId}
  BY <1>1, <1>2, ScoreLists, JoinsPoolHistory
<1>5. Running' = {} /\ Owned' = {}
  BY <1>1, <1>3 DEF Running, Owned
<1>6. Tidy' /\ Fresh' /\ Drained'
  BY <1>3, <1>5 DEF Tidy, Fresh, Drained
<1>7. Leftovers'
  BY <1>3, <1>4, <1>5 DEF HInv, Leftovers
<1>8. Recorded'
  <2>1. /\ stats'.iteration = stats.iteration /\ stats'.root = lastId
        /\ stats'.total = 1 /\ stats'.rejected = stats.rejected
    BY <1>1, <1>2 DEF Statistics
  <2>2. QED
    BY <1>1, <1>3, <2>1 DEF HInv, Recorded, NoCandidate
<1>9. CursorStep
  BY <1>4 DEF CursorStep, CursorsKept
<1>10. QED
  BY <1>4, <1>6, <1>7, <1>8, <1>9 DEF HInv

LEMMA OpenSlotHistory ==
    ASSUME IInv, HInv, IInv', OpenSlot
    PROVE  HInv' /\ CursorStep
<1> DEFINE n == stats.iteration + 1
<1>1. PICK c \in EA!Selectable(store) :
         /\ store' = SetState(store, {c}, "evolving")
         /\ tasks' = [tasks EXCEPT ![stats'.iteration] = [IdleTask("new") EXCEPT !.parent = c]]
  BY DEF OpenSlot
<1> DEFINE t == [IdleTask("new") EXCEPT !.parent = c]
<1>2. /\ stats' = [stats EXCEPT !.iteration = @ + 1]
      /\ permits' = permits - 1 /\ main' = "check" /\ main \in {"check", "acquire"}
      /\ UNCHANGED <<lastId, saved, recorded, awaited, limitHit, restarts>>
  BY DEF OpenSlot, HoldsPermit
<1>3. /\ lastId \in Nat /\ StoreType(store, lastId) /\ stats \in Statistics /\ Tree(store)
      /\ tasks \in [Iterations -> Task] /\ tasks' \in [Iterations -> Task]
      /\ permits \in Nat /\ NumProposals \in Nat
  BY ConstantTypes DEF IInv, TypeOK, StoreType, HInv
<1>4. /\ stats'.iteration = n /\ stats'.root = stats.root /\ stats'.total = stats.total
      /\ stats'.rejected = stats.rejected /\ stats.iteration \in Nat
  BY <1>2, <1>3 DEF Statistics
<1>5. t.pc = "new" /\ t.chain = {}
  BY DEF IdleTask
<1>6. c \in DOMAIN store /\ store[c].state = "pending"
  BY SelectablePending
<1>7. /\ Tree(store') /\ CursorsKept(store, store', {}) /\ DOMAIN store' = DOMAIN store
      /\ Unavailable(store') = Unavailable(store) \ {c}
  BY <1>1, <1>3, SetStateHistory
<1>8. Unavailable(store') = Unavailable(store)
  BY <1>6, <1>7 DEF Unavailable, PoolByState
<1> HIDE DEF t
<1>9. tasks' = [tasks EXCEPT ![n] = t]
  BY <1>1, <1>4 DEF t
<1>10. n \in Iterations /\ n \notin Running
  <2>1. ~(stats.iteration >= MaxIterations)
    BY DEF OpenSlot, HoldsPermit, BudgetExhausted
  <2>2. n \in Iterations
    BY <1>4, <2>1, ConstantTypes DEF Iterations
  <2>3. \A j \in Running : j <= stats.iteration
    BY DEF IInv, Counted
  <2>4. QED
    BY <1>4, <2>2, <2>3
<1> HIDE DEF n
<1>11. tasks'[n] = t /\ \A j \in Iterations \ {n} : tasks'[j] = tasks[j]
  BY <1>3, <1>9, <1>10
<1>12. Running' = Running \cup {n} /\ \A j \in Running : tasks'[j] = tasks[j]
  BY <1>5, <1>10, <1>11 DEF Running, Awaiting
<1>13. Owned' = Owned
  BY <1>5, <1>11, <1>12 DEF Owned
<1>14. Tidy'
  BY <1>5, <1>11, <1>12 DEF HInv, Tidy, TidyChain
<1>15. Fresh'
  <2> SUFFICES ASSUME NEW j \in Running' PROVE FreshTask(tasks'[j], store')
    BY DEF Fresh
  <2>1. CASE j = n
    BY <1>5, <1>11, <2>1 DEF FreshTask
  <2>2. CASE j # n
    <3>1. tasks'[j] = tasks[j] /\ FreshTask(tasks[j], store)
      BY <1>12, <2>2 DEF HInv, Fresh
    <3>2. tasks[j].parent \in DOMAIN store /\ tasks[j].chain \subseteq DOMAIN store
      <4>1. main' # "down"
        BY <1>2
      <4>2. QED
        BY <1>7, <3>1, <4>1, SlotCandidatesNext
    <3>3. QED
      BY <1>7, <3>1, <3>2 DEF FreshTask, CursorsKept
  <2>3. QED
    BY <2>1, <2>2
<1>16. Leftovers'
  BY <1>2, <1>8, <1>13 DEF HInv, Leftovers
<1>17. Recorded'
  <2>1. permits' = permits - 1 /\ stats'.iteration = stats.iteration + 1
    BY <1>2, <1>4 DEF n
  <2>2. recorded \in Nat
    BY DEF IInv, TypeOK
  <2>3. QED
    BY <1>2, <1>3, <1>4, <2>1, <2>2 DEF HInv, Recorded
<1>18. Drained' /\ CursorStep
  BY <1>2, <1>7 DEF Drained, CursorStep, CursorsKept
<1>19. QED
  BY <1>7, <1>14, <1>15, <1>16, <1>17, <1>18 DEF HInv

(* A kill at an await forgets the slots; the store and statistics remain.  *)
LEMMA CrashHistory ==
    ASSUME HInv, CrashAtAwait
    PROVE  HInv' /\ CursorStep
<1>1. /\ main' = "down" /\ store' = store
      /\ tasks' = [i \in Iterations |-> IdleTask("none")]
  BY DEF CrashAtAwait
<1>2. IdleTask("none").pc \notin Awaiting
  BY DEF IdleTask, Awaiting
<1>3. Running' = {}
  BY <1>1, <1>2 DEF Running
<1>4. QED
  BY <1>1, <1>3 DEF HInv, Tidy, Fresh, Leftovers, Recorded, Drained, CursorStep

(* The startup recovery deletes what the lost slots left.                   *)
LEMMA RestartHistory ==
    ASSUME IInv, HInv, Restart
    PROVE  HInv' /\ CursorStep
<1>1. /\ main = "down" /\ main' = "start" /\ store' = Recover(store)
      /\ restarts' = restarts + 1 /\ tasks' = tasks
  BY DEF Restart
<1>2. /\ lastId \in Nat /\ StoreType(store, lastId) /\ Tree(store) /\ restarts \in Nat
      /\ Running = {}
  BY <1>1 DEF IInv, TypeOK, StoreType, HInv, Quiet
<1>3. Running' = {} /\ Owned' = {}
  BY <1>1, <1>2 DEF Running, Owned
<1>4. /\ Tree(store') /\ CursorsKept(store, store', {})
      /\ CleanupUnavailable => Unavailable(store') = {}
  BY <1>1, <1>2, RecoverHistory
<1>5. Tidy' /\ Fresh' /\ Leftovers' /\ Drained'
  BY <1>1, <1>3, <1>4 DEF Tidy, Fresh, Leftovers, Drained
<1>6. Recorded'
  BY <1>1, <1>2 DEF Recorded
<1>7. CursorStep
  BY <1>4 DEF CursorStep, CursorsKept
<1>8. QED
  BY <1>4, <1>5, <1>6, <1>7 DEF HInv

LEMMA MainStepHistory ==
    ASSUME IInv, HInv, IInv', MainStep
    PROVE  HInv' /\ CursorStep
<1>1. CASE Resume \/ BaselineRaises
  BY <1>1, ControlHistory DEF Resume, BaselineRaises
<1>2. CASE StartFromScratch
  BY <1>2, StartFromScratchHistory
<1>3. CASE BaselineEvaluated
  BY <1>3, BaselineEvaluatedHistory
<1>4. CASE StopOnBudget \/ AwaitPermit
  BY <1>4, ControlHistory DEF StopOnBudget, AwaitPermit, MainGoes
<1>5. CASE OpenSlot
  BY <1>5, OpenSlotHistory
<1>6. CASE NothingSelectable \/ SelectRaises
  BY <1>6, ControlHistory DEF NothingSelectable, SelectRaises, HoldsPermit, MainGoes
<1>7. CASE Wake
  BY <1>7, ControlHistory DEF Wake, MainGoes
<1>8. CASE Finish
  BY <1>8, ControlHistory DEF Finish
<1>9. QED
  BY <1>1, <1>2, <1>3, <1>4, <1>5, <1>6, <1>7, <1>8 DEF MainStep
-----------------------------------------------------------------------------
(* The theorems. *)

LEMMA InitHInv == Init => HInv
<1> SUFFICES ASSUME Init PROVE HInv
  OBVIOUS
<1>1. tasks = [i \in Iterations |-> IdleTask("none")] /\ IdleTask("none").pc \notin Awaiting
  BY DEF Init, IdleTask, Awaiting
<1>2. Running = {} /\ Owned = {}
  BY <1>1 DEF Running, Owned
<1>3. DOMAIN store = {} /\ main = "start" /\ stats = NoStatistics /\ recorded = 0
      /\ permits = NumProposals /\ NumProposals \in Nat
  BY ConstantTypes DEF Init, EmptyStore
<1>4. Tree(store) /\ Unavailable(store) = {}
  BY <1>3 DEF Tree, Unavailable, PoolByState
<1>5. Recorded
  BY <1>3 DEF Recorded, NoStatistics, NoCandidate
<1>6. QED
  BY <1>2, <1>3, <1>4, <1>5 DEF HInv, Tidy, Fresh, Leftovers, Drained

LEMMA NextHInv == IInv /\ HInv /\ [Next]_vars => HInv' /\ CursorStep
<1> SUFFICES ASSUME IInv, HInv, [Next]_vars PROVE HInv' /\ CursorStep
  OBVIOUS
<1>1. IInv'
  BY NextIInv
<1>2. CASE MainStep
  BY <1>1, <1>2, MainStepHistory
<1>3. CASE \E i \in Iterations : SlotStep(i)
  BY <1>1, <1>3, SlotStepHistory
<1>4. CASE LimitReached
  BY <1>4, ControlHistory DEF LimitReached
<1>5. CASE CrashAtAwait
  BY <1>5, CrashHistory
<1>6. CASE Restart
  BY <1>6, RestartHistory
<1>7. CASE Terminated \/ UNCHANGED vars
  BY <1>7, ControlHistory DEF Terminated, vars, HInv, Drained
<1>8. QED
  BY <1>2, <1>3, <1>4, <1>5, <1>6, <1>7 DEF Next

THEOREM HistoryInvariance == Spec => [](IInv /\ HInv)
<1>1. Init => IInv /\ HInv
  BY InitIInv, InitHInv
<1>2. IInv /\ HInv /\ [Next]_vars => (IInv /\ HInv)'
  BY NextIInv, NextHInv
<1>3. QED
  BY <1>1, <1>2, PTL DEF Spec

(* Whatever slots do to each other's families, and whatever a relaunch      *)
(* deletes, parent_id and children_ids agree.                              *)
THEOREM FamilyTreeKept == Spec => []FamilyTree
<1>1. HInv => FamilyTree
  BY DEF HInv, Tree, FamilyTree
<1>2. QED
  BY <1>1, HistoryInvariance, PTL

(* The cursor a slot computed before its awaits is still right after them,  *)
(* and its children carry it.                                              *)
THEOREM SnapshotStaysFresh == Spec => []SnapshotFresh
<1>1. HInv => SnapshotFresh
  BY DEF HInv, Fresh, FreshTask, SnapshotFresh
<1>2. QED
  BY <1>1, HistoryInvariance, PTL

(* A store that cleans up keeps no unavailable candidate but those of the   *)
(* running slots.                                                          *)
THEOREM NothingLeaks == Spec => []NoLeak
<1>1. HInv => NoLeak
  BY DEF HInv, Leftovers, NoLeak, Unavailable
<1>2. QED
  BY <1>1, HistoryInvariance, PTL

(* Without a relaunch a slot is recorded once, however it ends.             *)
THEOREM SlotsAreRecorded == Spec => []EverySlotRecordedOnce
<1>1. IInv => /\ NumProposals - permits = Cardinality(Running)
              /\ recorded \in Nat /\ stats \in Statistics
  <2> SUFFICES ASSUME IInv
               PROVE  /\ NumProposals - permits = Cardinality(Running)
                      /\ recorded \in Nat /\ stats \in Statistics
    OBVIOUS
  <2>1. Cardinality(Running) \in Nat /\ permits \in Nat /\ NumProposals \in Nat
    BY RunningFinite, FS_CardinalityType, ConstantTypes DEF IInv, TypeOK
  <2>2. QED
    BY <2>1 DEF IInv, PermitsBalance, TypeOK
<1>2. IInv /\ HInv => EverySlotRecordedOnce
  BY <1>1 DEF HInv, Recorded, EverySlotRecordedOnce
<1>3. QED
  BY <1>2, HistoryInvariance, PTL

(* When optimize returns no slot runs, no candidate is evolving and the     *)
(* statistics are saved.                                                   *)
THEOREM ReturnsDrained == Spec => []DrainedAtDone
<1>1. IInv /\ HInv => DrainedAtDone
  BY DEF IInv, HInv, Drained, Ownership, Parents, Evolving, DrainedAtDone
<1>2. QED
  BY <1>1, HistoryInvariance, PTL

(* No slot, kill at an await or relaunch turns a candidate's cursor back.   *)
THEOREM CursorsNeverGoBack == Spec => CursorMonotone
<1>1. IInv /\ HInv /\ [Next]_vars => [CursorStep]_vars
  BY NextHInv
<1>2. Spec => [][CursorStep]_vars
  BY <1>1, HistoryInvariance, PTL DEF Spec
<1>3. CursorStep =>
        \A c \in DOMAIN store \cap DOMAIN store' :
          LET old == store[c].cursor
              new == store'[c].cursor
          IN  \/ new = old
              \/ new = Advance(DatasetSize, BatchSize, old)
  BY DEF CursorStep
<1>4. QED
  BY <1>2, <1>3, PTL DEF CursorMonotone
=============================================================================
