----------------------------- MODULE Optimizer -----------------------------
(***************************************************************************)
(* The candidate-pool scheduler of optimizer/optimizer.py and the slots it *)
(* runs.  One asyncio event loop runs the main coroutine `optimize` and one *)
(* task per slot; a step of this specification is what one of them does    *)
(* between two awaits.  A slot awaits, in turn: the rollout of the parent, *)
(* propose, the rollout of the child, then per reflection iteration        *)
(* reflect and a rollout, and the validation of the accepted child.  Each  *)
(* await may end with a result or by raising, and the process may be       *)
(* killed there; a kill inside a step, between or in the middle of the     *)
(* step's file writes, is the subject of CandidateStoreDisk.               *)
(*                                                                         *)
(* Batch scores are summed and counted in integer units; PerfectSum is the *)
(* sum of an all-perfect batch.                                            *)
(***************************************************************************)
EXTENDS CandidateStore, FiniteSets

CONSTANTS
    NumProposals,       \* num_proposals
    MaxReflections,     \* max_reflection_iterations
    MinImprovement,     \* min_improvement_per_batch
    DatasetSize,        \* len(train_dataset)
    BatchSize,          \* batch_size
    PerfectSum,         \* batch score sum of an all-perfect batch
    ValScores,          \* val score lists an evaluation may yield
    ValSize,            \* len(val_dataset)
    MaxIterations,      \* Budget.max_iterations
    MaxRollouts,        \* Budget.max_rollouts (a number no run reaches for None)
    MaxSystemRuns,      \* Budget.max_system_runs (idem)
    MaxCandidateNum,    \* max_candidate_num of the evolution algorithm
    ScoreEps,           \* SCORE_EPS, in score units
    OtherLimit,         \* whether max_tokens or max_elapsed_seconds is set
    SelectMayRaise,     \* whether the evolution algorithm's select may raise
    RolloutMayFail,     \* whether a rollout of a slot may raise
    MaxRestarts         \* bound of the model: relaunches of the program

ASSUME OptimizerAssumption ==
    /\ NumProposals \in Nat \ {0}
    /\ MaxReflections \in Nat
    /\ MinImprovement \in Nat
    /\ DatasetSize \in Nat \ {0} /\ BatchSize \in Nat \ {0}
    /\ PerfectSum \in Nat \ {0}
    /\ ValSize \in Nat /\ ValScores \subseteq [1 .. ValSize -> Nat]
    /\ MaxIterations \in Nat /\ MaxRollouts \in Nat /\ MaxSystemRuns \in Nat
    /\ MaxCandidateNum \in Nat \ {0} /\ ScoreEps \in Nat
    /\ OtherLimit \in BOOLEAN /\ SelectMayRaise \in BOOLEAN
    /\ RolloutMayFail \in BOOLEAN
    /\ MaxRestarts \in Nat

VARIABLES
    store,       \* the candidate store: memory and, written through, disk
    lastId,      \* the candidate created last
    stats,       \* OptimizationStatistics in memory
    saved,       \* statistics.json
    recorded,    \* lines of iteration_records.jsonl
    main,        \* where the main coroutine is
    permits,     \* value of slot_sem
    awaited,     \* the tasks an asyncio.wait of the main coroutine was given
    tasks,       \* the slot tasks, by their slot_iteration
    limitHit,    \* the token or wall-clock limit is reached
    restarts     \* relaunches so far

vars == <<store, lastId, stats, saved, recorded, main, permits, awaited, tasks,
          limitHit, restarts>>

EA == INSTANCE ParetoFrontier
-----------------------------------------------------------------------------
Iterations == 1 .. MaxIterations

(* best_candidate_avg_score: that of an evaluation, 0 before the first. *)
Averages == {0} \cup {EA!AvgScore(v) : v \in ValScores}

Statistics == [root : Nat, best : Nat, bestAvg : Averages, iteration : Nat,
               rollouts : Nat, systemRuns : Nat, total : Nat, rejected : Nat]

NoStatistics == [root |-> NoCandidate, best |-> NoCandidate, bestAvg |-> 0,
                 iteration |-> 0, rollouts |-> 0, systemRuns |-> 0,
                 total |-> 0, rejected |-> 0]

MainPC == {"start", "baseline", "check", "acquire", "wait", "drain", "done", "down"}

(* "none": not created; "released": the coroutine has ended and given its   *)
(* permit back, the task is still in active_tasks; "gone": discarded.      *)
Awaiting == {"new", "parent", "propose", "child", "reflect", "chain", "validate"}
TaskPC == Awaiting \cup {"none", "released", "gone"}

(* A task's local variables: the candidate picked, the advanced cursor, the *)
(* chain of candidates it created (child_id_list) and the latest of them,  *)
(* the parent's batch sum, the best of the chain and its sum.              *)
Task == [pc : TaskPC, parent : Nat, advanced : Cursor, chain : SUBSET Nat,
         child : Nat, depth : Nat, parentSum : Nat, best : Nat, bestSum : Nat]

IdleTask(pc) == [pc |-> pc, parent |-> NoCandidate, advanced |-> StartCursor,
                 chain |-> {}, child |-> NoCandidate, depth |-> 0,
                 parentSum |-> 0, best |-> NoCandidate, bestSum |-> 0]

Running == {i \in Iterations : tasks[i].pc \in Awaiting}

(* active_tasks: a task leaves it in its done callback. *)
Active == {i \in Iterations : tasks[i].pc \in Awaiting \cup {"released"}}

TypeOK ==
    /\ DOMAIN store \subseteq 1 .. lastId
    /\ \A c \in DOMAIN store : store[c] \in Candidate
    /\ lastId \in Nat
    /\ stats \in Statistics /\ saved \in Statistics
    /\ recorded \in Nat
    /\ main \in MainPC
    /\ permits \in 0 .. NumProposals
    /\ awaited \subseteq Iterations
    /\ tasks \in [Iterations -> Task]
    /\ limitHit \in BOOLEAN
    /\ restarts \in 0 .. MaxRestarts

Init ==
    /\ store = EmptyStore /\ lastId = 0
    /\ stats = NoStatistics /\ saved = NoStatistics /\ recorded = 0
    /\ main = "start"
    /\ permits = NumProposals /\ awaited = {}
    /\ tasks = [i \in Iterations |-> IdleTask("none")]
    /\ limitHit = FALSE /\ restarts = 0
-----------------------------------------------------------------------------
(* Shared helpers of the coroutines. *)

(* Mutant: reaching a limit exactly does not exhaust it. *)
BudgetExhausted_Strict ==
    \/ stats.iteration > MaxIterations - 1
    \/ stats.rollouts > MaxRollouts
    \/ stats.systemRuns > MaxSystemRuns
    \/ limitHit

(* _budget_exhausted / Budget.is_exhausted. *)
BudgetExhausted ==
    \/ stats.iteration >= MaxIterations
    \/ stats.rollouts >= MaxRollouts
    \/ stats.systemRuns >= MaxSystemRuns
    \/ limitHit

BatchLength == IF BatchSize <= DatasetSize THEN BatchSize ELSE DatasetSize

(* _run_and_evaluate_wrapper counts a rollout before it awaits it. *)
CountTrain(st) == [st EXCEPT !.rollouts = @ + BatchLength, !.systemRuns = @ + BatchLength]
CountVal(st) == [st EXCEPT !.systemRuns = @ + ValSize]

(* _is_improvement_accepted. *)
Clears(parentSum, sum) ==
    \/ sum - parentSum >= MinImprovement /\ sum > parentSum
    \/ sum = PerfectSum

(* Mutant: retired candidates still count. *)
BestCandidates_Retired(s) ==
    {c \in DOMAIN s : \A d \in DOMAIN s \ {c} : EA!RanksAbove(s, c, d)}

(* get_best_candidate: at most one candidate, the highest ranked alive one. *)
BestCandidates(s) ==
    {c \in EA!Alive(s) : \A d \in EA!Alive(s) \ {c} : EA!RanksAbove(s, c, d)}

(* Mutant: an accepted iteration is counted as rejected too. *)
Booked_Both(s, accepted) ==
    LET counted == [stats EXCEPT !.total = @ + (IF accepted THEN 1 ELSE 0),
                                 !.rejected = @ + 1]
        b == CHOOSE c \in BestCandidates(s) : TRUE
    IN  IF BestCandidates(s) = {}
        THEN counted
        ELSE [counted EXCEPT !.best = b, !.bestAvg = EA!AvgScore(s[b].scores)]

(* _record_iteration: the statistics after a slot ended with the store s. *)
Booked(s, accepted) ==
    LET counted == [stats EXCEPT !.total = @ + (IF accepted THEN 1 ELSE 0),
                                 !.rejected = @ + (IF accepted THEN 0 ELSE 1)]
        b == CHOOSE c \in BestCandidates(s) : TRUE
    IN  IF BestCandidates(s) = {}
        THEN counted
        ELSE [counted EXCEPT !.best = b, !.bestAvg = EA!AvgScore(s[b].scores)]

(* Mutant: the permit is released twice. *)
EndSlot_DoubleRelease(i, s, accepted) ==
    /\ store' = s
    /\ stats' = Booked(store', accepted) /\ saved' = stats'
    /\ recorded' = recorded + 1
    /\ permits' = permits + 2
    /\ tasks' = [tasks EXCEPT ![i] = IdleTask("released")]
    /\ UNCHANGED <<lastId, main, awaited, limitHit, restarts>>

(* Mutant: the permit is released on the success path only. *)
EndSlot_ReleasesOnSuccess(i, s, accepted) ==
    /\ store' = s
    /\ stats' = Booked(store', accepted) /\ saved' = stats'
    /\ recorded' = recorded + 1
    /\ permits' = permits + (IF accepted THEN 1 ELSE 0)
    /\ tasks' = [tasks EXCEPT ![i] = IdleTask("released")]
    /\ UNCHANGED <<lastId, main, awaited, limitHit, restarts>>

(* The slot's coroutine ends with the store s: the iteration is recorded,   *)
(* the statistics saved and the permit released, all before the next await. *)
EndSlot(i, s, accepted) ==
    /\ store' = s
    /\ stats' = Booked(store', accepted) /\ saved' = stats'
    /\ recorded' = recorded + 1
    /\ permits' = permits + 1
    /\ tasks' = [tasks EXCEPT ![i] = IdleTask("released")]
    /\ UNCHANGED <<lastId, main, awaited, limitHit, restarts>>

(* Mutant: the pool is eliminated before the parent is back in it. *)
Completed_EliminatesFirst(i, s, accepted) ==
    LET p    == tasks[i].parent
        kept == Retire(s, EA!Eliminated(s))
    IN  EndSlot(i, SetState(SetProgress(kept, p, tasks[i].advanced), {p}, "pending"), accepted)

(* The slot ran to its end: the parent advances and is pending again, the   *)
(* evolution algorithm eliminates over the whole pool.  (`back` is bound by *)
(* \E rather than LET so that TLC computes it once.)                       *)
Completed(i, s, accepted) ==
    LET p == tasks[i].parent IN
    \E back \in {SetState(SetProgress(s, p, tasks[i].advanced), {p}, "pending")} :
        EndSlot(i, Retire(back, EA!Eliminated(back)), accepted)

(* The slot starts a rollout and awaits it at the point pc. *)
AwaitRollout(i, task, st) ==
    /\ tasks' = [tasks EXCEPT ![i] = task]
    /\ stats' = st
    /\ UNCHANGED <<saved, recorded, main, permits, awaited, limitHit, restarts>>

(* The slot creates a child of `from` and awaits the proposer on it. *)
AwaitProposer(i, from, cursor, task) ==
    /\ lastId' = lastId + 1
    /\ store' = CreateChild(store, from, lastId', cursor)
    /\ tasks' = [tasks EXCEPT ![i] = [task EXCEPT !.child = lastId', !.chain = @ \cup {lastId'}]]
    /\ UNCHANGED <<stats, saved, recorded, main, permits, awaited, limitHit, restarts>>

(* Mutant: the whole chain is retired, its best included. *)
EndChain_RetiresBest(i, b, sum) ==
    IF sum > tasks[i].parentSum
    THEN /\ store' = Retire(store, tasks[i].chain)
         /\ AwaitRollout(i, [tasks[i] EXCEPT !.pc = "validate", !.best = b, !.bestSum = sum,
                                             !.chain = {b}], CountVal(stats))
         /\ UNCHANGED lastId
    ELSE Completed(i, Retire(store, tasks[i].chain), FALSE)

(* Mutant: a rejected chain retires all but its best. *)
EndChain_KeepsBest(i, b, sum) ==
    IF sum > tasks[i].parentSum
    THEN /\ store' = Retire(store, tasks[i].chain \ {b})
         /\ AwaitRollout(i, [tasks[i] EXCEPT !.pc = "validate", !.best = b, !.bestSum = sum,
                                             !.chain = {b}], CountVal(stats))
         /\ UNCHANGED lastId
    ELSE Completed(i, Retire(store, tasks[i].chain \ {b}), FALSE)

(* The chain ends with its best b.  If b beats the parent the others are    *)
(* retired and b is validated, otherwise all of them are retired.          *)
EndChain(i, b, sum) ==
    IF sum > tasks[i].parentSum
    THEN /\ store' = Retire(store, tasks[i].chain \ {b})
         /\ AwaitRollout(i, [tasks[i] EXCEPT !.pc = "validate", !.best = b, !.bestSum = sum,
                                             !.chain = {b}], CountVal(stats))
         /\ UNCHANGED lastId
    ELSE Completed(i, Retire(store, tasks[i].chain), FALSE)
-----------------------------------------------------------------------------
(* The steps of slot i.  They run while the main coroutine is suspended.   *)

(* _evolve_one up to the rollout of the parent: the cursor the parent will  *)
(* have after this slot is computed here.                                  *)
SlotStart(i) ==
    /\ tasks[i].pc = "new"
    /\ AwaitRollout(i,
          [tasks[i] EXCEPT !.pc = "parent",
              !.advanced = Advance(DatasetSize, BatchSize, store[tasks[i].parent].cursor)],
          CountTrain(stats))
    /\ UNCHANGED <<store, lastId>>

(* The parent is perfect on the batch: nothing is proposed. *)
ParentPerfect(i) ==
    /\ tasks[i].pc = "parent"
    /\ Completed(i, store, FALSE)

(* Mutant: the child inherits the parent's cursor as it is now. *)
ParentEvaluated_Inherits(i) ==
    /\ tasks[i].pc = "parent"
    /\ \E sum \in 0 .. PerfectSum - 1 :
          AwaitProposer(i, tasks[i].parent, store[tasks[i].parent].cursor,
                        [tasks[i] EXCEPT !.pc = "propose", !.parentSum = sum])

(* A child is created at the advanced cursor and handed to the proposer. *)
ParentEvaluated(i) ==
    /\ tasks[i].pc = "parent"
    /\ \E sum \in 0 .. PerfectSum - 1 :
          AwaitProposer(i, tasks[i].parent, tasks[i].advanced,
                        [tasks[i] EXCEPT !.pc = "propose", !.parentSum = sum])

(* propose succeeds and the child is run on the same batch. *)
Proposed(i) ==
    /\ tasks[i].pc = "propose"
    /\ AwaitRollout(i, [tasks[i] EXCEPT !.pc = "child"], CountTrain(stats))
    /\ UNCHANGED <<store, lastId>>

(* propose raises or reports a failure. *)
ProposeFailed(i) ==
    /\ tasks[i].pc = "propose"
    /\ Completed(i, Retire(store, tasks[i].chain), FALSE)

(* _step_challenge_parent: the child is accepted, rejected, or becomes v0   *)
(* of a reflection chain.                                                  *)
ChildAccepted(i) ==
    /\ tasks[i].pc = "child"
    /\ \E sum \in 0 .. PerfectSum :
          /\ Clears(tasks[i].parentSum, sum)
          /\ AwaitRollout(i, [tasks[i] EXCEPT !.pc = "validate", !.best = tasks[i].child,
                                             !.bestSum = sum], CountVal(stats))
    /\ UNCHANGED <<store, lastId>>

ChildRejected(i) ==
    /\ tasks[i].pc = "child" /\ MaxReflections = 0
    /\ \E sum \in 0 .. PerfectSum : ~Clears(tasks[i].parentSum, sum)
    /\ Completed(i, Retire(store, tasks[i].chain), FALSE)

(* A reflection child is created on the previous one and inherits its cursor. *)
NextReflection(i, task) ==
    AwaitProposer(i, task.child, store[task.child].cursor,
                  [task EXCEPT !.pc = "reflect", !.depth = @ + 1])

ChildReflects(i) ==
    /\ tasks[i].pc = "child" /\ MaxReflections > 0
    /\ \E sum \in 0 .. PerfectSum :
          /\ ~Clears(tasks[i].parentSum, sum)
          /\ NextReflection(i, [tasks[i] EXCEPT !.best = tasks[i].child, !.bestSum = sum])

(* reflect succeeds and the reflection child is run. *)
Reflected(i) ==
    /\ tasks[i].pc = "reflect"
    /\ AwaitRollout(i, [tasks[i] EXCEPT !.pc = "chain"], CountTrain(stats))
    /\ UNCHANGED <<store, lastId>>

(* reflect raises or reports a failure: the loop is left. *)
ReflectFailed(i) ==
    /\ tasks[i].pc = "reflect"
    /\ EndChain(i, tasks[i].best, tasks[i].bestSum)

(* The reflection child is the best of its chain if it beats the previous   *)
(* best; the loop stops early when it clears the threshold.                *)
ChainEvaluated(i) ==
    /\ tasks[i].pc = "chain"
    /\ \E sum \in 0 .. PerfectSum :
          LET better == sum > tasks[i].bestSum
              best   == IF better THEN tasks[i].child ELSE tasks[i].best
              top    == IF better THEN sum ELSE tasks[i].bestSum
          IN  IF Clears(tasks[i].parentSum, sum) \/ tasks[i].depth = MaxReflections
              THEN EndChain(i, best, top)
              ELSE NextReflection(i, [tasks[i] EXCEPT !.best = best, !.bestSum = top])

(* The accepted child gets its val scores and joins the pool. *)
Validated(i) ==
    /\ tasks[i].pc = "validate"
    /\ \E v \in ValScores :
          Completed(i, SetState(UpdateScores(store, tasks[i].best, v), {tasks[i].best}, "pending"),
                    TRUE)

(* A rollout raises out of the slot: only the parent's state is restored. *)
RolloutRaises(i) ==
    /\ RolloutMayFail /\ tasks[i].pc \in {"parent", "child", "chain", "validate"}
    /\ EndSlot(i, SetState(store, {tasks[i].parent}, "pending"), FALSE)

(* The done callback of the task takes it out of active_tasks. *)
Discard(i) ==
    /\ tasks[i].pc = "released"
    /\ tasks' = [tasks EXCEPT ![i] = IdleTask("gone")]
    /\ UNCHANGED <<store, lastId, stats, saved, recorded, main, permits, awaited, limitHit,
                   restarts>>

SlotStep(i) ==
    /\ main \in {"acquire", "wait", "drain"}
    /\ \/ SlotStart(i)
       \/ ParentPerfect(i) \/ ParentEvaluated(i)
       \/ Proposed(i) \/ ProposeFailed(i)
       \/ ChildAccepted(i) \/ ChildRejected(i) \/ ChildReflects(i)
       \/ Reflected(i) \/ ReflectFailed(i) \/ ChainEvaluated(i)
       \/ Validated(i)
       \/ RolloutRaises(i)
       \/ Discard(i)
-----------------------------------------------------------------------------
(* The steps of the main coroutine, `optimize`. *)

Resume ==
    /\ main = "start" /\ stats.root # NoCandidate
    /\ main' = "check"
    /\ UNCHANGED <<store, lastId, stats, saved, recorded, permits, awaited, tasks, limitHit,
                   restarts>>

(* The root is created and its val baseline awaited. *)
StartFromScratch ==
    /\ main = "start" /\ stats.root = NoCandidate
    /\ lastId' = lastId + 1
    /\ store' = CreateRoot(store, lastId')
    /\ stats' = CountVal(stats)
    /\ main' = "baseline"
    /\ UNCHANGED <<saved, recorded, permits, awaited, tasks, limitHit, restarts>>

BaselineEvaluated ==
    /\ main = "baseline"
    /\ \E v \in ValScores :
          /\ store' = SetState(UpdateScores(store, lastId, v), {lastId}, "pending")
          /\ stats' = [stats EXCEPT !.root = lastId, !.best = lastId,
                                    !.bestAvg = EA!AvgScore(v), !.total = 1]
    /\ saved' = stats'
    /\ main' = "check"
    /\ UNCHANGED <<lastId, recorded, permits, awaited, tasks, limitHit, restarts>>

(* An exception of the baseline leaves optimize. *)
BaselineRaises ==
    /\ RolloutMayFail /\ main = "baseline"
    /\ main' = "down"
    /\ UNCHANGED <<store, lastId, stats, saved, recorded, permits, awaited, tasks, limitHit,
                   restarts>>

MainGoes(pc) ==
    /\ main' = pc
    /\ UNCHANGED <<store, lastId, stats, saved, recorded, tasks, limitHit, restarts>>

(* The budget check at the head of the loop and the one after the acquire,  *)
(* which gives the permit back.                                            *)
StopOnBudget ==
    /\ main = "check" \/ (main = "acquire" /\ permits > 0)
    /\ BudgetExhausted
    /\ MainGoes("drain")
    /\ UNCHANGED <<permits, awaited>>

(* No permit is free: the main coroutine is suspended in acquire. *)
AwaitPermit ==
    /\ main = "check" /\ ~BudgetExhausted /\ permits = 0
    /\ MainGoes("acquire")
    /\ UNCHANGED <<permits, awaited>>

HoldsPermit == main \in {"check", "acquire"} /\ permits > 0 /\ ~BudgetExhausted

(* Mutant: the candidate is not marked before its task is spawned. *)
OpenSlot_Unmarked ==
    /\ HoldsPermit
    /\ stats' = [stats EXCEPT !.iteration = @ + 1]
    /\ \E c \in EA!Selectable(store) :
          tasks' = [tasks EXCEPT ![stats'.iteration] = [IdleTask("new") EXCEPT !.parent = c]]
    /\ permits' = permits - 1
    /\ main' = "check"
    /\ UNCHANGED <<store, lastId, saved, recorded, awaited, limitHit, restarts>>

(* select picks a candidate; it is marked evolving, the iteration counted   *)
(* and the slot's task created, which runs at the next await.              *)
OpenSlot ==
    /\ HoldsPermit
    /\ stats' = [stats EXCEPT !.iteration = @ + 1]
    /\ \E c \in EA!Selectable(store) :
          /\ store' = SetState(store, {c}, "evolving")
          /\ tasks' = [tasks EXCEPT ![stats'.iteration] = [IdleTask("new") EXCEPT !.parent = c]]
    /\ permits' = permits - 1
    /\ main' = "check"
    /\ UNCHANGED <<lastId, saved, recorded, awaited, limitHit, restarts>>

(* Mutant: the permit taken for this round is not given back. *)
NothingSelectable_Leak ==
    /\ HoldsPermit /\ EA!Selectable(store) = {}
    /\ IF Active = {}
       THEN MainGoes("drain") /\ UNCHANGED awaited
       ELSE MainGoes("wait") /\ awaited' = Active
    /\ permits' = permits - 1

(* Mutant: the loop stops although slots are in flight. *)
NothingSelectable_Stops ==
    /\ HoldsPermit /\ EA!Selectable(store) = {}
    /\ MainGoes("drain")
    /\ UNCHANGED <<permits, awaited>>

(* Nothing is selectable: stop if no task is left, else give the permit     *)
(* back and wait for the tasks of this moment, FIRST_COMPLETED.            *)
NothingSelectable ==
    /\ HoldsPermit /\ EA!Selectable(store) = {}
    /\ IF Active = {}
       THEN MainGoes("drain") /\ UNCHANGED awaited
       ELSE MainGoes("wait") /\ awaited' = Active
    /\ UNCHANGED permits

(* select raises: the permit is given back and the loop left. *)
SelectRaises ==
    /\ SelectMayRaise /\ HoldsPermit
    /\ MainGoes("drain")
    /\ UNCHANGED <<permits, awaited>>

Wake ==
    /\ main = "wait"
    /\ \E i \in awaited : tasks[i].pc = "gone"
    /\ MainGoes("check")
    /\ awaited' = {}
    /\ UNCHANGED permits

(* Mutant: the main coroutine does not wait for the slots in flight. *)
Finish_NoDrain ==
    /\ main = "drain"
    /\ main' = "done" /\ saved' = stats
    /\ UNCHANGED <<store, lastId, stats, recorded, permits, awaited, tasks, limitHit, restarts>>

(* gather over the active tasks, then the final save. *)
Finish ==
    /\ main = "drain" /\ Running = {}
    /\ main' = "done" /\ saved' = stats
    /\ UNCHANGED <<store, lastId, stats, recorded, permits, awaited, tasks, limitHit, restarts>>

MainStep ==
    \/ Resume \/ StartFromScratch \/ BaselineEvaluated \/ BaselineRaises
    \/ StopOnBudget \/ AwaitPermit \/ OpenSlot \/ NothingSelectable \/ SelectRaises
    \/ Wake \/ Finish
-----------------------------------------------------------------------------
(* The environment: limits, kills at an await, relaunches. *)

(* Tokens or wall-clock time reach their limit. *)
LimitReached ==
    /\ OtherLimit /\ ~limitHit /\ main \notin {"start", "done", "down"}
    /\ limitHit' = TRUE
    /\ UNCHANGED <<store, lastId, stats, saved, recorded, main, permits, awaited, tasks,
                   restarts>>

(* The process is killed at an await.  No operation of the store is in      *)
(* progress there, so every file is whole and says what the caches said    *)
(* (CandidateStoreDisk!WriteThrough): the store stays, the statistics are  *)
(* those saved last, the tasks are gone.                                   *)
CrashAtAwait ==
    /\ restarts < MaxRestarts /\ main \notin {"done", "down"}
    /\ main' = "down"
    /\ stats' = saved
    /\ permits' = NumProposals /\ awaited' = {}
    /\ tasks' = [i \in Iterations |-> IdleTask("none")]
    /\ UNCHANGED <<store, lastId, saved, recorded, limitHit, restarts>>

(* A new process: Optimizer.__init__ recovers the pool.  The tokens spent   *)
(* since the last save are forgotten, so a limit may be clear again.       *)
Restart ==
    /\ main = "down" /\ restarts < MaxRestarts
    /\ store' = Recover(store)
    /\ stats' = saved
    /\ main' = "start"
    /\ limitHit' \in {FALSE, limitHit}
    /\ restarts' = restarts + 1
    /\ UNCHANGED <<lastId, saved, recorded, permits, awaited, tasks>>

Terminated == main \in {"done", "down"} /\ UNCHANGED vars

Next ==
    \/ MainStep
    \/ \E i \in Iterations : SlotStep(i)
    \/ LimitReached \/ CrashAtAwait \/ Restart
    \/ Terminated

Spec == Init /\ [][Next]_vars

(* The event loop runs something while anything is ready, and every rollout *)
(* and every call of the proposer returns or raises some day.              *)
FairSpec == Spec /\ WF_vars(MainStep \/ \E i \in Iterations : SlotStep(i))
-----------------------------------------------------------------------------
(* Properties. *)

Owned == UNION {tasks[i].chain : i \in Running}

(* A candidate is evolving exactly while one running slot has it as its     *)
(* parent, across all of the slot's awaits and whatever the other slots    *)
(* retire meanwhile: no candidate is evolved twice at once, lost, or left  *)
(* unselectable.                                                           *)
SlotOwnership ==
    main # "down" /\ main # "start" =>
      /\ \A i, j \in Running : tasks[i].parent = tasks[j].parent => i = j
      /\ PoolByState(store, {"evolving"}) = {tasks[i].parent : i \in Running}

(* The children a slot created survive its awaits, unselectable, and belong *)
(* to that slot alone; an accepted one stays until it is validated.        *)
ChainOwnership ==
    \A i \in Running :
      /\ \A c \in tasks[i].chain : c \in DOMAIN store /\ store[c].state = "unavailable"
      /\ tasks[i].pc \in {"propose", "child", "reflect", "chain", "validate"}
            => tasks[i].child <= lastId /\ tasks[i].chain # {}
      /\ tasks[i].pc \in {"reflect", "chain", "validate"} => tasks[i].best \in tasks[i].chain
      /\ \A j \in Running \ {i} : tasks[i].chain \cap tasks[j].chain = {}

(* Every permit of slot_sem is free or with a running slot, on every exit   *)
(* of the loop (the TODO of optimize calls its releases error-prone).      *)
PermitsBalance ==
    permits + Cardinality(Running) = NumProposals

(* The cursor a slot computed before its awaits is still one batch ahead of *)
(* its parent's when the slot uses it, and its children carry it, so that  *)
(* an accepted child resumes behind the batch that produced it.            *)
SnapshotFresh ==
    \A i \in Running : tasks[i].pc # "new" =>
      /\ tasks[i].advanced = Advance(DatasetSize, BatchSize, store[tasks[i].parent].cursor)
      /\ \A c \in tasks[i].chain : store[c].cursor = tasks[i].advanced

(* From the baseline on, the best candidate the statistics report is alive, *)
(* nobody alive ranks above it, and the score reported is its own; also    *)
(* after a relaunch, when the process was killed at an await.              *)
BestIsBest ==
    stats.root # NoCandidate /\ main \notin {"down", "start"} =>
      /\ BestCandidates(store) = {stats.best}
      /\ stats.bestAvg = EA!AvgScore(store[stats.best].scores)

(* What one slot runs at most: its parent, its child, MaxReflections        *)
(* reflection children, each on one batch.                                 *)
SlotRollouts == (2 + MaxReflections) * BatchLength

(* New work stops at the limits: they are overshot by no more than what the *)
(* slots in flight still run, also when a limit is reached while the main  *)
(* coroutine waits for a permit.                                           *)
BudgetOvershoot ==
    /\ stats.rollouts <= MaxRollouts - 1 + NumProposals * SlotRollouts
    /\ stats.systemRuns <= MaxSystemRuns - 1 + NumProposals * (SlotRollouts + ValSize)

(* Without a crash every opened slot is recorded exactly once, as accepted  *)
(* or rejected, however it ends.                                           *)
EverySlotRecordedOnce ==
    restarts = 0 /\ main # "down" =>
      /\ stats.iteration = recorded + Cardinality(Running)
      /\ stats.root # NoCandidate => stats.total + stats.rejected = 1 + recorded

(* parent_id and children_ids agree, and a child is one generation below    *)
(* its parent and younger.                                                 *)
FamilyTree ==
    \A c \in DOMAIN store :
      /\ \A d \in store[c].children : d \in DOMAIN store /\ store[d].parent = c
      /\ store[c].parent \in DOMAIN store =>
            LET p == store[c].parent IN
            /\ c \in store[p].children
            /\ p < c /\ store[c].generation = store[p].generation + 1

(* Only candidates with a full val score list are ever in the pool, also    *)
(* after a kill at an await.                                               *)
AliveIsValidated == \A c \in EA!Alive(store) : store[c].scores \in ValScores

(* With cleanup and when no rollout raises, a candidate that is not alive   *)
(* is in the hands of a slot (or the root in evaluation): nothing leaks.   *)
NoLeak ==
    CleanupUnavailable /\ ~RolloutMayFail /\ main \notin {"baseline", "down", "start"} =>
      PoolByState(store, {"unavailable"}) = Owned

(* The scheduler only gives up because a limit is reached or select raised: *)
(* an empty selection always has a slot in flight to wait for.             *)
StopsOnlyOnBudget == main \in {"drain", "done"} => BudgetExhausted \/ SelectMayRaise

(* When optimize returns every slot has ended and what they did is saved.   *)
DrainedAtDone ==
    main = "done" => Running = {} /\ PoolByState(store, {"evolving"}) = {} /\ saved = stats

(* A candidate's cursor never goes back, whatever slot or relaunch touches it. *)
CursorMonotone ==
    [][\A c \in DOMAIN store \cap DOMAIN store' :
         LET old == store[c].cursor
             new == store'[c].cursor
         IN  \/ new = old
             \/ new = Advance(DatasetSize, BatchSize, old)]_vars

(* The run ends: no slot, permit or wait can hold it up for ever. *)
Termination == <>(main \in {"done", "down"})
=============================================================================
