# A TLA+ verification of AntOmniEvo

AntOmniEvo evolves the *tunable artifacts* (prompts, tool code, configuration)
of an LLM system. A population of candidates lives in a workspace directory; a
scheduler keeps a few *slots* busy, each of which picks a candidate, runs it on
a batch of training items, has a coding agent propose a mutated child, runs the
child on the same batch, perhaps lets the agent *reflect* on a failure for a few
levels, validates an accepted child and lets a Pareto algorithm prune the pool.

This directory models that program in TLA+, from the scheduler down to the file
writes of the store and the lines of an agent's stream, checks the models with
TLC on small instances and proves the scheduler, its refinement of an abstract
pool, the evolution algorithm, the cursor and the proposer with TLAPS for all
parameters. Paths below are relative to the repository root.

## 1. The system

| component | state it keeps | operations | hard behaviour |
|---|---|---|---|
| **Scheduler** `antomnievo/optimizer/optimizer.py` `optimize` | `slot_sem`, `active_tasks`, `statistics` | start or resume, budget check, acquire, select, open a slot, wait, drain | permits given back on three exits, stale task sets, limits reached while waiting |
| **Slot** `optimizer.py` `_evolve_one`, `_step_*` | locals held across hours of awaits: parent, advanced cursor, chain of children | parent rollout, propose, child rollout, challenge, reflection chain, validate, record | every await may raise; the store changes meanwhile; many exits |
| **Training cursor** `_derive_batch`, `CandidateMeta` | `(epoch, dataset_index)` | derive a batch, advance | tail batch, batch larger than the dataset, dataset changed between launches |
| **Evolution algorithm** `antomnievo/evolution_algorithm/pareto_frontier.py` | none (reads the store) | `select`, `eliminate` | ties, candidates compared but not retirable, tolerance |
| **Candidate store** `antomnievo/store/candidate_store.py` | caches of metas, summaries, statistics, written through to files | create, delete, retire, set state/progress/scores, append records, recovery at start | a kill between or inside file writes, lineage with deleted members |
| **Budget, statistics** `antomnievo/model/` | counters and limits | count, check, persist | in-flight overshoot, counters not yet saved when the process dies |
| **Proposer** `antomnievo/proposer/` | a semaphore, result files, the artifact directory | analysis pipeline, mutation, reflection, Pi's retries | parallel agents that partly fail, retries over half-done edits |
| **Run records and analyses** `candidate_store.py` | run files, analyses, their mtimes | save, find unanalyzed, repair | freshness by mtime across failures and rounds |
| **Agent processes** `antomnievo/common/utils/subprocess_utils.py` | process trees | run, time out, kill | a timeout racing the exit |
| **Parsers** `antomnievo/common/utils/trajectory_parser.py` | the open span, pending calls, results | one step per event | lost lines, results in any order, errors recovered from |
| **LangGraph agent** `antomnievo/system/langgraph/` | messages, step count | agent, tools, alert, collect | turn limit, recursion limit |
| **Systems, evaluators** `antomnievo/system/`, `antomnievo/evaluator/` | temporary directories, external scripts | `run_batch`, `evaluate_batch` | scripts that crash, time out, do not start, leave torn files |
| **Scenario optimizers** `antomnievo/optimizer/*/` | containers | the rollout of a scenario, Docker clean-up | one slot's clean-up meeting another's containers |
| **Concurrency pool** `antomnievo/common/utils/concurrency_pool.py` | total, available | acquire, release | several slots taken at once |
| datasets, artifact definitions, prompts, JSON extraction, scripts, LLM clients, examples, skills | | | text, pure I/O or external services: not modelled |
| **Visualizer** `visualizer/` | what its pages last fetched | poll, show | reads the workspace while it is written; front end not modelled |

How they interact: scheduler, slots, rollouts and agent jobs are coroutines of
one asyncio loop. They share the store, the statistics and three kinds of
semaphore, and call the store and the evolution algorithm synchronously, so what
one coroutine does between two `await`s is atomic to the others. All concurrency
is at the awaits: rollouts and agent calls, which take minutes to hours and
return or raise in any order. Outside the loop there are agent processes, the
scripts of the scenarios and their containers, which write files the program
reads later; and the process as a whole may be killed at any instruction, when
only the files are left.

`PROJECT.json` lists the hazards of this code, each at its line, with the
properties that would catch it going wrong.

## 2. Modules

| module | models | extends / instances |
|---|---|---|
| `DatasetCursor` | `_derive_batch`: batch bounds and the advanced cursor | |
| `CursorWalk` | one lineage of candidates consuming its batches over epochs and relaunches | `DatasetCursor` |
| `ParetoFrontier` | `select(1)` (the set it may draw from) and `eliminate` (the set it retires) over any population | |
| `EvolutionPool` | **abstract specification**: what the optimizer promises about its live population | `ParetoFrontier` |
| `CandidateStore` | the store's operations as functions on store values | `DatasetCursor` |
| `Optimizer` | scheduler and slots, failures, kills at an await, relaunch | `CandidateStore`, `ParetoFrontier` |
| `OptimizerRefinesPool` | `Optimizer` implements `EvolutionPool`: the population a store holds | `MCOptimizer`, `EvolutionPool` |
| `StoreContract` | **abstract specification**: what the store's interface lets its callers rely on, interruptions included | `CandidateStore` |
| `CandidateStoreDisk` | the store's files, one step per write; kill, load, recovery; implements `StoreContract` | `CandidateStore`, `StoreContract` |
| `ProposerPhases` | `propose` and `reflect`: analysis jobs, filters, retries, repairs, mutation | |
| `Rollouts` | overlapping rollouts in the seven scenarios around one pool | |
| `AgentSessions` | sessions of five kinds of agents and the trajectory made of them | |
| `MCOptimizer`, `MCEvolutionPool`, `MCCandidateStoreDisk` | the val score lists of the TLC instances | |
| `CursorWalkProofs` | lemmas about the batches, the theorems about `CursorWalk` | |
| `OptimizerProofs` | lemmas about the store's operations, the theorems about `Optimizer` | |
| `EvolutionPoolProofs` | lemmas about `select` and `eliminate`, the theorems about `EvolutionPool` | |
| `OptimizerPoolProofs` | the refinement of `EvolutionPool` by `Optimizer`, the theorems about best, budget and giving up | `OptimizerProofs`, `OptimizerRefinesPool`, `EvolutionPoolProofs` |
| `ProposerPhasesProofs` | the theorems about `ProposerPhases` | |
| `RolloutsProofs` | the theorems about `Rollouts` | |
| `CandidateStoreDiskProofs` | lemmas about lists of file writes, the theorems about `CandidateStoreDisk`, its refinement of `StoreContract` | |
| `AgentSessionsProofs` | lemmas about what each line does to the parser, the theorems about `AgentSessions` | |

The models meet where the code's components call each other. `Optimizer` takes
`propose` and a rollout as calls that return or raise; `ProposerPhases` and
`Rollouts` open them up and show that they do return (`ProposeReturns`,
`RolloutReturns`), which is what `Termination` of `Optimizer` assumes of them.
`Optimizer` and `CandidateStoreDisk` use the same operators of `CandidateStore`:
the one as atomic steps, the other to say what the file writes must add up to;
`WriteThrough` is why the one may take the store as whole when the process is killed at an await.
`ProposerPhases` takes the verdict on a session as an input; `AgentSessions`
shows how it comes about.

### Correspondence with the code

*`Optimizer`.* `main` is where `optimize` is: `baseline` awaits the root's val
rollout, `acquire` the semaphore, `wait` is `asyncio.wait(active_tasks,
FIRST_COMPLETED)`, `drain` the final `gather`; `start`, `check` are running code.
Slots step only while `main` is suspended in one of the awaits. `tasks[i]` holds
the locals of the slot with `slot_iteration` i, and its `pc` names what it
awaits. A step is the code from one await to the next with everything it
changes: a slot's last step sets the cursor and state of the parent, runs
`eliminate`, records the iteration, saves the statistics and releases the
permit (`Completed`, `EndSlot`). A released task stays in `active_tasks` until
its done callback (`Discard`), which is why the main coroutine can meet tasks
that have ended. An exception goes through `RolloutRaises`, which does only what
the `except` branch does; an exception of `select` ends `optimize` with the slots
drained. `CrashAtAwait` kills the process while every coroutine awaits: memory
(tasks, permits) is dropped, the store stays. No operation of the store is in
progress at an await, and `CandidateStoreDisk!WriteThrough` says that the files
then hold the candidates and the statistics as the caches do. Kills inside a step,
between two operations or in the middle of a write, are not steps of `Optimizer`: they are
the subject of `CandidateStoreDisk` (section 7 says what that leaves open). `Restart` is
`Optimizer.__init__`: delete the unavailable candidates if the store cleans up, then
reset the evolving ones.

Abstractions: the score of a rollout on a batch is its sum, in integer units up
to `PerfectSum` (a batch is perfect iff its sum is); val scores are integer
lists and the average is ranked by the sum; candidate ids are numbers in the
order of creation and stand for `created_at` too; a draw of `select` may return
any candidate of non-zero weight; tokens and wall-clock time are one flag that
the environment may raise. Artifacts, changelogs, run records and logging are
left out. The order in which the loop resumes ready tasks is not assumed, so the
model has more interleavings than the loop.

*`EvolutionPool`* keeps only alive candidates with state, generation and
scores. `Borrow` is opening a slot, `Return` and `ReturnWithChild` its completion,
`Fail` its exception path, `Recover` the startup recovery. `OptimizerRefinesPool`
maps `pop` to the alive part of the store; every other step of `Optimizer` stutters.

*`ParetoFrontier`.* `Frontier` keeps the order of phase 1 (generation, then
creation, descending; a candidate that is still alive at its turn kills in both
directions) as a recursive function over that order. `Eliminated` spares
evolving candidates as the code does. Scores compare with `ScoreEps`, 0 in all
runs; the theorems that do not say otherwise hold for any (section 6).

*`CandidateStoreDisk`.* `mem` and `stats` are the caches, `dirs` the candidate
directories by their parts (artifact, data, `meta.json`, `summary.json`),
`statsFile` and `records` the other files. An operation changes the caches at
once and leaves its writes in `todo`; `FileStep` performs the first of them. A
JSON file is written by truncating and then filling it, as `open(path, "w")`
does; a tree is copied and removed part by part, and `rmtree` removes the parts
in any order. `Kill` may come between any two steps and drops the caches.
`_load_all_from_disk` skips what it cannot parse. `boot` walks through the
startup recovery one candidate at a time. Callers are reduced to what the
optimizer does with the store: `create_child` of an evolving parent, or of an
unavailable one that is the last of a reflection chain (`MakesChild`, the call of
`_step_reflect`); `Admit`, `Slot` (`set_state`, `set_progress`), `Eliminate`,
`save_statistics`, `append_iteration_record`. The refinement maps `pop` to what the caches say, or,
while the process is down, to what the files would load as; `prev` to the same
before the operation in progress.

*`ProposerPhases`.* A round is one rollout of the candidate and one `propose` (or
`reflect`, which starts from a new candidate's directory). Time stamps are round
numbers. `phase` is where `_run_analysis_pipeline` and `_run_mutation_pipeline` are; `pc[j]`
is where the agent job of data id j, or of the mutator, is: waiting for the
semaphore, running, in backoff with the semaphore held, or over. `End` applies the
backend's verdict on one of seven ways a session ends; for Pi a transient one is
tried again up to `MaxAttempts` times, in the same directory. `Write` may happen
any number of times while an agent runs. `CloseAnalysis` is the code after the
`gather`, with the repairs of malformed analyses. `wroteIn` records in which
attempts an agent wrote, `covered` the runs whose agent wrote its result. What a repair
recovers may have actions to take or not; only an analysis with actions lets the mutation begin.

*`Rollouts`.* `kind` is the scenario. A rollout begins with a batch, takes its
slots of the pool (`acquire`: all at once or none), runs trials up to the
system's concurrency, and ends as its script does: exit, crash, timeout, or not
started. What is readable then, and whether the file ends in a torn entry,
decides per scenario what `run_batch` returns or raises; `release` is part of that
step, because it is in a `finally`. The two Harbor systems take an item's answer from the
trajectory of its first trial, which may be missing or not parse while another trial, or
the verifier, gives a score; so their result is "maybe" an output, and "empty" for sure
only without a trial directory. Their optimizers then clean up by item name, whoever runs
the trial: Terminal-Bench removes all its containers (or none, errors are only logged),
DP Text2SQL images and networks, which may hit any of the running trials of
the item. `evaluate_batch` scores what is left, or raises when its script cannot be
started, and the temporary directory is removed either way. The scripts are external: they are modelled by the files the
code in `antomnievo/` reads from them.

*`AgentSessions`.* A session is a list of turns with their calls, extended by
`StartTurn`, `Call`, `EndTurn`, `ToolResult`; it ends by itself, on an error, or
killed. The stream parsers consume each line as it is produced (or lost:
`Line`), one operator per event type; the formats that are read from a file are
parsed at the end, into one flat root span with the calls below it: all calls for eddy
and the ReactAgent, for Harbor those of steps that stopped to use tools. Spans of a stream
carry the turn they stem from so that a property can compare the trajectory with the
session; those of Claude Code have no stop reason. A turn's `tokens` say whether it was
charged for output, which is what Pi's parser asks when it looks for a session of
nothing but errors. In place of a lost line of Claude Code a line may stand that is JSON
but no object (`no_object`): `parse_stream_json` raises, the stage is "raised" and there is
no trajectory.

## 3. Runs and bounds

| run | instance | states |
|---|---|---|
| `cursor_walk` | dataset sizes {1,2,3,4,6,7}, batch sizes {1,2,3,5}, 2 epochs, relaunch with any of them | 12 444 |
| `evolution_pool` | 4 ids, 2 slots, 5 val score lists, cap 2, generations 0 to 2 | 13 153 |
| `scheduler` | 2 permits, 4 iterations, no reflection, failures, limits of 6 rollouts and 13 system runs and a third that may be reached at any time, 1 kill at an await and relaunch | 164 105 |
| `reflection` | 2 permits, 3 iterations, 2 reflection levels, no raising rollout | 38 532 |
| `kept` | 2 permits, 2 iterations, 1 reflection level, failures, `select` may raise, 1 relaunch, `cleanup_unavailable` off, cap 1 (pool ids and generations larger than any reached) | 128 635 |
| `proposer` | 2 data ids, 2 rounds, 1 agent at a time, 2 attempts, filter to 1 run | 437 068 |
| `store_disk` | 3 candidates, 2 cursors, 1 kill, 2 records | 2 078 685 |
| `rollouts` | 2 slots, 2 items, pool of 2, concurrency 2, 2 attempts per item, 2 rollouts, 7 scenarios | 480 518 |
| `sessions` | 4 turns, 4 calls, 2 lost lines, turn limit 1, recursion limit 7, 5 formats | 2 680 327 |
| `claim_half_finished`, `claim_resumes_cleanly`, `claim_no_interference` | the instances of `proposer`, `store_disk` and `rollouts` | violated |

Why they are enough: the interesting sizes are relative. A dataset of 3 with a
batch of 2 has a tail batch that overlaps; sizes that are multiples, smaller
than the batch and primes are in `cursor_walk`. Two permits give every pairwise
interleaving of slots, and a third and fourth iteration slots that start after
one ended while another is still running (the case that would break ownership,
move a cursor back, or overshoot a limit once more). The val score lists of
`evolution_pool` are three incomparable ones of different averages (a frontier
above the cap, with a best to lose), one above and one below them all; two
instances scored 0/1 elsewhere give dominated, incomparable and tied candidates.
`PerfectSum = 3` with a threshold of 2 gives a child worse than, equal to, better
than its parent below the threshold, above it, and perfect. Two reflection
levels give a best that is first, middle or last.

Two data ids under a semaphore of one give an agent that waits while another
fails; two rounds give results older and newer than runs; two attempts a first,
a retried and a last one. Three candidates give a parent that is itself a child
and is deleted between its parent and its child, and a reflection chain of an
evolving candidate and two linked unavailable ones, which the recovery deletes in either order;
one kill leaves one interrupted operation and a whole recovery after it. Two cursors give a
`set_progress` that changes the file. Two rollouts that each want
the whole pool wait for each other if slots could be taken one by one; two
attempts at an item pass in part. Four turns give a turn before, with, and after
a lost line, and a session that recovers from an error and fails again; two
losses are a begin and an end of the same turn, or of two turns.

`MaxIterations`, `MaxRollouts`, `MaxSystemRuns` are limits of the program;
`MaxRestarts`, `Generations`, `MaxEpoch`, `MaxRounds`, `MaxCrashes`, `MaxRecords`,
`MaxCalls`, `MaxTurns`, `MaxLost`, `Rollouts!MaxRollouts` and the finite id sets
bound the models only. Limits of 99 stand for none. Deadlock is checked where a
component runs to an end that the model names (`scheduler`, `reflection`, `kept`,
`proposer`), and not checked where the model just stops at its bounds.

## 4. Properties

| property | run | what it says |
|---|---|---|
| `EpochCovers`, `EpochSlots`, `CursorForward` | `cursor_walk` | an epoch evaluates every item, in ceil(n/b) slots; the cursor never goes back |
| `PoolBound` | `evolution_pool` | at most cap + slots - 1 alive candidates |
| `FrontierIsMaximal` | `evolution_pool` | the order-dependent phase 1 computes exactly the candidates nobody beats |
| `BestNeverDrops` | `evolution_pool` | no step loses the best average score, but for what the tolerance of a comparison allows (0 in the run) |
| `AlwaysSelectable` | `evolution_pool` | a seeded pool never dies, and when no slot runs something can be drawn |
| `PrunedAfterReturn` | `evolution_pool` | after a completed slot nothing is left to eliminate, also of those spared before |
| `SlotOwnership` | `scheduler` | evolving candidates = parents of running slots, one slot each, through failures and relaunches |
| `PermitsBalance` | `scheduler` | free permits + running slots = `num_proposals` |
| `EverySlotRecordedOnce` | `scheduler` | each slot yields one record, counted once |
| `AliveIsValidated` | `scheduler` | nothing unscored is ever in the pool, kills at an await included |
| `StopsOnlyOnBudget` | `scheduler` | the scheduler never gives up for lack of candidates |
| `DrainedAtDone` | `scheduler` | when `optimize` returns no slot runs and all is saved |
| `BudgetOvershoot` | `scheduler` | limits are overshot by at most what the slots in flight still run |
| `CursorMonotone` | `scheduler` | a candidate's cursor only ever advances by one batch |
| `Termination` | `scheduler` | the run ends |
| `ChainOwnership` | `reflection` | a slot's children survive its awaits, unselectable and its own |
| `SnapshotFresh` | `reflection` | the cursor computed before the awaits is still right when used, and every child carries it |
| `NoLeak` | `reflection` | what is unavailable is in a running slot's chain |
| `FamilyTree` | `reflection` | `parent_id` and `children_ids` agree under deletion |
| `BestIsBest` | `kept` | the reported best is alive, unbeaten, and its score its own, also after a kill at an await |
| `PoolSpec` | `kept` | `Optimizer` implements `EvolutionPool` |
| `EvidenceBeforeMutation` | `proposer` | the mutation agent starts only when every imperfect run has a newer analysis |
| `AnalyzedIffCovered` | `proposer` | a run counts as analysed iff an agent that was told of it wrote the result |
| `ProposeReturns` | `proposer` | `propose` returns, whatever the agents do |
| `WriteThrough` | `store_disk` | between operations the files say what the caches say, statistics included: a kill there loses nothing |
| `NoDanglingChild` | `store_disk` | no readable meta names a child without a directory, kills included |
| `LoadedIsWhole` | `store_disk` | whoever loads the workspace, at whatever moment, gets whole candidates |
| `RecordLoss` | `store_disk` | a kill costs at most one appended record |
| `BootIsRecover` | `store_disk` | the recovery, write by write and in any order, comes to one atomic `Recover`, with linked members of a reflection chain among the deleted |
| `ContractSpec` | `store_disk` | the files implement `StoreContract`: atomic operations, and a kill that hurts no more than the operation it hits |
| `PoolAccounting` | `rollouts` | slots of the pool are free or held however scripts end, and cover what runs |
| `RecordCoherent` | `rollouts` | a score is earned by a trial of this rollout; it goes with an output where both are read from one file (Text2SQL, AdConfig, ReactAgent); full marks only with no attempt failed or cut short |
| `RolloutReturns` | `rollouts` | a rollout gets its slots and ends |
| `LossContained` | `sessions` | n lost lines of a stream spoil the telling of at most n turns, with none lost the trajectory is the session; only what stands for a lost line of Claude Code can make the parser give up |
| `EndsInErrorIsTold` | `sessions` | a session that ended on an error is told as failed, one that recovered is not |

`TypeOK` is checked once for each of `CursorWalk`, `Optimizer` and `ProposerPhases`,
where the proofs rest on it. Each property is also checked against a mutant of
the code's model (the definitions commented "Mutant", listed in `PROJECT.json`): a
dropped flip to `evolving`, a permit not given back, a child linked before it is
written, an attempt too many, slots taken one by one, a pending call kept for
the next span. TLC finds every one of them.

### Fairness

- `Optimizer!FairSpec`: `WF_vars(MainStep \/ \E i : SlotStep(i))`. The event loop runs
  something while anything is ready, and awaited calls come back. The first is
  asyncio's contract. The second is `ProposeReturns` and `RolloutReturns`.
- `ProposerPhases!Fairness`: weak fairness of each agent job and of the steps of the
  pipeline. Agents run under a timeout (`subprocess_utils.py`) and backoffs are
  finite sleeps. That an agent writes anything, and that rollouts come, is not assumed.
- `Rollouts!Spec`: weak fairness per rollout, that is, scripts and trials end. Three
  scenarios have a timeout; the others await their script without one, and there
  the assumption is about the external script. The pool wakes all waiters on a
  release. It is not a queue, so a large request may be overtaken by small
  ones; it starves only under an endless supply of them, which neither the slots
  nor the budget allow. The run is too small to exercise repeated overtaking.

Crashes, limits, kills, relaunches and lost lines are never assumed to happen.

## 5. Where code and documentation disagree

Three runs expect a violation and show the shortest way to it.

- `claim_half_finished`: `base_proposer.py:437` says an aborted session's half-finished
  mutation "must not be rolled out as a candidate". Pi's retry
  (`pi_coding_agent_proposer.py:104`) starts in the directory the aborted attempt
  edited, and the artifact is compared with the snapshot from before the first attempt:
  a retry that ends cleanly without an edit passes off the leftovers as a mutation.
- `claim_resumes_cleanly`: `docs/features.md:21` says "an interruption and restart
  anywhere will resume cleanly". JSON files are rewritten in place
  (`candidate_store.py:669`). A kill inside a write of a `meta.json` loses
  that candidate; inside one of `statistics.json`, the next launch believes it is
  the first and creates a second root.
- `claim_no_interference`: `docs/system-design.md:70` says slots run "without
  interfering". `terminalbench_optimizer.py:30` removes every container named after one
  of its items, also those another slot is running.

Seen while modelling, not run:

- `_derive_batch` (`optimizer.py:629`) and `docs/system-design.md:62` say the cursor
  advances even on failure. It does when the proposer fails, not when a rollout
  raises: the `except` branch sets no progress and the same batch is drawn again.
- `docs/system-design.md:67` says `eliminate` runs after every slot. A slot that
  raises skips it, so a parent dominated while it was evolving stays selectable
  until another slot completes.
- `_step_reflect` (`optimizer.py:478`) says every chain candidate but the accepted best
  is retired on exit. A rollout that raises (`:531`) leaves the whole chain in the store
  until the next launch.
- `_step_challenge_parent` says the reflection loop returns a descendant that clears the
  threshold "or None"; `_step_reflect` accepts any that beats the parent, as its own
  docstring says. `total_candidates_created` counts the root and accepted children only.
- `docs/checkpoint-resume.md:10`: when Pi's last attempt ends in a transient error the
  exception carries no trajectory, so that session's is not saved.
- The "global concurrency cap" (`dp_text2sql_system.py:286`) is not one of trials: a
  system takes `min(concurrency, len(data_list), cap)` slots and tells its script
  `concurrency` (`:364-371`, `terminalbench_system.py:313,399`), so a concurrency
  above the cap, or several attempts per task, run more trials than slots.
  `PoolAccounting` says when the slots do cover what runs.
- An AppWorld or RAG-pipeline item may have a score above 0 with an "error" result: the evaluator
  reads files the system has given up on. `RecordCoherent` excepts these two, and the Harbor
  scenarios, where an answer may be empty beside a score: the answer is that of the first
  trial's trajectory (`terminalbench_system.py:348`, `dp_text2sql_system.py:401`), the score that of the verifier.
- `trajectory_parser.py:41` catches `JSONDecodeError` only: a line of Claude Code's stream that
  is valid JSON but no object raises out of `parse_stream_json`, and the whole trajectory is
  lost.
- `react_agent.py`: after the turn limit every further tool turn leads to an alert,
  its calls stay unanswered, and a model that keeps calling tools only stops at
  the recursion limit, where the messages are lost.
- The dashboard refetches when the statistics' mtime, in whole seconds, changes
  (`workspace_reader.py:230`, `useDashboardData.ts:45`): a second save within the
  second is not shown, and an older answer may overwrite a newer one.

## 6. Proofs

All of them for every value of the constants, from the named assumptions
`CursorWalkAssumption`, `PoolAssumption`, `StoreAssumption`, `DiskAssumption`,
`OptimizerAssumption`, `ProposerAssumption`, `RolloutsAssumption` and
`SessionAssumption` (sizes and limits are naturals, at least one slot, dataset and
batches not empty, val score lists of one length, finitely many data ids, candidate
ids and overlapping rollouts, at least one attempt), which TLC evaluates in the runs.

*The cursor* (`CursorWalkProofs`): `TypeOK`, `EpochCovers`, `EpochSlots` and
`BatchInDataset` (a batch is a non-empty part of the dataset; proved, not run) are invariants and
`CursorForward` an action property. That an epoch covers the dataset cannot be
seen when it closes unless one knows what it did so far, so `IInv` adds `Prefix`:
in an epoch that ran under one dataset the cursor is inside it, the items seen
are exactly those before it, and it stands at `slots * batch`.

*The scheduler, who owns what* (`OptimizerProofs`): with any number of slots,
reflection levels, iterations, kills at an await and relaunches, with or without clean-up,
`TypeOK`, `SlotOwnership`, `PermitsBalance`, `ChainOwnership` and
`AliveIsValidated` always hold. They hold together or not at all. The permits
stay in their range because of the balance; the best candidate's average is
well defined because everything alive is validated; the parent a slot returns
to still exists because it is the only slot evolving it and `eliminate` spares
evolving candidates; retiring a chain takes nothing from another slot because
chains are disjoint and unavailable while parents are evolving. `IInv` therefore
conjoins them, with what they need of the control: ownership also before the
loop starts (`Ownership`), no slot before the loop or after the process died
(`Quiet`), a slot's index is never reused (`Counted`), the child and the best a
slot refers to are in its chain as long as it needs them (`LocalOK`).

*The scheduler, what it leaves behind* (`OptimizerProofs`, second part): on top of `IInv`,
`FamilyTree`, `SnapshotFresh`, `NoLeak`, `EverySlotRecordedOnce`, `DrainedAtDone`
and the action property `CursorMonotone`. Their invariant `HInv` adds

- `Tree`: `FamilyTree`, with the ids of parents below those of children even when
  the parent is gone, so that a new candidate is nobody's parent;
- `Tidy`: the shape of a slot's chain at each await. When it validates, only the
  accepted child is left; without it an end of a slot could leave others behind;
- `Fresh`: `SnapshotFresh`. It is kept because no other slot touches the parent
  (`Ownership`) or the chain (chains are disjoint), and it is why `set_progress`,
  which writes an old snapshot, is an advance of the present cursor (`CursorMonotone`);
- `Leftovers`: `NoLeak` also during the baseline and between a relaunch and the loop;
- `Recorded`: opened slots = recorded slots + permits taken, and the root counted
  from the moment the baseline ends. The permits stand for the running slots, so the
  argument needs no arithmetic on sets;
- `Drained`: what is true after the last `gather`.

The argument is modular. The first section of `OptimizerProofs` states for each
store operation which candidates it touches (`Effect`); a second family of lemmas what it does
to lineage, cursors and unavailable candidates. `SlotMoves`, `SlotEnds` and
`SlotCompletes` (`MovesHistory`, `EndsHistory`, `CompletesHistory`) say what a
slot's step must do to the store to keep the invariant; each action is then
shown to do it. Of the evolution algorithm the proofs of this module use
only that `select` draws and `eliminate` retires pending candidates, so they hold
for any algorithm that does.

*The evolution algorithm* (`EvolutionPoolProofs`): `PoolBound`, `AlwaysSelectable`,
`FrontierIsMaximal`, `BestNeverDrops` and `PrunedAfterReturn`, for any population, score
lists, cap and number of slots. The frontier is a recursive function along the
order in which phase 1 visits the candidates, so what it computes is argued by
least counterexamples in that order: a candidate is not in the frontier only if one
that was alive at its turn beats it, and beating is transitive when scores compare
exactly, so somebody
in the frontier beats it. With a tolerance beating is not transitive, and `FrontierIsMaximal`
and `PrunedAfterReturn` assume `ScoreEps = 0`. The others do not: somebody survives
phase 1 whatever the tolerance, because the last candidate that is alive at its
turn is dominated by no other that was, and `BestNeverDrops` allows for a `Drift`. A chain of
candidates each within the tolerance of the next can cost the best `ScoreEps` per
link; the bound is that there are no more links than other candidates alive. It holds
because the order is fixed (`SurvivorNear`): whoever is killed is killed by a candidate
that was alive at its turn, and such a candidate can itself only be killed by a later one, so
the chain from any candidate to a survivor visits nobody twice. In the units of the code a
slot lowers `best_avg_score` by at most `SCORE_EPS` (1e-8) times `max_candidate_num +
num_proposals - 1`, and by nothing when scores compare exactly. TLC finds the strict
property violated with a tolerance of one score unit, so the drift is real, and the
bounded one satisfied. The average is a fold over the instances;
that it grows with every score is proved of any function that satisfies the fold's
equation. The invariant `PInv` is the types, `PoolBound`, and that at most `NumProposals`
candidates are evolving.

*What the scheduler promises* (`OptimizerPoolProofs`): every behaviour of `Optimizer`
is one of `EvolutionPool` (`OptimizerIsAPool`), the reported best is the best
(`BestIsReported`), limits are overshot by at most what the slots in flight run
(`OvershootIsBounded`), and the loop gives up only on a limit (`GivesUpOnlyOnBudget`). On
top of `IInv`, the invariant `RInv` has three parts:

- `SlotInv`: at each await, the reflection depth, and that all a slot created
  descends from its parent; an accepted child joins the pool in a younger
  generation, which is what `ReturnWithChild` of the pool demands;
- `PoolInv`: before the root is scored nothing is alive; from then on the pool is not
  empty and the statistics, in memory and on disk, name its best. It says so of
  the file too because a relaunch after a kill at an await starts from it;
- `BudgetInv`: what is spent plus what the running slots may still spend is within the
  bound. A slot's remaining batches (`Left`) are counted as pairs of slot and
  position (`Todo`), so the sum over the slots is the size of a finite set and a
  step takes a pair out of it; validations likewise (`Unvalidated`).

The refinement rests on one observation, stated as `Moves` and `Ends`: seen from the
pool, a step of a slot either is invisible, because all it creates and retires
is unavailable, or it ends the slot and gives back exactly the candidate that was
borrowed, with or without a child. Each action of `Optimizer` is shown to be one
or the other once, and both the invariant and the refinement follow from the
shapes. `ImplementsPool` carries the result over to `PoolSpec`, which the run checks
for a bounded set of ids and generations; the theorem takes all of them. What is
proved of the pool then holds of the program: no more than `MaxCandidateNum +
NumProposals - 1` candidates are alive (`AliveIsBounded`), the best average among
them never drops (`BestAverageIsKept`), nor does the score the statistics report
(`ReportedIsKept`), which `docs/workspace-artifacts.md` says of
`avg_score_history`; the last two but for the drift (`ExactDrift`: none if scores compare exactly). All of
them are about behaviours of `Optimizer`, in which the process is killed at awaits only. Of a
kill inside a write they say nothing, and `claim_resumes_cleanly` shows that there the
best candidate or the statistics can be lost.

*The proposer* (`ProposerPhasesProofs`): `TypeOK`, `EvidenceBeforeMutation` and
`AnalyzedIffCovered`, for any number of data ids, runs, attempts, agents and
rounds. `Handed` links the moments that are far apart in the code: from the head of the
pipeline on, every imperfect run is in a prompt or was analysed before; whoever is
named has a job; a job that is "ok" has written in this round. Then the `gather`
without a failure is all that `CloseAnalysis` needs. That the filters may only
leave out perfect runs is the lemma `FilterKeepsImperfect`. `AnalyzedIffCovered`
needs the dates (`Dated`): no run is younger than the round, so a result of this
round is newer than all of them, and a repair, which also rewrites it, only
happens to a result whose runs were covered.

*The files of the store* (`CandidateStoreDiskProofs`): `WriteThrough`, `NoDanglingChild`,
`LoadedIsWhole`, `RecordLoss`, the action property `BootIsRecover` and the refinement
`ContractSpec`, for any ids, score lists and numbers of kills and records. None of
them is inductive: between two operations the files agree with the caches only
because every operation has written all it changed, and what a kill leaves
behind depends on how far it got. `IInv` therefore ties `todo` to both sides:

- `WriteInv` (while the process is up): what a cache says is in the file, or a write
  in `todo` will put it there (of the statistics `SavedOrSaving` says so, beside `IInv`); what is on disk but in no cache cannot be loaded, or its
  removal ends `todo`. `StepsOK` says of each pending write what its kind requires
  (a `mkdir` comes first, an `rmtree` last, a truncation is followed by its filling), and
  `CopyFirst` that the copies precede the JSON files: `LoadedIsWhole` needs no more
  of an order of writes;
- `InterruptInv` (inside an operation): each file says what the caches said before
  the operation or what they say now, at most the one being rewritten is
  unreadable, and an operation changes the meta or the scores of a candidate, never
  both. This is what a kill reveals and what `StoreContract` promises;
- `Tree`: caches and files name the same parent for a child, and nobody is his own. A
  deleted candidate is then named by its parent only, whose entry is written
  before the directory is removed;
- `BootInv`: how far the recovery has come from what was loaded. It is stated with
  `Delete` and `SetState` on sets, so that the order of the candidates drops out
  (`DeleteTwice`: deleting one after the other is deleting both). Members of a reflection
  chain are unavailable and linked to each other, so deleting one rewrites the other's meta.

An operation is shown to keep `IInv` in two parts: its list of writes has the shape
`StepsOK` demands (`MetaList`, `DeleteList`, `CreateChildList`, ...), and an operation whose list
covers what it changes keeps the rest (`ShrinksKeeps`, `GrowsKeeps`). The steps of
the list are treated once for all operations: a copy, truncation or filling
(`PutKeepsFiles`, `PutKeepsList`, `PutKeepsPast`), `mkdir`, and the parts of an `rmtree`. For the
log of iteration records, `RecordInv` charges every lost record, and a torn last line
that may still cost one, to a kill of its own. That the recovery ends at `Recover` is the
step `Optimizer` takes for it at a relaunch, so `BootRecovers` joins the two models.

*Rollouts* (`RolloutsProofs`): `PoolAccounting` and the action property `RecordCoherent`,
for every scenario and any number of overlapping rollouts, items, attempts and slots of
the pool. `IInv` says three things of each rollout:

- `TrialsOK`: a rollout in progress has one trial per attempt at an item of its batch,
  any other none;
- `HoldsOK`: a script holds what its rollout requested, and whoever has no script running
  holds nothing and runs nothing; a script runs at most `Concurrency` trials. Code that
  never compares them, the semaphore of a system and the pool, is related here:
  with one attempt per item the trials of a script are at most its items, its
  concurrency and the cap, so at most what it holds;
- `TellsOK`: between `run_batch` and `evaluate_batch`, what was told of an item agrees with
  the files the evaluator is about to read: who has an output, or maybe one, has a trial
  directory, and an item with an entry in the output file of Text2SQL or AdConfig has an
  output. This survives the clean-up of another rollout, which cuts trials of this one
  short but removes no directory.

The slots held by all rollouts are a set of pairs (`Taken`), so the balance is a
cardinality and a step adds or removes the pairs of one rollout; that the trials of all
scripts are no more than the pairs is one surjection built from one per rollout
(`NoMoreThanHeld`).

*Agent sessions* (`AgentSessionsProofs`): `LossContained` (a trajectory tells all turns
right but at most as many as lines were lost) and `EndsInErrorIsTold`, for any number of
turns, calls and lost lines. Both speak of a parsed trajectory, and neither says anything of
the lines still to come. `IInv` says while they arrive what the parser's state has to do
with the session:

- `History`: no call belongs to two turns, only the last turn can be unfinished, and none of
  its calls is answered yet. A result therefore finds at most one span;
- `Follows`: the spans tell turns in their order, the open one last, and the calls that are
  pending were made since it was opened. After a lost line they may be those of another
  turn, never of an earlier one;
- `Right`: a turn will be told right if its span is open and names its calls, or is closed
  and lacks nothing but results that are still to be attached. The turns for which this
  fails (`Spoiled`) are at most as many as the lines lost;
- `ErrorsOK`: what the parser knows of errors and of output is true, and with no line lost
  nothing of it is missing. It needs that a session only counts as aborted once it is over,
  without which the invariant is not inductive;
- `RaisedOK`, beside `IInv`: the parser gives up only on a stream of Claude Code, and only
  after a line was lost (`Garbles`, `SpoiledThen`).

A line either is read and leaves every right turn right, or is lost and spoils at most the
last turn. There is one lemma per line for the first (`PiStarts`, `PiCalls`, `PiEnds`,
`ReadsResult`, `ClaudeEnds`), one for what the parser does not see (`Moves`), and `Counts`
for the number of spoiled turns. `message_end` of Pi adds the calls it names to the pending ones
in a loop; what the loop computes is argued by the least number of calls for which it would
not (`AddLoop`).

TLC checked the inductive invariants on the instances of the runs before they were proved.

Only model-checked: liveness (`Termination`, `ProposeReturns`, `RolloutReturns`),
which the prover does not reach. Every invariant and every action property the passing
runs check is stated by a theorem.

## 7. What is left out of the models

- *Agent processes*: the timeout is an ending of an agent after which it writes
  nothing. The kill of a process tree that grows while it is listed
  (`subprocess_utils.py:44`) depends on the operating system's scheduling of
  processes the program does not know.
- *Kills inside a step of a slot*: a slot's last step is several operations of the store and
  then `save_statistics` (`optimizer.py:870`). A kill between two of them leaves a pool that
  the saved statistics do not know of yet: the reported best and the counters lag behind
  until the next slot ends, and losers not yet retired stay until it prunes. A kill inside a
  write may lose the candidate being rewritten, or bring one back whose deletion had begun,
  without its scores. `CandidateStoreDisk` has all these kills and shows what the files and the
  recovery make of them (`StoreContract!crash` is the summary); `Optimizer` has kills at
  awaits, so what its theorems say about crashes is about those.
- *Concurrency pool*: nothing in the program calls `set_total`; the cap is fixed
  once the pool exists.
- *Time stamps*: two saves within one tick of the file system's clock are one round;
  a run file name has a resolution of one second, and a slot saves a candidate's
  runs once per rollout.
- *Parsing*: the extraction of JSON from text, the masking of parameters
  (`analysis_parser.py`, `param_utils.py`, `json_utils.py`) are string functions; their
  result is an input ("malformed", "repaired").
- *Iteration numbers*: `current_iteration` is written when a slot ends, so numbers may be
  reused after a kill (`optimizer.py:739`). Only the dashboard's
  score chart orders records by them; records are distinct lines in
  `CandidateStoreDisk`.
- *Datasets, artifact definitions, prompts*: read once, no state.
  *Proposer scripts*: one-shot text tools the agents call.
  *LLM and retrieval clients, scenario scripts*: external services.
  *Visualizer*: a display in another language; what its server may load is
  `LoadedIsWhole`. *Examples and skills*: launch scripts and documentation.

## 8. Plan

What remains:

1. Kills inside a step of a slot, in the scheduler: how far statistics, budget and pool drift
   apart, and that the next completed slot brings them together (section 7).
2. Iteration numbers over relaunches (`optimizer.py:739`).
3. What phase 1 computes with a tolerance: `FrontierIsMaximal` and `PrunedAfterReturn` are
   about exact comparison, and the candidates kept then depend on the order; only what that
   costs the best average is bounded.
