------------------------------ MODULE Rollouts ------------------------------
(***************************************************************************)
(* Overlapping _run_and_evaluate calls of the slots of one optimizer: what *)
(* the scenario optimizers, systems and evaluators do around the external  *)
(* scripts that run and score a batch, and the ConcurrencyPool they share. *)
(*                                                                         *)
(* A script runs the trials of its batch, up to Concurrency at once; with  *)
(* Harbor each in a container named after the item.  It exits, crashes     *)
(* half-way, is killed at its timeout or cannot be started.  It writes one *)
(* entry per item to a file that may then be incomplete and end in a torn  *)
(* entry, except that Harbor writes a directory per trial.                 *)
(***************************************************************************)
EXTENDS Integers, FiniteSets, FiniteSetsExt

CONSTANTS
  Slots,        \* rollouts that may overlap
  Tasks,        \* data ids
  MaxTotal,     \* MAX_TOTAL_CONCURRENCY
  Concurrency,  \* of the system
  Attempts,     \* attempts per task of TerminalBenchSystem
  MaxRollouts   \* rollouts the budget of the optimizer allows

ASSUME RolloutsAssumption ==
  /\ IsFiniteSet(Slots) /\ IsFiniteSet(Tasks)
  /\ MaxTotal \in Nat \ {0} /\ Concurrency \in Nat \ {0} /\ Attempts \in Nat \ {0}
  /\ MaxRollouts \in Nat

VARIABLES
  kind,       \* the scenario of this optimizer
  begun,      \* rollouts so far
  pc,         \* where each rollout is
  batch,      \* its items
  available,  \* free slots of the ConcurrencyPool
  held,       \* slots of the pool each rollout holds
  trials,     \* each rollout's trials: <<item, attempt>> to their state
  written,    \* items with a readable entry in the script's output file
  torn,       \* whether that file ends in the middle of an entry
  result,     \* what run_batch returned for each item, until the rollout returns
  score       \* what evaluate_batch returned for each item

pool == <<available, held>>
outputs == <<written, torn>>
vars == <<kind, begun, pc, batch, pool, trials, outputs, result, score>>

Harbor == {"terminalbench", "dp_text2sql"}
Pooled == Harbor \cup {"text2sql", "appworld"}
WithTimeout == {"text2sql", "rag_pipeline", "adconfig"}
Kinds == Pooled \cup WithTimeout \cup {"react"}

Nothing == [d \in {} |-> 0]
AttemptsOf == 1..(IF kind = "terminalbench" THEN Attempts ELSE 1)

Init ==
  /\ kind \in Kinds
  /\ begun = 0
  /\ pc = [r \in Slots |-> "idle"]
  /\ batch = [r \in Slots |-> {}]
  /\ available = MaxTotal /\ held = [r \in Slots |-> 0]
  /\ trials = [r \in Slots |-> Nothing]
  /\ written = [r \in Slots |-> {}] /\ torn = [r \in Slots |-> FALSE]
  /\ result = [r \in Slots |-> Nothing] /\ score = [r \in Slots |-> Nothing]

In(r, states) == {t \in DOMAIN trials[r] : trials[r][t] \in states}
TrialsOf(r, d) == {t \in DOMAIN trials[r] : t[1] = d}
\* A Harbor trial has a directory from its start on.
Dirs(r, d) == {t \in TrialsOf(r, d) : trials[r][t] # "waiting"}
Passed(r, d) == {t \in TrialsOf(r, d) : trials[r][t] = "pass"}
Finished(r) == {d \in batch[r] : Passed(r, d) \cup (TrialsOf(r, d) \cap In(r, {"fail"})) # {}}

(***************************************************************************)
(* The pool.                                                               *)
(***************************************************************************)
Requested(r) ==
  IF kind \in Pooled THEN Min({Concurrency, Cardinality(batch[r]), MaxTotal}) ELSE 0

\* Mutant: slots are taken one by one.
acquireOneByOne(r) ==
  /\ available > 0 \/ Requested(r) = 0
  /\ available' = IF Requested(r) = 0 THEN available ELSE available - 1
  /\ held' = [held EXCEPT ![r] = IF Requested(r) = 0 THEN 0 ELSE @ + 1]
  /\ pc' = [pc EXCEPT ![r] = IF held'[r] = Requested(r) THEN "script" ELSE @]

acquire(r) ==
  /\ available >= Requested(r)
  /\ available' = available - Requested(r)
  /\ held' = [held EXCEPT ![r] = Requested(r)]
  /\ pc' = [pc EXCEPT ![r] = "script"]

\* Mutant: releases the concurrency of the system, not what was taken.
releaseConcurrency(r) ==
  /\ available' = Min({MaxTotal, available + (IF held[r] > 0 THEN Concurrency ELSE 0)})
  /\ held' = [held EXCEPT ![r] = 0]

release(r) ==
  /\ available' = Min({MaxTotal, available + held[r]})
  /\ held' = [held EXCEPT ![r] = 0]

\* The temporary directory of a rollout is removed on every way out of it.
RemoveTempDir(r) ==
  /\ trials' = [trials EXCEPT ![r] = Nothing]
  /\ written' = [written EXCEPT ![r] = {}] /\ torn' = [torn EXCEPT ![r] = FALSE]

(***************************************************************************)
(* The scripts.                                                            *)
(***************************************************************************)
\* A rollout starts: two systems and an optimizer return at once when the
\* batch is empty, AppWorld raises when the artifact has no skill directory.
Begin(r, b) ==
  /\ pc[r] \in {"idle", "done", "raised"} /\ begun < MaxRollouts
  /\ begun' = begun + 1
  /\ \/ /\ b = {} /\ kind \in {"terminalbench", "rag_pipeline", "adconfig"}
        /\ pc' = [pc EXCEPT ![r] = "done"] /\ UNCHANGED trials
     \/ /\ kind = "appworld"
        /\ pc' = [pc EXCEPT ![r] = "raised"] /\ UNCHANGED trials
     \/ /\ b # {} \/ kind \notin {"terminalbench", "rag_pipeline", "adconfig"}
        /\ pc' = [pc EXCEPT ![r] = "acquire"]
        /\ trials' = [trials EXCEPT ![r] = [t \in b \X AttemptsOf |-> "waiting"]]
  /\ batch' = [batch EXCEPT ![r] = b]
  /\ score' = [score EXCEPT ![r] = Nothing]
  /\ UNCHANGED <<kind, pool, outputs, result>>

Acquire(r) ==
  /\ pc[r] = "acquire"
  /\ acquire(r)
  /\ UNCHANGED <<kind, begun, batch, trials, outputs, result, score>>

\* A script limits its own trials; the semaphore of the base class is shared
\* by all rollouts of the system.  The attempts at an item are interchangeable:
\* they are started in order.
Running(rs) == Cardinality(UNION {{r} \X In(r, {"running"}) : r \in rs})

StartTrial(r, t) ==
  /\ pc[r] = "script" /\ trials[r][t] = "waiting"
  /\ \A k \in 1..(t[2] - 1) : trials[r][<<t[1], k>>] # "waiting"
  /\ Running(IF kind = "react" THEN Slots ELSE {r}) < Concurrency
  /\ trials' = [trials EXCEPT ![r][t] = "running"]
  /\ UNCHANGED <<kind, begun, pc, batch, pool, outputs, result, score>>

EndTrial(r, t) ==
  /\ pc[r] = "script" /\ trials[r][t] = "running"
  /\ \E end \in {"pass", "fail"} : trials' = [trials EXCEPT ![r][t] = end]
  /\ UNCHANGED <<kind, begun, pc, batch, pool, outputs, result, score>>

(***************************************************************************)
(* What the system returns for item d when its script has ended in `end`   *)
(* and left readable entries w, followed by a torn one if tn: an output,   *)
(* an empty one, maybe either, an error message; or run_batch raises.      *)
(***************************************************************************)
Endings == {"exit", "crash", "timeout", "no_start"}

\* TerminalBenchSystem catches every exception.  The answer is the last output
\* in the trajectory of the item's first trial, or the exception that ended the
\* trial; the trial may have left neither, or a file that does not parse.
TerminalBenchResult(r, d) == IF Dirs(r, d) = {} THEN "empty" ELSE "maybe"

\* DPText2SQLSystem takes the answer from the trajectory only.
DPText2SQLResult(r, d) == IF Dirs(r, d) = {} THEN "empty" ELSE "maybe"

\* One JSON object holds all predictions.  The timeout is not caught.
Text2SQLResult(d, end, w, tn) ==
  IF end \in {"timeout", "no_start"} THEN "raise"
  ELSE IF d \in w /\ ~tn THEN "output" ELSE "empty"

AppWorldResult(d, end, w, tn) ==
  IF end = "no_start" THEN "raise" ELSE IF d \in w /\ ~tn THEN "output" ELSE "error"

\* The timeout is reported as every item's output; a torn line is not expected.
RagPipelineResult(d, end, w, tn) ==
  IF end = "timeout" THEN "error"
  ELSE IF end = "no_start" \/ tn THEN "raise"
  ELSE IF d \in w THEN "output" ELSE "empty"

\* The timeout is caught and a torn line skipped.
AdConfigResult(d, end, w) ==
  IF end = "no_start" THEN "raise" ELSE IF d \in w THEN "output" ELSE "empty"

ReactResult(d, w) == IF d \in w THEN "output" ELSE "empty"

run_batch(r, d, end, w, tn) ==
  CASE kind = "terminalbench" -> TerminalBenchResult(r, d)
    [] kind = "dp_text2sql" -> DPText2SQLResult(r, d)
    [] kind = "text2sql" -> Text2SQLResult(d, end, w, tn)
    [] kind = "appworld" -> AppWorldResult(d, end, w, tn)
    [] kind = "rag_pipeline" -> RagPipelineResult(d, end, w, tn)
    [] kind = "adconfig" -> AdConfigResult(d, end, w)
    [] kind = "react" -> ReactResult(d, w)

MayEnd(r, end) ==
  CASE end = "exit" -> In(r, {"waiting", "running"}) = {}
    [] end = "crash" -> kind # "react"
    [] end = "timeout" -> kind \in WithTimeout
    [] end = "no_start" -> kind # "react" /\ In(r, {"waiting"}) = DOMAIN trials[r]

\* The slots of the pool are given back whether or not run_batch raises.  What
\* a dead Harbor script leaves behind, its containers, no longer counts.
ScriptEnds(r, end) ==
  /\ pc[r] = "script" /\ MayEnd(r, end)
  /\ release(r)
  /\ UNCHANGED <<kind, begun, batch, score>>
  /\ \E w \in IF kind \in Harbor THEN {{}} ELSE SUBSET Finished(r),
        tn \in IF kind \in Harbor \/ end \in {"exit", "no_start"} THEN {FALSE} ELSE BOOLEAN :
       LET returned == [d \in batch[r] |-> run_batch(r, d, end, w, tn)]
           raises == \/ end = "no_start" /\ kind \notin Harbor
                     \/ \E d \in batch[r] : returned[d] = "raise"
       IN  IF raises
           THEN /\ pc' = [pc EXCEPT ![r] = "raised"]
                /\ RemoveTempDir(r) /\ UNCHANGED result
           ELSE /\ pc' = [pc EXCEPT ![r] = IF kind \in Harbor THEN "cleanup" ELSE "evaluate"]
                /\ result' = [result EXCEPT ![r] = returned]
                /\ written' = [written EXCEPT ![r] = w] /\ torn' = [torn EXCEPT ![r] = tn]
                /\ trials' = [trials EXCEPT ![r] = [t \in DOMAIN trials[r] |->
                                IF trials[r][t] = "running" THEN "cut" ELSE trials[r][t]]]

(***************************************************************************)
(* After a Harbor script.  What docker has is found by the names of the    *)
(* items, whichever rollout it belongs to.  TerminalBenchOptimizer removes *)
(* containers, images and networks: every running trial of these items     *)
(* ends without passing.  DPText2SQLOptimizer removes images and networks, *)
(* which docker refuses or survives for a running container but not for a  *)
(* trial still being set up: any of the trials may be hit.  Errors of      *)
(* docker are only logged.                                                 *)
(***************************************************************************)
RunningOf(ids) ==
  {x \in UNION {{q} \X DOMAIN trials[q] : q \in Slots} :
     x[2][1] \in ids /\ trials[x[1]][x[2]] = "running"}

_cleanup_docker_for_tasks(hit) ==
  trials' = [q \in Slots |-> [t \in DOMAIN trials[q] |->
              IF <<q, t>> \in hit THEN "cut" ELSE trials[q][t]]]

Cleanup(r) ==
  /\ pc[r] = "cleanup"
  /\ \E hit \in IF kind = "terminalbench" THEN {{}, RunningOf(batch[r])}
                 ELSE SUBSET RunningOf(batch[r]) :
       _cleanup_docker_for_tasks(hit)
  /\ pc' = [pc EXCEPT ![r] = "evaluate"]
  /\ UNCHANGED <<kind, begun, batch, pool, outputs, result, score>>

(***************************************************************************)
(* The evaluators: no, some or all of an item's attempts passed.           *)
(***************************************************************************)
Fraction(passed, of) ==
  IF passed = {} THEN "none" ELSE IF passed = of THEN "all" ELSE "some"

\* Mutant: a trial without a result is left out of the average.
_compute_pass_at_1DropsMissing(r, d) ==
  Fraction(Passed(r, d), Dirs(r, d) \cap In(r, {"pass", "fail"}))

\* The average over the trial directories, a missing result counting 0.
_compute_pass_at_1(r, d) == Fraction(Passed(r, d), Dirs(r, d))
_compute_avg_reward(r, d) == _compute_pass_at_1(r, d)

\* The others run a script on what the system's script left, which writes the
\* details of some items, and at its end possibly a torn line.
Detail(r, d, details) == IF d \in details /\ Passed(r, d) # {} THEN "all" ELSE "none"

Text2SQLScore(r, d, details, tn) ==
  IF tn THEN "raise" ELSE Detail(r, d, details \cap IF torn[r] THEN {} ELSE written[r])

AppWorldScore(r, d, details, tn) ==
  IF tn THEN "none" ELSE Detail(r, d, details \cap Finished(r))

RagPipelineScore(r, d, details, tn) ==
  IF written[r] = {} /\ ~torn[r] THEN "none"
  ELSE IF tn THEN "raise" ELSE Detail(r, d, details \cap written[r])

AdConfigScore(r, d, details) == Detail(r, d, details \cap written[r])

\* An LLM judges each non-empty answer; a judge that fails gives 0.
AtomicFactScore(r, d, details) ==
  IF result[r][d] = "empty" THEN "none" ELSE Detail(r, d, details)

evaluate_batch(r, d, details, tn) ==
  CASE kind = "terminalbench" -> _compute_pass_at_1(r, d)
    [] kind = "dp_text2sql" -> _compute_avg_reward(r, d)
    [] kind = "text2sql" -> Text2SQLScore(r, d, details, tn)
    [] kind = "appworld" -> AppWorldScore(r, d, details, tn)
    [] kind = "rag_pipeline" -> RagPipelineScore(r, d, details, tn)
    [] kind = "adconfig" -> AdConfigScore(r, d, details)
    [] kind = "react" -> AtomicFactScore(r, d, details)

\* A script that cannot be started raises; the retrieval evaluator runs none
\* when there are no predictions.
RunsScript(r) ==
  /\ kind \in {"text2sql", "appworld", "rag_pipeline", "adconfig"}
  /\ kind = "rag_pipeline" => written[r] # {} \/ torn[r]

Evaluate(r) ==
  /\ pc[r] = "evaluate"
  /\ RemoveTempDir(r)
  /\ UNCHANGED <<kind, begun, batch, pool>>
  /\ \E details \in IF kind \in Harbor THEN {{}} ELSE SUBSET batch[r],
        tn \in IF kind \in Harbor THEN {FALSE} ELSE BOOLEAN,
        starts \in IF RunsScript(r) THEN BOOLEAN ELSE {TRUE} :
       LET scores == [d \in batch[r] |-> evaluate_batch(r, d, details, tn)]
           raises == ~starts \/ \E d \in batch[r] : scores[d] = "raise"
       IN  /\ score' = [score EXCEPT ![r] = IF raises THEN Nothing ELSE scores]
           /\ result' = [result EXCEPT ![r] = Nothing]
           /\ pc' = [pc EXCEPT ![r] = IF raises THEN "raised" ELSE "done"]

Rollout(r) ==
  \/ Acquire(r)
  \/ \E t \in DOMAIN trials[r] : StartTrial(r, t) \/ EndTrial(r, t)
  \/ \E end \in Endings : ScriptEnds(r, end)
  \/ Cleanup(r)
  \/ Evaluate(r)

Next == \E r \in Slots : (\E b \in SUBSET Tasks : Begin(r, b)) \/ Rollout(r)

\* Every script and trial ends, and the event loop gives every rollout its turn.
Spec == Init /\ [][Next]_vars /\ \A r \in Slots : WF_vars(Rollout(r))

(***************************************************************************)
(* Properties.                                                             *)
(***************************************************************************)

\* The slots of the pool that rollouts hold.
Taken == UNION {{r} \X (1..held[r]) : r \in Slots}

\* The slots of the pool are free or held, whatever way scripts end; and with
\* one attempt per task and a concurrency within the cap, what the scripts run
\* never exceeds the slots taken for it.
PoolAccounting ==
  /\ available >= 0
  /\ available + Cardinality(Taken) = MaxTotal
  /\ kind \in Pooled \ {"terminalbench"} /\ Concurrency <= MaxTotal =>
       Running(Slots) <= MaxTotal - available

\* A record that comes out of a rollout does not contradict itself: a score is
\* earned by a trial of this rollout that passed; where evaluator and system read
\* the same file, or one the other's answer, it goes with an output; an output is
\* that of an attempt of this rollout; and a full score means no attempt failed,
\* was killed or was left running.  (The Harbor evaluators score the verdicts in
\* all trial directories, whether or not the first one has an answer: there a
\* score may go with an empty output.)
RecordCoherent ==
  [][\A r \in Slots : pc[r] = "evaluate" /\ pc'[r] = "done" =>
       \A d \in batch[r] :
         /\ score'[r][d] # "none" =>
              /\ Passed(r, d) # {}
              /\ kind \in {"text2sql", "adconfig", "react"} => result[r][d] = "output"
         /\ result[r][d] \in {"output", "maybe"} => Dirs(r, d) # {}
         /\ score'[r][d] = "all" => TrialsOf(r, d) \cap In(r, {"fail", "cut"}) = {}]_vars

\* A rollout that asks for slots gets all of them at some point, and comes to an
\* end: no two rollouts wait for each other with part of the pool each.
RolloutReturns ==
  \A r \in Slots : pc[r] = "acquire" ~> pc[r] \in {"done", "raised"}

\* docs/system-design.md: "multiple slots run concurrently without interfering",
\* so no trial is cut short while the script that runs it goes on.
\* Fails: the cleanup of a rollout on Terminal-Bench removes the containers of
\* other rollouts of the same items.
NoForeignKill ==
  kind = "terminalbench" => \A r \in Slots : pc[r] = "script" => In(r, {"cut"}) = {}
=============================================================================
