--------------------------- MODULE ProposerPhases ---------------------------
(***************************************************************************)
(* The two phases of a propose call (antomnievo/proposer/base_proposer.py):*)
(* analysis agents run in parallel over the data ids with unanalyzed runs, *)
(* then one agent mutates the artifact of the new candidate.  Agents are   *)
(* processes under a timeout; the Pi backend retries transient failures in *)
(* the same directory, the Claude Code backend does not.                   *)
(*                                                                         *)
(* One round is a rollout of the candidate followed by one propose call.   *)
(* mtimes are round numbers: what an agent writes in round n is newer than *)
(* the runs saved by the rollout of round n and older than those of n + 1. *)
(***************************************************************************)
EXTENDS Integers, FiniteSets

CONSTANTS
  DataIds,          \* ids of training items
  Mutator,          \* the mutation agent, besides the analysis agent of each id
  MaxConcurrency,   \* agent processes at once (the semaphore _sem)
  MaxAttempts,      \* MAX_RETRY_ATTEMPTS
  MaxUnanalyzed,    \* _MAX_UNANALYZED_RUNS
  MaxRounds         \* bound of the model

ASSUME ProposerAssumption ==
  /\ IsFiniteSet(DataIds) /\ Mutator \notin DataIds
  /\ MaxConcurrency \in Nat \ {0} /\ MaxAttempts \in Nat \ {0}
  /\ MaxUnanalyzed \in Nat /\ MaxRounds \in Nat

Jobs == DataIds \cup {Mutator}
Runs == [id : DataIds, round : 1..MaxRounds, perfect : BOOLEAN]
Contents == {"none", "actions", "no_actions", "malformed"}

VARIABLES
  backend,      \* which proposer is configured
  skipPerfect,  \* skip_perfect_score_runs
  round,        \* rollouts of training batches so far
  phase,        \* where propose is
  runs,         \* train run files of the candidate; perfect: score 1.0, or none readable
  writtenAt,    \* mtime of analysis/result/<id>.json, 0 when there is no such file
  content,      \* what is in it
  handed,       \* the runs named in the prompts of this propose
  pc,           \* where each agent job is
  attempt,      \* which invocation of the agent it is at
  wroteIn,      \* the attempts of the job in which the agent wrote its files
  covered       \* history: runs handed to an agent that wrote the result file

config == <<backend, skipPerfect>>
files == <<runs, writtenAt, content>>
vars == <<config, round, phase, files, handed, pc, attempt, wroteIn, covered>>

TypeOK ==
  /\ backend \in {"pi", "claude"} /\ skipPerfect \in BOOLEAN
  /\ round \in 0..MaxRounds
  /\ phase \in {"idle", "rolled_out", "analysis", "mutation", "success", "failed"}
  /\ runs \subseteq Runs /\ handed \subseteq runs /\ covered \subseteq Runs
  /\ writtenAt \in [DataIds -> 0..round]
  /\ content \in [DataIds -> Contents]
  /\ pc \in [Jobs -> {"off", "queued", "running", "backoff", "ok", "failed"}]
  /\ attempt \in [Jobs -> 0..MaxAttempts]
  /\ wroteIn \in [Jobs -> SUBSET (1..MaxAttempts)]

Init ==
  /\ backend \in {"pi", "claude"} /\ skipPerfect \in BOOLEAN
  /\ round = 0 /\ phase = "idle"
  /\ runs = {} /\ handed = {} /\ covered = {}
  /\ writtenAt = [d \in DataIds |-> 0]
  /\ content = [d \in DataIds |-> "none"]
  /\ pc = [j \in Jobs |-> "off"]
  /\ attempt = [j \in Jobs |-> 0]
  /\ wroteIn = [j \in Jobs |-> {}]

(***************************************************************************)
(* Which runs are analysed.                                                *)
(***************************************************************************)
\* Mutant: one timestamp for all data ids.
UnanalyzedByLatest(run) == \A d \in DataIds : run.round > writtenAt[d]
Unanalyzed(run) == run.round > writtenAt[run.id]
find_unanalyzed_runs == {run \in runs : Unanalyzed(run)}

\* The results _filter_perfect_score_runs may return: the order of the
\* directory decides which perfect runs go first.
FilterPerfect(U, max) ==
  LET excess == Cardinality(U) - max
      perfect == {run \in U : run.perfect}
      n == IF excess < Cardinality(perfect) THEN excess ELSE Cardinality(perfect)
  IN  IF excess <= 0 THEN {U}
      ELSE {U \ R : R \in {S \in SUBSET perfect : Cardinality(S) = n}}

\* _apply_run_filters
RunFilters(U) ==
  UNION {FilterPerfect(V, MaxUnanalyzed) : V \in IF skipPerfect THEN FilterPerfect(U, 0) ELSE {U}}

(***************************************************************************)
(* How a backend treats the end of an agent process: a clean session, one  *)
(* that ended in empty responses, one whose last turn is a transient or    *)
(* another error, a non-zero exit with a transient or another message, a   *)
(* process killed at its timeout.                                          *)
(***************************************************************************)
Endings == {"clean", "degenerate", "transient", "fatal",
            "exit_transient", "exit_other", "timeout"}

\* is_retryable_agent_error of what _invoke_pi_once raises
Retryable(ending) == ending \in {"degenerate", "transient", "exit_transient"}

\* Mutant: one attempt more than the limit.
PiVerdictOneMore(ending, n) ==
  CASE ending = "clean" -> "ok"
    [] Retryable(ending) -> IF n <= MaxAttempts THEN "retry" ELSE "raise"
    [] ending = "fatal" -> "errors"
    [] OTHER -> "raise"

\* invoke_agent: "ok" and "errors" return a trajectory, "raise" and "retry" raise.
PiVerdict(ending, n) ==
  CASE ending = "clean" -> "ok"
    [] Retryable(ending) -> IF n < MaxAttempts THEN "retry" ELSE "raise"
    [] ending = "fatal" -> "errors"
    [] OTHER -> "raise"

ClaudeVerdict(ending) ==
  CASE ending = "clean" -> "ok"
    [] ending \in {"degenerate", "transient", "fatal"} -> "errors"
    [] OTHER -> "raise"

Verdict(ending, n) ==
  IF backend = "pi" THEN PiVerdict(ending, n) ELSE ClaudeVerdict(ending)

\* Mutant: a result file of an earlier round is good enough.
FileExists(j) == IF j = Mutator THEN wroteIn[j] # {} ELSE content[j] # "none"

\* What the proposer makes of a session that returned without errors: the
\* analysis result must have been written since the phase began, the artifact
\* must differ from its snapshot.
FileWritten(j) ==
  IF j = Mutator THEN wroteIn[j] # {} ELSE writtenAt[j] = round

(***************************************************************************)
(* The rollout before a propose: the optimizer runs the candidate on a     *)
(* batch and saves one run per item.  After a successful propose the next  *)
(* call may be reflect(), which analyses the new candidate: a directory    *)
(* with the runs of its own rollout and no analyses.                       *)
(***************************************************************************)
Rollout(batch, perfect, reflect) ==
  LET new == {[id |-> d, round |-> round + 1, perfect |-> d \in perfect] : d \in batch}
  IN  /\ phase \in {"idle", "success", "failed"} /\ round < MaxRounds
      /\ reflect => phase = "success"
      /\ round' = round + 1
      /\ phase' = "rolled_out"
      /\ runs' = IF reflect THEN new ELSE runs \cup new
      /\ writtenAt' = IF reflect THEN [d \in DataIds |-> 0] ELSE writtenAt
      /\ content' = IF reflect THEN [d \in DataIds |-> "none"] ELSE content
      /\ handed' = {}
      /\ pc' = [j \in Jobs |-> "off"]
      /\ attempt' = [j \in Jobs |-> 0]
      /\ wroteIn' = [j \in Jobs |-> {}]
      /\ covered' = IF reflect THEN {} ELSE covered
      /\ UNCHANGED config

\* Head of _run_analysis_pipeline: one agent for each data id with runs left.
StartAnalysis ==
  /\ phase = "rolled_out"
  /\ handed' \in RunFilters(find_unanalyzed_runs)
  /\ pc' = [j \in Jobs |-> IF \E run \in handed' : run.id = j THEN "queued" ELSE "off"]
  /\ phase' = "analysis"
  /\ UNCHANGED <<config, round, files, attempt, wroteIn, covered>>

(***************************************************************************)
(* The life of an agent job.                                               *)
(***************************************************************************)
\* The semaphore is held from the first attempt to the last, backoff included.
HoldsSem == {j \in Jobs : pc[j] \in {"running", "backoff"}}

Launch(j) ==
  /\ pc[j] = "queued"
  /\ Cardinality(HoldsSem) < MaxConcurrency
  /\ pc' = [pc EXCEPT ![j] = "running"]
  /\ attempt' = [attempt EXCEPT ![j] = 1]
  /\ UNCHANGED <<config, round, phase, files, handed, wroteIn, covered>>

\* The agent writes: its result file, or files of the artifact.
Write(j, c) ==
  /\ pc[j] = "running"
  /\ wroteIn' = [wroteIn EXCEPT ![j] = @ \cup {attempt[j]}]
  /\ IF j = Mutator
     THEN UNCHANGED <<writtenAt, content, covered>>
     ELSE /\ writtenAt' = [writtenAt EXCEPT ![j] = round]
          /\ content' = [content EXCEPT ![j] = c]
          /\ covered' = covered \cup {run \in handed : run.id = j}
  /\ UNCHANGED <<config, round, phase, runs, handed, pc, attempt>>

\* The process ends.  For the mutation agent this is the end of propose.
End(j, ending) ==
  LET verdict == Verdict(ending, attempt[j])
      next == CASE verdict = "retry" -> "backoff"
                [] verdict = "ok" /\ FileWritten(j) -> "ok"
                [] OTHER -> "failed"
  IN  /\ pc[j] = "running"
      /\ pc' = [pc EXCEPT ![j] = next]
      /\ phase' = IF j # Mutator \/ next = "backoff" THEN phase
                  ELSE IF next = "ok" THEN "success" ELSE "failed"
      /\ UNCHANGED <<config, round, files, handed, attempt, wroteIn, covered>>

\* Mutant: attempts are not counted.
RetryUncounted(j) ==
  /\ pc[j] = "backoff"
  /\ pc' = [pc EXCEPT ![j] = "running"]
  /\ UNCHANGED <<config, round, phase, files, handed, attempt, wroteIn, covered>>

Retry(j) ==
  /\ pc[j] = "backoff"
  /\ pc' = [pc EXCEPT ![j] = "running"]
  /\ attempt' = [attempt EXCEPT ![j] = @ + 1]
  /\ UNCHANGED <<config, round, phase, files, handed, wroteIn, covered>>

(***************************************************************************)
(* After the gather: any failure ends propose.  Otherwise _mutate reads    *)
(* the analyses, which rewrites the malformed ones it can repair (what is  *)
(* recovered of one may have actions or not), and starts the mutation      *)
(* agent if an analysis has actions.                                       *)
(***************************************************************************)
AnalysisFails == \E d \in DataIds : pc[d] = "failed"

CloseAnalysis(repaired, acting) ==
  /\ phase = "analysis"
  /\ \A d \in DataIds : pc[d] \in {"off", "ok", "failed"}
  /\ IF AnalysisFails
     THEN /\ repaired = {} /\ acting = {}
          /\ phase' = "failed"
          /\ UNCHANGED <<files, pc>>
     ELSE /\ repaired \subseteq {d \in DataIds : content[d] = "malformed"}
          /\ acting \subseteq repaired
          /\ content' = [d \in DataIds |-> CASE d \in acting -> "actions"
                                            [] d \in repaired \ acting -> "no_actions"
                                            [] OTHER -> content[d]]
          /\ writtenAt' = [d \in DataIds |-> IF d \in repaired THEN round ELSE writtenAt[d]]
          /\ IF \E d \in DataIds : content'[d] = "actions"
             THEN /\ phase' = "mutation"
                  /\ pc' = [pc EXCEPT ![Mutator] = "queued"]
             ELSE /\ phase' = "failed"
                  /\ UNCHANGED pc
          /\ UNCHANGED runs
  /\ UNCHANGED <<config, round, handed, attempt, wroteIn, covered>>

JobStep(j) ==
  \/ Launch(j)
  \/ Retry(j)
  \/ \E ending \in Endings : End(j, ending)

Next ==
  \/ \E batch \in SUBSET DataIds \ {{}}, reflect \in BOOLEAN :
       \E perfect \in SUBSET batch : Rollout(batch, perfect, reflect)
  \/ StartAnalysis
  \/ \E j \in Jobs : JobStep(j)
  \/ \E j \in Jobs, c \in Contents \ {"none"} : Write(j, c)
  \/ \E repaired, acting \in SUBSET DataIds : CloseAnalysis(repaired, acting)
  \/ round = MaxRounds /\ phase \in {"success", "failed"} /\ UNCHANGED vars

(***************************************************************************)
(* Every agent process ends, at the latest killed at its timeout, backoffs *)
(* expire, and the event loop runs what is ready.  Rollouts are not        *)
(* promised.                                                               *)
(***************************************************************************)
Fairness ==
  /\ \A j \in Jobs : WF_vars(JobStep(j))
  /\ WF_vars(StartAnalysis)
  /\ WF_vars(\E repaired, acting \in SUBSET DataIds : CloseAnalysis(repaired, acting))

Spec == Init /\ [][Next]_vars /\ Fairness

(***************************************************************************)
(* Properties.                                                             *)
(***************************************************************************)

\* When the mutation agent is started, every imperfect run of the candidate
\* has a result file newer than itself: the checks of single sessions (errors,
\* file_written_since), the filters and the gather add up to what
\* _analyze_single_data_id wants, an analysis on disk "before letting Phase 2
\* build on it".
EvidenceBeforeMutation ==
  phase \in {"mutation", "success"} =>
    \A run \in runs : ~run.perfect => ~Unanalyzed(run)

\* Bookkeeping by mtime is exact across failing sessions, retries, repairs and
\* rounds: an imperfect run counts as analysed if and only if an agent that was
\* told of it has written the result file.  No run is forgotten, none is paid
\* for twice.
AnalyzedIffCovered ==
  \A run \in runs : ~run.perfect => (~Unanalyzed(run) <=> run \in covered)

\* propose returns, whatever the agents do: attempts are bounded, processes are
\* killed at their timeout, and one failing analysis does not hold up the rest.
ProposeReturns ==
  phase \in {"analysis", "mutation"} ~> phase \in {"success", "failed"}

\* _run_mutation_pipeline: "an aborted session may already have edited files,
\* and a half-finished mutation must not be rolled out as a candidate."  A
\* mutation is finished when the session that ended cleanly made edits.  Fails
\* for Pi, whose retry starts in the directory the aborted attempt left.
NoHalfFinishedMutation ==
  phase = "success" => attempt[Mutator] \in wroteIn[Mutator]
=============================================================================
