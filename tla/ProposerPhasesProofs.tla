------------------------ MODULE ProposerPhasesProofs ------------------------
(***************************************************************************)
(* Proofs about ProposerPhases, for every number of data ids, agents at    *)
(* once, attempts, rounds and every limit of unanalyzed runs: its types,   *)
(* what the mutation may build on, and the exactness of the bookkeeping of *)
(* analyses by mtime.                                                      *)
(***************************************************************************)
EXTENDS ProposerPhases, FiniteSetTheorems, TLAPS

Alive == {"queued", "running", "backoff"}

\* The runs that are not told from the analysed ones by a perfect score.
Imperfect == {run \in runs : ~run.perfect}

\* A run was saved by a rollout that has been, and what an agent was told of
\* exists.
Dated ==
  /\ \A run \in runs : run.round <= round
  /\ covered \subseteq runs
  /\ phase # "idle" => round > 0

\* Where the jobs can be in each phase.
Phased ==
  /\ phase \in {"idle", "rolled_out"} => \A j \in Jobs : pc[j] = "off"
  /\ \A d \in DataIds : pc[d] \in Alive => phase = "analysis"
  /\ pc[Mutator] \in Alive => phase = "mutation"
  /\ pc[Mutator] # "off" => phase \in {"mutation", "success", "failed"}

\* An attempt that may be followed by another is not the last.
Attempts ==
  \A j \in Jobs :
    /\ pc[j] = "running" => attempt[j] >= 1
    /\ pc[j] = "backoff" => attempt[j] < MaxAttempts /\ attempt[j] >= 1

\* From the head of the pipeline on, every imperfect run is named in a prompt
\* or has been analysed before; one that is named has a job, and a job that
\* went well has written.
Handed ==
  phase \notin {"idle", "rolled_out"} =>
    /\ \A run \in Imperfect : run \in handed \/ ~Unanalyzed(run)
    /\ \A run \in handed : pc[run.id] # "off"
    /\ \A d \in DataIds : pc[d] = "ok" => writtenAt[d] = round

IInv ==
  /\ TypeOK /\ Dated /\ Phased /\ Attempts /\ Handed
  /\ AnalyzedIffCovered /\ EvidenceBeforeMutation
-----------------------------------------------------------------------------
(***************************************************************************)
(* The filters.                                                            *)
(***************************************************************************)

LEMMA FilterKeepsImperfect ==
  ASSUME NEW U, NEW max, NEW V \in FilterPerfect(U, max)
  PROVE  V \subseteq U /\ \A run \in U : ~run.perfect => run \in V
<1> DEFINE perfect == {run \in U : run.perfect}
<1>1. V = U \/ \E R \in SUBSET perfect : V = U \ R
  BY DEF FilterPerfect
<1>2. QED
  BY <1>1

LEMMA RunFiltersKeepImperfect ==
  ASSUME NEW U, NEW W \in RunFilters(U)
  PROVE  W \subseteq U /\ \A run \in U : ~run.perfect => run \in W
<1>1. PICK V : /\ V \in (IF skipPerfect THEN FilterPerfect(U, 0) ELSE {U})
               /\ W \in FilterPerfect(V, MaxUnanalyzed)
  BY DEF RunFilters
<1>2. V \subseteq U /\ \A run \in U : ~run.perfect => run \in V
  BY <1>1, FilterKeepsImperfect
<1>3. W \subseteq V /\ \A run \in V : ~run.perfect => run \in W
  BY <1>1, FilterKeepsImperfect
<1>4. QED
  BY <1>2, <1>3

LEMMA ConstantTypes ==
  /\ Mutator \notin DataIds /\ MaxAttempts \in Nat \ {0} /\ MaxRounds \in Nat
  /\ DataIds \subseteq Jobs /\ Mutator \in Jobs
BY ProposerAssumption DEF Jobs

\* What the types say of a run.
LEMMA RunTypes ==
  ASSUME TypeOK, NEW run \in runs
  PROVE  /\ run.id \in DataIds /\ run.round \in 1..MaxRounds /\ run.perfect \in BOOLEAN
         /\ round \in Nat /\ writtenAt[run.id] \in 0..round
BY ConstantTypes DEF TypeOK, Runs
-----------------------------------------------------------------------------
(***************************************************************************)
(* The steps.                                                              *)
(***************************************************************************)

LEMMA InitIInv == Init => IInv
<1> SUFFICES ASSUME Init PROVE IInv
  OBVIOUS
<1>1. TypeOK
  BY ConstantTypes DEF Init, TypeOK, Contents
<1>2. Dated /\ Phased /\ Attempts /\ Handed
  BY ConstantTypes DEF Init, Dated, Phased, Attempts, Handed, Alive
<1>3. AnalyzedIffCovered /\ EvidenceBeforeMutation
  BY DEF Init, AnalyzedIffCovered, EvidenceBeforeMutation
<1>4. QED
  BY <1>1, <1>2, <1>3 DEF IInv

\* A rollout saves runs that are newer than every result file.
LEMMA RolloutKeeps ==
  ASSUME IInv, NEW batch \in SUBSET DataIds, NEW perfect \in SUBSET batch,
         NEW reflect \in BOOLEAN, Rollout(batch, perfect, reflect)
  PROVE  IInv'
<1> DEFINE new == {[id |-> d, round |-> round + 1, perfect |-> d \in perfect] : d \in batch}
<1>1. /\ round \in Nat /\ MaxRounds \in Nat /\ round + 1 \in 1..MaxRounds
      /\ round' = round + 1 /\ phase' = "rolled_out"
      /\ runs' = (IF reflect THEN new ELSE runs \cup new)
      /\ handed' = {}
      /\ pc' = [j \in Jobs |-> "off"]
      /\ attempt' = [j \in Jobs |-> 0] /\ wroteIn' = [j \in Jobs |-> {}]
      /\ covered' = (IF reflect THEN {} ELSE covered)
      /\ config' = config
  BY ConstantTypes DEF Rollout, IInv, TypeOK
<1>2. /\ writtenAt' = (IF reflect THEN [d \in DataIds |-> 0] ELSE writtenAt)
      /\ content' = (IF reflect THEN [d \in DataIds |-> "none"] ELSE content)
  BY DEF Rollout
<1>3. /\ writtenAt' \in [DataIds -> 0..round] /\ content' \in [DataIds -> Contents]
  BY <1>1, <1>2 DEF IInv, TypeOK, Contents
<1>4. \A run \in new : run \in Runs /\ run.round = round + 1
  <2> SUFFICES ASSUME NEW d \in batch
               PROVE  LET run == [id |-> d, round |-> round + 1, perfect |-> d \in perfect]
                      IN  run \in Runs /\ run.round = round + 1
    OBVIOUS
  <2>1. d \in DataIds /\ (d \in perfect) \in BOOLEAN
    OBVIOUS
  <2>2. QED
    BY <1>1, <2>1 DEF Runs
<1>5. runs' \subseteq Runs /\ covered' \subseteq runs'
  BY <1>1, <1>4 DEF IInv, TypeOK, Dated
<1>6. TypeOK'
  <2>1. writtenAt' \in [DataIds -> 0..round']
    BY <1>1, <1>3
  <2>2. backend' \in {"pi", "claude"} /\ skipPerfect' \in BOOLEAN
    BY <1>1, Zenon DEF IInv, TypeOK, config
  <2>3. /\ round' \in 0..MaxRounds
        /\ phase' \in {"idle", "rolled_out", "analysis", "mutation", "success", "failed"}
        /\ handed' \subseteq runs' /\ covered' \subseteq Runs
    BY <1>1, <1>5
  <2>4. /\ pc' \in [Jobs -> {"off", "queued", "running", "backoff", "ok", "failed"}]
        /\ attempt' \in [Jobs -> 0..MaxAttempts]
        /\ wroteIn' \in [Jobs -> SUBSET (1..MaxAttempts)]
    BY <1>1, ConstantTypes
  <2>5. QED
    BY <1>3, <1>5, <2>1, <2>2, <2>3, <2>4 DEF TypeOK
<1>7. Dated'
  <2>1. \A run \in runs' : run.round <= round'
    BY <1>1, <1>4, RunTypes DEF IInv, Dated
  <2>2. QED
    BY <1>1, <1>5, <2>1 DEF Dated
<1>8. Phased' /\ Attempts' /\ Handed' /\ EvidenceBeforeMutation'
  BY <1>1, ConstantTypes DEF Phased, Attempts, Handed, EvidenceBeforeMutation, Alive
<1>9. AnalyzedIffCovered'
  <2>1. \A run \in new : Unanalyzed(run)' /\ run \notin covered'
    <3> TAKE run \in new
    <3>1. run.id \in DataIds /\ run.round = round + 1
      BY <1>4 DEF Runs
    <3>2. writtenAt'[run.id] \in 0..round
      BY <1>3, <3>1
    <3>3. Unanalyzed(run)'
      BY <1>1, <3>1, <3>2 DEF Unanalyzed
    <3>4. run \notin covered
      BY <1>1, <3>1 DEF IInv, Dated
    <3>5. QED
      BY <1>1, <3>3, <3>4
  <2>2. CASE reflect
    BY <1>1, <2>1, <2>2 DEF AnalyzedIffCovered
  <2>3. CASE ~reflect
    <3>1. runs' = runs \cup new /\ covered' = covered /\ writtenAt' = writtenAt
      BY <1>1, <1>2, <2>3
    <3>2. \A run \in runs : ~run.perfect => (~Unanalyzed(run)' <=> run \in covered')
      BY <3>1 DEF IInv, AnalyzedIffCovered, Unanalyzed
    <3>3. QED
      BY <2>1, <3>1, <3>2 DEF AnalyzedIffCovered
  <2>4. QED
    BY <2>2, <2>3
<1>10. QED
  BY <1>6, <1>7, <1>8, <1>9 DEF IInv

\* The filters leave no imperfect run out, and every run they leave in gets a
\* job.
LEMMA StartAnalysisKeeps ==
  ASSUME IInv, StartAnalysis
  PROVE  IInv'
<1>1. /\ phase = "rolled_out" /\ phase' = "analysis"
      /\ handed' \in RunFilters(find_unanalyzed_runs)
      /\ pc' = [j \in Jobs |-> IF \E run \in handed' : run.id = j THEN "queued" ELSE "off"]
      /\ UNCHANGED <<config, round, runs, writtenAt, content, attempt, wroteIn, covered>>
  BY DEF StartAnalysis, files
<1>2. /\ handed' \subseteq find_unanalyzed_runs
      /\ \A run \in find_unanalyzed_runs : ~run.perfect => run \in handed'
  BY <1>1, RunFiltersKeepImperfect
<1>3. handed' \subseteq runs'
  BY <1>1, <1>2 DEF find_unanalyzed_runs
<1>4. TypeOK'
  <2>1. backend' \in {"pi", "claude"} /\ skipPerfect' \in BOOLEAN
    BY <1>1, Zenon DEF IInv, TypeOK, config
  <2>2. pc' \in [Jobs -> {"off", "queued", "running", "backoff", "ok", "failed"}]
    BY <1>1
  <2>3. QED
    BY <1>1, <1>3, <2>1, <2>2 DEF IInv, TypeOK
<1>5. Dated'
  BY <1>1 DEF IInv, Dated
<1>6. \A run \in handed' : run.id \in DataIds
  BY <1>1, <1>3, RunTypes DEF IInv
<1>7. pc'[Mutator] = "off"
  BY <1>1, <1>6, ConstantTypes
<1>8. \A j \in Jobs : pc'[j] \in {"queued", "off"}
  BY <1>1
<1>9. Phased' /\ Attempts'
  BY <1>1, <1>7, <1>8, ConstantTypes DEF Phased, Attempts, Alive
<1>10. Handed'
  <2>1. \A run \in Imperfect' : run \in handed' \/ ~Unanalyzed(run)'
    BY <1>1, <1>2 DEF Imperfect, Unanalyzed, find_unanalyzed_runs
  <2>2. \A run \in handed' : pc'[run.id] # "off"
    BY <1>1, <1>6, ConstantTypes
  <2>3. \A d \in DataIds : pc'[d] # "ok"
    BY <1>8, ConstantTypes
  <2>4. QED
    BY <2>1, <2>2, <2>3 DEF Handed
<1>11. AnalyzedIffCovered'
  BY <1>1 DEF IInv, AnalyzedIffCovered, Unanalyzed
<1>12. EvidenceBeforeMutation'
  BY <1>1 DEF EvidenceBeforeMutation
<1>13. QED
  BY <1>4, <1>5, <1>9, <1>10, <1>11, <1>12 DEF IInv

\* A job is launched or retried: of what it may find only its place changes.
LEMMA JobMoves ==
  ASSUME IInv, NEW j \in Jobs, NEW to \in {"running", "backoff", "ok", "failed"},
         pc[j] \in Alive,
         pc' = [pc EXCEPT ![j] = to],
         attempt' \in [Jobs -> 0..MaxAttempts],
         \A k \in Jobs \ {j} : attempt'[k] = attempt[k],
         to = "running" => attempt'[j] >= 1,
         to = "backoff" => attempt'[j] < MaxAttempts /\ attempt'[j] >= 1,
         j \in DataIds \/ to \in Alive => phase' = phase,
         j = Mutator /\ to \notin Alive => phase' \in {"success", "failed"},
         j \in DataIds /\ to = "ok" => writtenAt[j] = round,
         UNCHANGED <<config, round, files, handed, wroteIn, covered>>
  PROVE  IInv'
<1>1. /\ UNCHANGED <<round, runs, writtenAt, content, handed, wroteIn, covered>>
      /\ pc \in [Jobs -> {"off", "queued", "running", "backoff", "ok", "failed"}]
  BY DEF files, IInv, TypeOK
<1>2. /\ pc' \in [Jobs -> {"off", "queued", "running", "backoff", "ok", "failed"}]
      /\ pc'[j] = to /\ \A k \in Jobs \ {j} : pc'[k] = pc[k]
  BY <1>1
<1>3. j \in DataIds => phase = "analysis"
  BY DEF IInv, Phased
<1>4. j = Mutator => phase = "mutation"
  BY DEF IInv, Phased
<1>5. j \in DataIds \/ j = Mutator
  BY DEF Jobs
<1>6. \/ phase' = phase
      \/ phase = "mutation" /\ phase' \in {"success", "failed"} /\ j = Mutator /\ to \notin Alive
  BY <1>4, <1>5
<1>7. TypeOK'
  <2>1. backend' \in {"pi", "claude"} /\ skipPerfect' \in BOOLEAN
    BY Zenon DEF IInv, TypeOK, config
  <2>2. phase' \in {"idle", "rolled_out", "analysis", "mutation", "success", "failed"}
    BY <1>6 DEF IInv, TypeOK
  <2>3. QED
    BY <1>1, <1>2, <2>1, <2>2 DEF IInv, TypeOK
<1>8. Dated'
  BY <1>1, <1>6 DEF IInv, Dated
<1>9. Phased'
  <2>1. phase' \notin {"idle", "rolled_out"}
    BY <1>3, <1>4, <1>5, <1>6
  <2>2. \A d \in DataIds : pc'[d] \in Alive => phase' = "analysis"
    <3> SUFFICES ASSUME NEW d \in DataIds, pc'[d] \in Alive PROVE phase' = "analysis"
      OBVIOUS
    <3>1. CASE d = j
      BY <1>3, <3>1
    <3>2. CASE d # j
      <4>1. phase = "analysis"
        BY <1>2, <3>2, ConstantTypes DEF IInv, Phased
      <4>2. QED
        BY <1>6, <4>1
    <3>3. QED
      BY <3>1, <3>2
  <2>3. /\ pc'[Mutator] \in Alive => phase' = "mutation"
        /\ pc'[Mutator] # "off" => phase' \in {"mutation", "success", "failed"}
    <3>1. CASE j = Mutator
      BY <1>2, <1>4, <1>6, <3>1
    <3>2. CASE j # Mutator
      BY <1>2, <1>6, <3>2, ConstantTypes DEF IInv, Phased
    <3>3. QED
      BY <3>1, <3>2
  <2>4. QED
    BY <2>1, <2>2, <2>3 DEF Phased
<1>10. Attempts'
  BY <1>2 DEF IInv, Attempts
<1>11. phase \notin {"idle", "rolled_out"}
  BY <1>3, <1>4, <1>5
<1>12. Handed'
  <2>1. \A run \in Imperfect' : run \in handed' \/ ~Unanalyzed(run)'
    BY <1>1, <1>11 DEF IInv, Handed, Imperfect, Unanalyzed
  <2>2. \A run \in handed' : pc'[run.id] # "off"
    <3>1. \A run \in handed : run.id \in Jobs
      BY RunTypes, ConstantTypes DEF IInv, TypeOK
    <3>2. to # "off"
      OBVIOUS
    <3>3. QED
      BY <1>1, <1>2, <1>11, <3>1, <3>2 DEF IInv, Handed
  <2>3. \A d \in DataIds : pc'[d] = "ok" => writtenAt'[d] = round'
    BY <1>1, <1>2, <1>11, ConstantTypes DEF IInv, Handed
  <2>4. QED
    BY <2>1, <2>2, <2>3 DEF Handed
<1>13. AnalyzedIffCovered'
  BY <1>1 DEF IInv, AnalyzedIffCovered, Unanalyzed
<1>14. EvidenceBeforeMutation'
  BY <1>1, <1>6 DEF IInv, EvidenceBeforeMutation, Unanalyzed
<1>15. QED
  BY <1>7, <1>8, <1>9, <1>10, <1>12, <1>13, <1>14 DEF IInv

\* What the proofs need of the attempt counters.
LEMMA AttemptTypes ==
  ASSUME IInv, NEW j \in Jobs
  PROVE  /\ attempt \in [Jobs -> 0..MaxAttempts] /\ attempt[j] \in Nat
         /\ MaxAttempts \in Nat \ {0} /\ pc[j] \in {"off", "queued", "running", "backoff", "ok", "failed"}
BY ConstantTypes DEF IInv, TypeOK

LEMMA LaunchKeeps ==
  ASSUME IInv, NEW j \in Jobs, Launch(j)
  PROVE  IInv'
<1>1. /\ pc[j] = "queued" /\ pc' = [pc EXCEPT ![j] = "running"]
      /\ attempt' = [attempt EXCEPT ![j] = 1]
      /\ UNCHANGED <<config, round, phase, files, handed, wroteIn, covered>>
  BY DEF Launch
<1>2. attempt' \in [Jobs -> 0..MaxAttempts] /\ attempt'[j] = 1
      /\ \A k \in Jobs \ {j} : attempt'[k] = attempt[k]
  BY <1>1, AttemptTypes
<1>3. pc[j] \in Alive /\ attempt'[j] >= 1 /\ phase' = phase
  BY <1>1, <1>2 DEF Alive
<1> DEFINE to == "running"
<1>4. /\ to \in {"running", "backoff", "ok", "failed"} /\ to \in Alive /\ to # "backoff" /\ to # "ok"
      /\ pc' = [pc EXCEPT ![j] = to]
  BY <1>1 DEF Alive
<1> HIDE DEF to
<1>5. QED
  BY <1>1, <1>2, <1>3, <1>4, JobMoves

LEMMA RetryKeeps ==
  ASSUME IInv, NEW j \in Jobs, Retry(j)
  PROVE  IInv'
<1>1. /\ pc[j] = "backoff" /\ pc' = [pc EXCEPT ![j] = "running"]
      /\ attempt' = [attempt EXCEPT ![j] = @ + 1]
      /\ UNCHANGED <<config, round, phase, files, handed, wroteIn, covered>>
  BY DEF Retry
<1>2. attempt[j] < MaxAttempts
  BY <1>1 DEF IInv, Attempts
<1>3. /\ attempt' \in [Jobs -> 0..MaxAttempts] /\ attempt'[j] >= 1
      /\ \A k \in Jobs \ {j} : attempt'[k] = attempt[k]
  BY <1>1, <1>2, AttemptTypes
<1>4. QED
  BY <1>1, <1>3, JobMoves DEF Alive

\* The only way to another attempt is Pi's, and not from the last.
LEMMA RetryVerdict ==
  ASSUME NEW ending, NEW n, Verdict(ending, n) = "retry"
  PROVE  n < MaxAttempts
BY DEF Verdict, PiVerdict, ClaudeVerdict

LEMMA EndKeeps ==
  ASSUME IInv, NEW j \in Jobs, NEW ending, End(j, ending)
  PROVE  IInv'
<1> DEFINE verdict == Verdict(ending, attempt[j])
           next == CASE verdict = "retry" -> "backoff"
                     [] verdict = "ok" /\ FileWritten(j) -> "ok"
                     [] OTHER -> "failed"
<1>1. /\ pc[j] = "running" /\ pc' = [pc EXCEPT ![j] = next]
      /\ phase' = IF j # Mutator \/ next = "backoff" THEN phase
                  ELSE IF next = "ok" THEN "success" ELSE "failed"
      /\ UNCHANGED <<config, round, files, handed, attempt, wroteIn, covered>>
  BY DEF End
<1>2. /\ next \in {"backoff", "ok", "failed"}
      /\ next = "backoff" => verdict = "retry"
      /\ next = "ok" => FileWritten(j)
  OBVIOUS
<1>3. next = "backoff" => attempt[j] < MaxAttempts
  BY <1>2, RetryVerdict
<1>4. attempt[j] >= 1
  BY <1>1 DEF IInv, Attempts
<1>5. j \in DataIds /\ next = "ok" => writtenAt[j] = round
  BY <1>2, ConstantTypes DEF FileWritten
<1> HIDE DEF next, verdict
<1>6. /\ j \in DataIds \/ next \in Alive => phase' = phase
      /\ j = Mutator /\ next \notin Alive => phase' \in {"success", "failed"}
  <2>1. CASE j # Mutator \/ next = "backoff"
    <3>1. phase' = phase
      BY <1>1, <2>1
    <3>2. j = Mutator => next \in Alive
      BY <2>1 DEF Alive
    <3>3. QED
      BY <3>1, <3>2
  <2>2. CASE j = Mutator /\ next # "backoff"
    <3>1. phase' \in {"success", "failed"}
      BY <1>1, <2>2
    <3>2. j \notin DataIds /\ next \notin Alive
      BY <1>2, <2>2, ConstantTypes DEF Alive
    <3>3. QED
      BY <3>1, <3>2
  <2>3. QED
    BY <2>1, <2>2
<1>7. attempt' = attempt /\ attempt \in [Jobs -> 0..MaxAttempts]
  BY <1>1, AttemptTypes
<1>8. QED
  BY <1>1, <1>2, <1>3, <1>4, <1>5, <1>6, <1>7, JobMoves DEF Alive

\* An analysis agent that writes has been told of every imperfect run of its id
\* that was not analysed yet.
LEMMA WriteKeeps ==
  ASSUME IInv, NEW j \in Jobs, NEW c \in Contents \ {"none"}, Write(j, c)
  PROVE  IInv'
<1>1. /\ pc[j] = "running"
      /\ wroteIn' = [wroteIn EXCEPT ![j] = @ \cup {attempt[j]}]
      /\ UNCHANGED <<config, round, phase, runs, handed, pc, attempt>>
  BY DEF Write
<1>2. wroteIn' \in [Jobs -> SUBSET (1..MaxAttempts)]
  <2>1. attempt[j] \in 1..MaxAttempts
    BY <1>1, AttemptTypes DEF IInv, Attempts
  <2>2. QED
    BY <1>1, <2>1 DEF IInv, TypeOK
<1>3. backend' \in {"pi", "claude"} /\ skipPerfect' \in BOOLEAN
  BY <1>1, Zenon DEF IInv, TypeOK, config
<1>4. CASE j = Mutator
  <2>1. UNCHANGED <<writtenAt, content, covered>>
    BY <1>4 DEF Write
  <2>2. TypeOK'
    BY <1>1, <1>2, <1>3, <2>1 DEF IInv, TypeOK
  <2>3. Dated' /\ Phased' /\ Attempts'
    BY <1>1, <2>1 DEF IInv, Dated, Phased, Attempts
  <2>4. Handed' /\ AnalyzedIffCovered' /\ EvidenceBeforeMutation'
    BY <1>1, <2>1 DEF IInv, Handed, Imperfect, AnalyzedIffCovered, EvidenceBeforeMutation, Unanalyzed
  <2>5. QED
    BY <2>2, <2>3, <2>4 DEF IInv
<1>5. CASE j # Mutator
  <2>1. /\ writtenAt' = [writtenAt EXCEPT ![j] = round]
        /\ content' = [content EXCEPT ![j] = c]
        /\ covered' = covered \cup {run \in handed : run.id = j}
    BY <1>5 DEF Write
  <2>2. j \in DataIds /\ phase = "analysis"
    BY <1>1, <1>5 DEF IInv, Phased, Alive, Jobs
  <2>3. round \in Nat /\ writtenAt \in [DataIds -> 0..round] /\ handed \subseteq runs
        /\ runs \subseteq Runs
    BY ConstantTypes DEF IInv, TypeOK
  <2>4. /\ writtenAt' \in [DataIds -> 0..round] /\ writtenAt'[j] = round
        /\ \A d \in DataIds \ {j} : writtenAt'[d] = writtenAt[d]
    BY <2>1, <2>2, <2>3
  <2>5. content' \in [DataIds -> Contents]
    BY <2>1 DEF IInv, TypeOK
  <2>6. covered' \subseteq runs
    BY <2>1, <2>3 DEF IInv, Dated
  <2>7. TypeOK'
    BY <1>1, <1>2, <1>3, <2>3, <2>4, <2>5, <2>6 DEF IInv, TypeOK
  <2>8. Dated' /\ Phased' /\ Attempts'
    BY <1>1, <2>6 DEF IInv, Dated, Phased, Attempts
  <2>9. \A run \in runs : /\ run.id = j => ~Unanalyzed(run)'
                          /\ run.id # j => (Unanalyzed(run)' <=> Unanalyzed(run))
    <3> SUFFICES ASSUME NEW run \in runs
                 PROVE  /\ run.id = j => ~Unanalyzed(run)'
                        /\ run.id # j => (Unanalyzed(run)' <=> Unanalyzed(run))
      OBVIOUS
    <3>1. run.id \in DataIds /\ run.round \in Nat /\ run.round <= round
      BY RunTypes DEF IInv, Dated
    <3>2. QED
      BY <2>3, <2>4, <3>1 DEF Unanalyzed
  <2>10. Handed'
    <3>1. \A run \in Imperfect' : run \in handed' \/ ~Unanalyzed(run)'
      BY <1>1, <2>2, <2>9 DEF IInv, Handed, Imperfect
    <3>2. \A d \in DataIds : pc'[d] = "ok" => writtenAt'[d] = round'
      BY <1>1, <2>2, <2>4 DEF IInv, Handed
    <3>3. QED
      BY <1>1, <2>2, <3>1, <3>2 DEF IInv, Handed
  <2>11. AnalyzedIffCovered'
    <3> SUFFICES ASSUME NEW run \in runs, ~run.perfect
                 PROVE  ~Unanalyzed(run)' <=> run \in covered'
      BY <1>1 DEF AnalyzedIffCovered
    <3>1. ~Unanalyzed(run) <=> run \in covered
      BY DEF IInv, AnalyzedIffCovered
    <3>2. run \in handed \/ ~Unanalyzed(run)
      BY <2>2 DEF IInv, Handed, Imperfect
    <3>3. QED
      BY <2>1, <2>9, <3>1, <3>2
  <2>12. EvidenceBeforeMutation'
    BY <1>1, <2>2 DEF EvidenceBeforeMutation
  <2>13. QED
    BY <2>7, <2>8, <2>10, <2>11, <2>12 DEF IInv
<1>6. QED
  BY <1>4, <1>5

\* At the gather every imperfect run is analysed unless a job failed, so a
\* repair makes no run look analysed that is not.
LEMMA GatherComplete ==
  ASSUME IInv, phase = "analysis", \A d \in DataIds : pc[d] \in {"off", "ok", "failed"},
         ~AnalysisFails
  PROVE  \A run \in Imperfect : ~Unanalyzed(run)
<1> SUFFICES ASSUME NEW run \in Imperfect PROVE ~Unanalyzed(run)
  OBVIOUS
<1>1. run \in runs /\ run.id \in DataIds /\ run.round \in Nat /\ run.round <= round
  BY RunTypes DEF IInv, Dated, Imperfect
<1>2. CASE run \in handed
  <2>1. pc[run.id] # "off" /\ pc[run.id] # "failed"
    BY <1>1, <1>2 DEF IInv, Handed, AnalysisFails
  <2>2. pc[run.id] = "ok"
    BY <1>1, <2>1
  <2>3. writtenAt[run.id] = round
    BY <1>1, <2>2 DEF IInv, Handed
  <2>4. round \in Nat
    BY <1>1, RunTypes DEF IInv
  <2>5. QED
    BY <1>1, <2>3, <2>4 DEF Unanalyzed
<1>3. CASE run \notin handed
  BY <1>3 DEF IInv, Handed
<1>4. QED
  BY <1>2, <1>3

LEMMA CloseAnalysisKeeps ==
  ASSUME IInv, NEW repaired \in SUBSET DataIds, NEW acting \in SUBSET DataIds,
         CloseAnalysis(repaired, acting)
  PROVE  IInv'
<1>1. /\ phase = "analysis" /\ \A d \in DataIds : pc[d] \in {"off", "ok", "failed"}
      /\ UNCHANGED <<config, round, handed, attempt, wroteIn, covered>>
  BY DEF CloseAnalysis
<1>2. pc[Mutator] = "off" /\ \A d \in DataIds : pc[d] \notin Alive
  BY <1>1 DEF IInv, Phased, Alive
<1>3. backend' \in {"pi", "claude"} /\ skipPerfect' \in BOOLEAN
  BY <1>1, Zenon DEF IInv, TypeOK, config
<1>4. CASE AnalysisFails
  <2>1. phase' = "failed" /\ UNCHANGED <<runs, writtenAt, content, pc>>
    BY <1>4 DEF CloseAnalysis, files
  <2>2. TypeOK'
    BY <1>1, <1>3, <2>1 DEF IInv, TypeOK
  <2>3. Dated' /\ Phased' /\ Attempts'
    BY <1>1, <1>2, <2>1 DEF IInv, Dated, Phased, Attempts, Alive
  <2>4. Handed' /\ AnalyzedIffCovered' /\ EvidenceBeforeMutation'
    BY <1>1, <2>1 DEF IInv, Handed, Imperfect, AnalyzedIffCovered, EvidenceBeforeMutation, Unanalyzed
  <2>5. QED
    BY <2>2, <2>3, <2>4 DEF IInv
<1>5. CASE ~AnalysisFails
  <2>1. /\ content' = [d \in DataIds |-> CASE d \in acting -> "actions"
                                          [] d \in repaired \ acting -> "no_actions"
                                          [] OTHER -> content[d]]
        /\ writtenAt' = [d \in DataIds |-> IF d \in repaired THEN round ELSE writtenAt[d]]
        /\ \/ phase' = "mutation" /\ pc' = [pc EXCEPT ![Mutator] = "queued"]
           \/ phase' = "failed" /\ pc' = pc
        /\ runs' = runs
    BY <1>5 DEF CloseAnalysis
  <2>2. round \in Nat /\ writtenAt \in [DataIds -> 0..round] /\ content \in [DataIds -> Contents]
        /\ pc \in [Jobs -> {"off", "queued", "running", "backoff", "ok", "failed"}]
    BY DEF IInv, TypeOK
  <2>3. /\ writtenAt' \in [DataIds -> 0..round'] /\ content' \in [DataIds -> Contents]
        /\ pc' \in [Jobs -> {"off", "queued", "running", "backoff", "ok", "failed"}]
        /\ \A d \in DataIds : pc'[d] = pc[d]
        /\ pc'[Mutator] \in {"off", "queued"}
        /\ pc'[Mutator] # "off" => phase' = "mutation"
    BY <1>1, <1>2, <2>1, <2>2, ConstantTypes DEF Contents
  <2>4. TypeOK'
    BY <1>1, <1>3, <2>1, <2>3 DEF IInv, TypeOK
  <2>5. Dated'
    BY <1>1, <2>1 DEF IInv, Dated
  <2>6. Phased'
    <3>1. phase' \in {"mutation", "failed"}
      BY <2>1
    <3>2. \A d \in DataIds : pc'[d] \notin Alive
      BY <1>2, <2>3
    <3>3. pc'[Mutator] # "off" => phase' = "mutation"
      BY <2>3
    <3>4. "off" \notin Alive
      BY DEF Alive
    <3>5. QED
      BY <3>1, <3>2, <3>3, <3>4 DEF Phased
  <2>7. Attempts'
    BY <1>1, <2>3 DEF IInv, Attempts, Jobs
  <2>8. \A run \in runs : ~run.perfect => ~Unanalyzed(run) /\ ~Unanalyzed(run)'
    <3> SUFFICES ASSUME NEW run \in runs, ~run.perfect
                 PROVE  ~Unanalyzed(run) /\ ~Unanalyzed(run)'
      OBVIOUS
    <3>1. ~Unanalyzed(run)
      BY <1>1, <1>5, GatherComplete DEF Imperfect
    <3>2. run.id \in DataIds /\ run.round \in Nat /\ run.round <= round
      BY RunTypes DEF IInv, Dated
    <3>3. QED
      BY <2>1, <2>2, <3>1, <3>2 DEF Unanalyzed
  <2>9. Handed'
    <3>1. \A run \in Imperfect' : run \in handed' \/ ~Unanalyzed(run)'
      BY <2>1, <2>8 DEF Imperfect
    <3>2. \A run \in handed' : pc'[run.id] # "off"
      BY <1>1, <2>3, RunTypes DEF IInv, TypeOK, Handed
    <3>3. \A d \in DataIds : pc'[d] = "ok" => writtenAt'[d] = round'
      BY <1>1, <2>1, <2>3 DEF IInv, Handed
    <3>4. QED
      BY <3>1, <3>2, <3>3 DEF Handed
  <2>10. AnalyzedIffCovered' /\ EvidenceBeforeMutation'
    BY <1>1, <2>1, <2>8 DEF IInv, AnalyzedIffCovered, EvidenceBeforeMutation
  <2>11. QED
    BY <2>4, <2>5, <2>6, <2>7, <2>9, <2>10 DEF IInv
<1>6. QED
  BY <1>4, <1>5

LEMMA NextIInv == IInv /\ [Next]_vars => IInv'
<1> SUFFICES ASSUME IInv, [Next]_vars PROVE IInv'
  OBVIOUS
<1>1. CASE \E batch \in SUBSET DataIds \ {{}}, reflect \in BOOLEAN :
             \E perfect \in SUBSET batch : Rollout(batch, perfect, reflect)
  BY <1>1, RolloutKeeps
<1>2. CASE StartAnalysis
  BY <1>2, StartAnalysisKeeps
<1>3. CASE \E j \in Jobs : JobStep(j)
  BY <1>3, LaunchKeeps, RetryKeeps, EndKeeps DEF JobStep
<1>4. CASE \E j \in Jobs, c \in Contents \ {"none"} : Write(j, c)
  BY <1>4, WriteKeeps
<1>5. CASE \E repaired, acting \in SUBSET DataIds : CloseAnalysis(repaired, acting)
  BY <1>5, CloseAnalysisKeeps
<1>6. CASE UNCHANGED vars
  <2>1. UNCHANGED <<config, round, phase, runs, writtenAt, content, handed, pc, attempt,
                    wroteIn, covered>>
    BY <1>6 DEF vars, files
  <2>2. backend' \in {"pi", "claude"} /\ skipPerfect' \in BOOLEAN
    BY <2>1, Zenon DEF IInv, TypeOK, config
  <2>3. TypeOK'
    BY <2>1, <2>2 DEF IInv, TypeOK
  <2>4. Dated' /\ Phased' /\ Attempts' /\ Handed' /\ AnalyzedIffCovered'
        /\ EvidenceBeforeMutation'
    BY <2>1 DEF IInv, Dated, Phased, Attempts, Handed, Imperfect, AnalyzedIffCovered,
                EvidenceBeforeMutation, Unanalyzed
  <2>5. QED
    BY <2>3, <2>4 DEF IInv
<1>7. QED
  BY <1>1, <1>2, <1>3, <1>4, <1>5, <1>6 DEF Next

THEOREM Invariance == Spec => []IInv
BY InitIInv, NextIInv, PTL DEF Spec
-----------------------------------------------------------------------------
(***************************************************************************)
(* The theorems.                                                           *)
(***************************************************************************)

\* Every variable of a propose keeps its type; attempts stay within
\* MAX_RETRY_ATTEMPTS.
THEOREM TypeCorrect == Spec => []TypeOK
<1>1. IInv => TypeOK
  BY DEF IInv
<1>2. QED
  BY <1>1, Invariance, PTL

\* A mutation starts only when every imperfect run of the candidate has an
\* analysis newer than itself (_analyze_single_data_id, the gather of
\* _run_analysis_pipeline).
THEOREM NoMutationWithoutEvidence == Spec => []EvidenceBeforeMutation
<1>1. IInv => EvidenceBeforeMutation
  BY DEF IInv
<1>2. QED
  BY <1>1, Invariance, PTL

\* The mtime comparison of find_unanalyzed_runs tells exactly the imperfect runs
\* no agent has analysed.
THEOREM AnalysesAreExact == Spec => []AnalyzedIffCovered
<1>1. IInv => AnalyzedIffCovered
  BY DEF IInv
<1>2. QED
  BY <1>1, Invariance, PTL
=============================================================================
