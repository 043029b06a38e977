--------------------------- MODULE RolloutsProofs ---------------------------
(*****************************************************************************)
(* Proofs about Rollouts, for every scenario and any number of slots,        *)
(* items, attempts and rollouts: the balance of the pool, and that the       *)
(* records of a rollout do not contradict themselves.                        *)
(*                                                                           *)
(* The invariant ties three things together: what a rollout holds of the     *)
(* pool and what its script runs; the trials and the batch they are for;     *)
(* and what run_batch said of an item and the files the evaluator is about   *)
(* to read.                                                                  *)
(*****************************************************************************)
EXTENDS Rollouts, FiniteSetTheorems, TLAPS

(* The states of a trial and of a rollout.                                  *)
States == {"waiting", "running", "pass", "fail", "cut"}
PCs == {"idle", "acquire", "script", "cleanup", "evaluate", "done", "raised"}

TypeInv ==
    /\ kind \in Kinds /\ pc \in [Slots -> PCs] /\ batch \in [Slots -> SUBSET Tasks]
    /\ available \in Nat /\ held \in [Slots -> 0 .. MaxTotal]
    /\ written \in [Slots -> SUBSET Tasks] /\ torn \in [Slots -> BOOLEAN]
    /\ DOMAIN result = Slots /\ DOMAIN score = Slots /\ DOMAIN trials = Slots

(* A rollout in progress has a trial for every attempt at its items.        *)
TrialsOK(r) ==
    /\ trials[r] \in [DOMAIN trials[r] -> States]
    /\ DOMAIN trials[r] = IF pc[r] \in {"idle", "done", "raised"} THEN {}
                          ELSE batch[r] \X AttemptsOf

(* Only a script holds slots and runs trials, as many as it was given at    *)
(* most; the trials of react share one limit.                               *)
HoldsOK(r) ==
    /\ pc[r] = "script" => held[r] = Requested(r)
    /\ pc[r] # "script" => held[r] = 0 /\ In(r, {"running"}) = {}
    /\ kind # "react" => Cardinality(In(r, {"running"})) <= Concurrency

(* What run_batch returned, as long as the evaluator has not looked at it:  *)
(* an output for what the evaluator will find something in, and for no item *)
(* none of whose attempts was started.                                      *)
Told(r, d) ==
    /\ result[r][d] \in {"output", "maybe"} => Dirs(r, d) # {}
    /\ kind = "text2sql" /\ d \in written[r] /\ ~torn[r] => result[r][d] = "output"
    /\ kind = "adconfig" /\ d \in written[r] => result[r][d] = "output"
    /\ kind = "react" => result[r][d] \in {"empty", "output"}
TellsOK(r) == pc[r] \in {"cleanup", "evaluate"} => \A d \in batch[r] : Told(r, d)

SlotOK(r) == TrialsOK(r) /\ HoldsOK(r) /\ TellsOK(r)
Balance == available + Cardinality(Taken) = MaxTotal

(* The inductive invariant.                                                 *)
IInv == TypeInv /\ Balance /\ \A r \in Slots : SlotOK(r)

-----------------------------------------------------------------------------
(* The pool.                                                                *)

(* The least of three numbers.                                              *)
LEMMA MinOfThree ==
    ASSUME NEW a \in Nat, NEW b \in Nat, NEW c \in Nat
    PROVE  LET m == Min({a, b, c}) IN m \in {a, b, c} /\ m <= a /\ m <= b /\ m <= c
<1> DEFINE S == {a, b, c}
<1>1. \E x \in S : \A y \in S : x <= y
  <2>1. CASE a <= b /\ a <= c
    BY <2>1
  <2>2. CASE b <= a /\ b <= c
    BY <2>2
  <2>3. CASE c <= a /\ c <= b
    BY <2>3
  <2> QED
    BY <2>1, <2>2, <2>3
<1>2. Min(S) \in S /\ \A y \in S : Min(S) <= y
  BY <1>1 DEF Min
<1> QED
  BY <1>2

(* A batch is finite, and so are a rollout's trials.                        *)
LEMMA BatchIsFinite ==
    ASSUME TypeInv, NEW r \in Slots
    PROVE  /\ IsFiniteSet(batch[r]) /\ Cardinality(batch[r]) \in Nat
           /\ IsFiniteSet(batch[r] \X AttemptsOf)
           /\ kind # "terminalbench" =>
                AttemptsOf = {1} /\ Cardinality(batch[r] \X AttemptsOf) = Cardinality(batch[r])
<1>1. IsFiniteSet(batch[r])
  BY FS_Subset, RolloutsAssumption DEF TypeInv
<1>2. Cardinality(batch[r]) \in Nat
  BY <1>1, FS_CardinalityType
<1>3. IsFiniteSet(AttemptsOf)
  BY FS_Interval, RolloutsAssumption DEF AttemptsOf
<1>4. IsFiniteSet(batch[r] \X AttemptsOf)
  BY <1>1, <1>3, FS_Product
<1>5. ASSUME kind # "terminalbench"
      PROVE  AttemptsOf = {1} /\ Cardinality(batch[r] \X AttemptsOf) = Cardinality(batch[r])
  <2>1. AttemptsOf = {1}
    BY <1>5 DEF AttemptsOf
  <2>2. IsFiniteSet({1}) /\ Cardinality({1}) = 1
    BY FS_Singleton
  <2>3. Cardinality(batch[r] \X {1}) = Cardinality(batch[r]) * Cardinality({1})
    BY <1>1, <2>2, FS_Product
  <2> QED
    BY <1>2, <2>1, <2>2, <2>3
<1> QED
  BY <1>1, <1>2, <1>4, <1>5

(* So are those of its trials that are in a given state.                    *)
LEMMA RunningIsFinite ==
    ASSUME TypeInv, NEW r \in Slots, TrialsOK(r), NEW S
    PROVE  IsFiniteSet(In(r, S)) /\ Cardinality(In(r, S)) \in Nat
<1>1. IsFiniteSet(DOMAIN trials[r])
  BY BatchIsFinite, FS_EmptySet DEF TrialsOK
<1>2. In(r, S) \in SUBSET DOMAIN trials[r]
  BY DEF In
<1> QED
  BY <1>1, <1>2, FS_Subset, FS_CardinalityType

(* What a rollout requests is one of the three limits and within each.      *)
LEMMA RequestedRange ==
    ASSUME TypeInv, NEW r \in Slots
    PROVE  /\ Requested(r) \in Nat
           /\ kind \in Pooled => /\ Requested(r) <= Concurrency /\ Requested(r) <= MaxTotal
                                 /\ Requested(r) <= Cardinality(batch[r])
                                 /\ Requested(r) \in {Concurrency, Cardinality(batch[r]), MaxTotal}
<1> DEFINE n == Cardinality(batch[r])
<1>1. n \in Nat /\ Concurrency \in Nat /\ MaxTotal \in Nat
  BY BatchIsFinite, RolloutsAssumption
<1> HIDE DEF n
<1>2. LET m == Min({Concurrency, n, MaxTotal})
      IN  m \in {Concurrency, n, MaxTotal} /\ m <= Concurrency /\ m <= n /\ m <= MaxTotal
  BY <1>1, MinOfThree
<1>3. Requested(r) = IF kind \in Pooled THEN Min({Concurrency, n, MaxTotal}) ELSE 0
  BY DEF Requested, n
<1> QED
  BY <1>1, <1>2, <1>3 DEF n

(* The slots of the pool that rollouts other than r hold when each holds h. *)
Elsewhere(h, r) == UNION {{q} \X (1 .. h[q]) : q \in Slots \ {r}}

(* What rollouts hold is what r holds and what the others hold.             *)
LEMMA TakenSplits ==
    ASSUME NEW h \in [Slots -> 0 .. MaxTotal], NEW r \in Slots
    PROVE  /\ IsFiniteSet(Elsewhere(h, r)) /\ Cardinality(Elsewhere(h, r)) \in Nat
           /\ Cardinality(UNION {{q} \X (1 .. h[q]) : q \in Slots}) = Cardinality(Elsewhere(h, r)) + h[r]
<1> DEFINE E == Elsewhere(h, r)
           H == {r} \X (1 .. h[r])
<1>1. IsFiniteSet(E)
  <2>1. IsFiniteSet(1 .. MaxTotal)
    BY RolloutsAssumption, FS_Interval
  <2>2. IsFiniteSet(Slots \X (1 .. MaxTotal))
    BY <2>1, RolloutsAssumption, FS_Product
  <2>3. ASSUME NEW x \in E PROVE x \in Slots \X (1 .. MaxTotal)
    <3>1. PICK q \in Slots : x \in {q} \X (1 .. h[q])
      BY DEF Elsewhere
    <3>2. h[q] \in Nat /\ h[q] <= MaxTotal /\ MaxTotal \in Nat
      BY RolloutsAssumption
    <3> QED
      BY <3>1, <3>2
  <2>4. E \in SUBSET (Slots \X (1 .. MaxTotal))
    BY <2>3
  <2> HIDE DEF E
  <2> QED
    BY <2>2, <2>4, FS_Subset
<1>2. IsFiniteSet(H) /\ Cardinality(H) = h[r]
  <2>1. h[r] \in Nat
    BY RolloutsAssumption
  <2>2. IsFiniteSet({r}) /\ Cardinality({r}) = 1
    BY FS_Singleton
  <2>3. IsFiniteSet(1 .. h[r]) /\ Cardinality(1 .. h[r]) = h[r]
    BY <2>1, FS_Interval
  <2>4. IsFiniteSet(H) /\ Cardinality(H) = Cardinality({r}) * Cardinality(1 .. h[r])
    BY <2>2, <2>3, FS_Product
  <2> QED
    BY <2>1, <2>2, <2>3, <2>4
<1>3. E \cap H = {}
  BY DEF Elsewhere
<1> DEFINE T == UNION {{q} \X (1 .. h[q]) : q \in Slots}
<1>4. T = E \cup H
  BY DEF Elsewhere
<1> HIDE DEF E, H, T
<1>5. Cardinality(T) = Cardinality(E) + Cardinality(H) - Cardinality({})
  BY <1>1, <1>2, <1>3, <1>4, FS_Union
<1>6. Cardinality(E) \in Nat
  BY <1>1, FS_CardinalityType
<1>7. h[r] \in Nat
  BY RolloutsAssumption
<1> QED
  BY <1>1, <1>2, <1>5, <1>6, <1>7, FS_EmptySet DEF E, T

(* A rollout without slots takes n: the balance is kept.                    *)
LEMMA TakesSlots ==
    ASSUME TypeInv, Balance, NEW r \in Slots, held[r] = 0, NEW n \in Nat,
           n <= available, n <= MaxTotal,
           available' = available - n, held' = [held EXCEPT ![r] = n]
    PROVE  available' \in Nat /\ held' \in [Slots -> 0 .. MaxTotal] /\ Balance'
<1>1. /\ held \in [Slots -> 0 .. MaxTotal] /\ available \in Nat /\ MaxTotal \in Nat
      /\ held'[r] = n /\ \A q \in Slots \ {r} : held'[q] = held[q]
  BY RolloutsAssumption DEF TypeInv
<1>2. held' \in [Slots -> 0 .. MaxTotal]
  BY <1>1
<1>3. Elsewhere(held', r) = Elsewhere(held, r)
  BY <1>1 DEF Elsewhere
<1>4. /\ Cardinality(Elsewhere(held, r)) \in Nat
      /\ Cardinality(Taken) = Cardinality(Elsewhere(held, r)) + 0
  BY <1>1, TakenSplits DEF Taken
<1>5. Cardinality(Taken') = Cardinality(Elsewhere(held, r)) + n
  BY <1>1, <1>2, <1>3, TakenSplits DEF Taken
<1>6. available' \in Nat
  BY <1>1
<1> QED
  BY <1>1, <1>2, <1>4, <1>5, <1>6 DEF Balance

(* A rollout gives back all it holds: the cap of ConcurrencyPool.release    *)
(* never cuts anything off.                                                 *)
LEMMA GivesBack ==
    ASSUME TypeInv, Balance, NEW r \in Slots, release(r)
    PROVE  /\ available' \in Nat /\ held' \in [Slots -> 0 .. MaxTotal] /\ Balance'
           /\ held'[r] = 0 /\ \A q \in Slots \ {r} : held'[q] = held[q]
<1>1. /\ held \in [Slots -> 0 .. MaxTotal] /\ available \in Nat /\ MaxTotal \in Nat
      /\ held'[r] = 0 /\ \A q \in Slots \ {r} : held'[q] = held[q] /\ held[r] \in Nat
  BY RolloutsAssumption DEF TypeInv, release
<1>2. held' \in [Slots -> 0 .. MaxTotal]
  BY <1>1 DEF release
<1>3. Elsewhere(held', r) = Elsewhere(held, r)
  BY <1>1 DEF Elsewhere
<1>4. /\ Cardinality(Elsewhere(held, r)) \in Nat
      /\ Cardinality(Taken) = Cardinality(Elsewhere(held, r)) + held[r]
  BY <1>1, TakenSplits DEF Taken
<1>5. Cardinality(Taken') = Cardinality(Elsewhere(held, r)) + 0
  BY <1>1, <1>2, <1>3, TakenSplits DEF Taken
<1>6. available + held[r] <= MaxTotal /\ available + held[r] \in Nat
  BY <1>1, <1>4 DEF Balance
<1>7. Min({MaxTotal, available + held[r]}) = available + held[r]
  <2> DEFINE a == available + held[r]
  <2> HIDE DEF a
  <2>1. a \in Nat /\ a <= MaxTotal
    BY <1>6 DEF a
  <2>2. \E x \in {MaxTotal, a} : \A y \in {MaxTotal, a} : x <= y
    BY <2>1, <1>1
  <2>3. /\ Min({MaxTotal, a}) \in {MaxTotal, a}
        /\ \A y \in {MaxTotal, a} : Min({MaxTotal, a}) <= y
    BY <2>2 DEF Min
  <2> QED
    BY <1>1, <2>1, <2>3 DEF a
<1>8. available' = available + held[r]
  BY <1>7 DEF release
<1> QED
  BY <1>1, <1>2, <1>4, <1>5, <1>6, <1>8 DEF Balance

-----------------------------------------------------------------------------
(* The other rollouts.                                                      *)

(* A step that does not touch rollout q leaves what IInv says of it.        *)
Untouched(q) ==
    /\ pc'[q] = pc[q] /\ batch'[q] = batch[q] /\ held'[q] = held[q] /\ trials'[q] = trials[q]
    /\ written'[q] = written[q] /\ torn'[q] = torn[q] /\ result'[q] = result[q]

(* Whatever the state holds of other rollouts does not matter to it.        *)
LEMMA UntouchedKeeps ==
    ASSUME NEW q, SlotOK(q), kind' = kind, Untouched(q)
    PROVE  SlotOK(q)'
<1>1. TrialsOK(q)'
  BY DEF SlotOK, TrialsOK, Untouched, AttemptsOf
<1>2. HoldsOK(q)'
  <2>1. Requested(q)' = Requested(q) /\ In(q, {"running"})' = In(q, {"running"})
    BY DEF Untouched, Requested, In
  <2> QED
    BY <2>1 DEF SlotOK, HoldsOK, Untouched
<1>3. TellsOK(q)'
  <2>1. \A d : Dirs(q, d)' = Dirs(q, d)
    BY DEF Untouched, Dirs, TrialsOf
  <2> QED
    BY <2>1 DEF SlotOK, TellsOK, Told, Untouched
<1> QED
  BY <1>1, <1>2, <1>3 DEF SlotOK

(* One rollout steps, the others do not.                                    *)
LEMMA OneSteps ==
    ASSUME IInv, NEW r \in Slots, kind' = kind, TypeInv', Balance', SlotOK(r)',
           \A q \in Slots \ {r} : Untouched(q)
    PROVE  IInv'
<1>1. ASSUME NEW q \in Slots PROVE SlotOK(q)'
  BY UntouchedKeeps DEF IInv
<1> QED
  BY <1>1 DEF IInv

(* A rollout that runs no trials is within every limit.                     *)
LEMMA NothingRuns == Cardinality({}) <= Concurrency
BY FS_EmptySet, RolloutsAssumption

-----------------------------------------------------------------------------
(* The steps of a rollout.                                                  *)

(* Nothing runs and nothing is held at first.                               *)
LEMMA InitInv == Init => IInv
<1> SUFFICES ASSUME Init PROVE IInv
  OBVIOUS
<1> USE RolloutsAssumption
<1>1. TypeInv
  BY DEF Init, TypeInv, PCs
<1>2. \A r \in Slots : trials[r] = Nothing /\ DOMAIN Nothing = {} /\ In(r, {"running"}) = {}
  BY DEF Init, Nothing, In
<1>3. Balance
  <2>1. Taken = {}
    BY DEF Init, Taken
  <2> QED
    BY <2>1, FS_EmptySet DEF Init, Balance
<1>4. ASSUME NEW r \in Slots PROVE SlotOK(r)
  BY <1>2, NothingRuns DEF Init, SlotOK, TrialsOK, HoldsOK, TellsOK, Nothing
<1> QED
  BY <1>1, <1>3, <1>4 DEF IInv

(* A rollout begins: it has nothing to run, or all its trials wait.         *)
LEMMA BeginKeeps ==
    ASSUME IInv, NEW r \in Slots, NEW b \in SUBSET Tasks, Begin(r, b)
    PROVE  IInv'
<1>1. /\ TypeInv /\ Balance /\ TrialsOK(r) /\ HoldsOK(r)
      /\ pc[r] \in {"idle", "done", "raised"}
      /\ kind' = kind /\ available' = available /\ held' = held
      /\ written' = written /\ torn' = torn
      /\ batch' = [batch EXCEPT ![r] = b] /\ result' = result
      /\ score' = [score EXCEPT ![r] = Nothing]
  BY DEF IInv, SlotOK, Begin, pool, outputs
<1>2. \/ /\ pc' = [pc EXCEPT ![r] = "done"] /\ trials' = trials
      \/ /\ pc' = [pc EXCEPT ![r] = "raised"] /\ trials' = trials
      \/ /\ pc' = [pc EXCEPT ![r] = "acquire"]
         /\ trials' = [trials EXCEPT ![r] = [t \in b \X AttemptsOf |-> "waiting"]]
  BY DEF Begin
<1>3. TypeInv'
  BY <1>1, <1>2 DEF TypeInv, PCs
<1>4. Balance'
  BY <1>1 DEF Balance, Taken
<1>5. /\ batch'[r] = b /\ pc'[r] \in {"done", "raised", "acquire"} /\ held'[r] = 0
      /\ AttemptsOf' = AttemptsOf
  BY <1>1, <1>2 DEF TypeInv, HoldsOK, AttemptsOf
<1>6. TrialsOK(r)' /\ In(r, {"running"})' = {}
  <2>1. CASE trials' = trials /\ pc'[r] \in {"done", "raised"}
    <3>1. DOMAIN trials[r] = {}
      BY <1>1 DEF TrialsOK
    <3> QED
      BY <1>1, <2>1, <3>1 DEF TrialsOK, In
  <2>2. CASE pc'[r] = "acquire" /\ trials'[r] = [t \in b \X AttemptsOf |-> "waiting"]
    BY <1>5, <2>2 DEF TrialsOK, In, States
  <2> QED
    BY <1>1, <1>2, <2>1, <2>2 DEF TypeInv
<1>7. HoldsOK(r)' /\ TellsOK(r)'
  BY <1>5, <1>6, NothingRuns DEF HoldsOK, TellsOK
<1>8. \A q \in Slots \ {r} : Untouched(q)
  BY <1>1, <1>2 DEF Untouched, TypeInv
<1> QED
  BY <1>1, <1>3, <1>4, <1>6, <1>7, <1>8, OneSteps DEF SlotOK

(* It takes the slots of the pool it requests, all at once.                 *)
LEMMA AcquireKeeps ==
    ASSUME IInv, NEW r \in Slots, Acquire(r)
    PROVE  IInv'
<1>1. /\ TypeInv /\ Balance /\ TrialsOK(r) /\ HoldsOK(r) /\ pc[r] = "acquire" /\ held[r] = 0
      /\ kind' = kind /\ batch' = batch /\ trials' = trials /\ written' = written
      /\ torn' = torn /\ result' = result /\ score' = score
      /\ pc' = [pc EXCEPT ![r] = "script"] /\ held' = [held EXCEPT ![r] = Requested(r)]
      /\ available' = available - Requested(r) /\ Requested(r) <= available
  BY RolloutsAssumption DEF IInv, SlotOK, HoldsOK, Acquire, acquire, outputs, TypeInv
<1>2. Requested(r) \in Nat /\ Requested(r) <= MaxTotal
  <2>1. CASE kind \in Pooled
    BY <1>1, <2>1, RequestedRange
  <2>2. CASE kind \notin Pooled
    BY <2>2, RolloutsAssumption DEF Requested
  <2> QED
    BY <2>1, <2>2
<1>3. available' \in Nat /\ held' \in [Slots -> 0 .. MaxTotal] /\ Balance'
  <2> DEFINE n == Requested(r)
  <2> HIDE DEF n
  <2>1. n \in Nat /\ n <= MaxTotal /\ n <= available /\ held' = [held EXCEPT ![r] = n]
        /\ available' = available - n
    BY <1>1, <1>2 DEF n
  <2> QED
    BY <1>1, <2>1, TakesSlots
<1>4. TypeInv'
  BY <1>1, <1>3 DEF TypeInv, PCs
<1>5. /\ pc'[r] = "script" /\ held'[r] = Requested(r) /\ Requested(r)' = Requested(r)
      /\ In(r, {"running"})' = {} /\ In(r, {"running"}) = {}
  BY <1>1 DEF TypeInv, Requested, In, HoldsOK
<1>6. TrialsOK(r)' /\ HoldsOK(r)' /\ TellsOK(r)'
  BY <1>1, <1>5, NothingRuns DEF TrialsOK, HoldsOK, TellsOK, AttemptsOf
<1>7. \A q \in Slots \ {r} : Untouched(q)
  BY <1>1 DEF Untouched, TypeInv
<1> QED
  BY <1>1, <1>3, <1>4, <1>6, <1>7, OneSteps DEF SlotOK

(* One trial of a script starts or ends: what IInv asks of the rest.        *)
LEMMA TrialSteps ==
    ASSUME IInv, NEW r \in Slots, NEW t \in DOMAIN trials[r], NEW s \in States,
           pc[r] = "script", trials' = [trials EXCEPT ![r][t] = s],
           kind # "react" => Cardinality(In(r, {"running"})') <= Concurrency,
           UNCHANGED <<kind, begun, pc, batch, pool, outputs, result, score>>
    PROVE  IInv'
<1>1. /\ TypeInv /\ Balance /\ TrialsOK(r) /\ HoldsOK(r)
      /\ kind' = kind /\ pc' = pc /\ batch' = batch /\ available' = available /\ held' = held
      /\ written' = written /\ torn' = torn /\ result' = result /\ score' = score
  BY DEF IInv, SlotOK, pool, outputs
<1>2. TypeInv'
  BY <1>1 DEF TypeInv
<1>3. Balance'
  BY <1>1 DEF Balance, Taken
<1>4. trials'[r] = [trials[r] EXCEPT ![t] = s]
  BY <1>1 DEF TypeInv
<1>5. TrialsOK(r)'
  BY <1>1, <1>4 DEF TrialsOK, AttemptsOf
<1>6. HoldsOK(r)' /\ TellsOK(r)'
  BY <1>1 DEF HoldsOK, TellsOK, Requested
<1>7. \A q \in Slots \ {r} : Untouched(q)
  BY <1>1 DEF Untouched, TypeInv
<1> QED
  BY <1>1, <1>2, <1>3, <1>5, <1>6, <1>7, OneSteps DEF SlotOK

(* A trial starts only below the limit.                                     *)
LEMMA StartKeeps ==
    ASSUME IInv, NEW r \in Slots, NEW t \in DOMAIN trials[r], StartTrial(r, t)
    PROVE  IInv'
<1>1. /\ TypeInv /\ TrialsOK(r) /\ pc[r] = "script"
      /\ trials' = [trials EXCEPT ![r][t] = "running"]
      /\ kind # "react" => Running({r}) < Concurrency
  BY DEF IInv, SlotOK, StartTrial
<1>2. IsFiniteSet(In(r, {"running"})) /\ Cardinality(In(r, {"running"})) \in Nat
  BY <1>1, RunningIsFinite
<1>3. Running({r}) = Cardinality(In(r, {"running"}))
  <2> DEFINE R == In(r, {"running"})
  <2>1. UNION {{q} \X In(q, {"running"}) : q \in {r}} = {r} \X R
    OBVIOUS
  <2> HIDE DEF R
  <2>2. IsFiniteSet({r}) /\ Cardinality({r}) = 1
    BY FS_Singleton
  <2>3. IsFiniteSet(R) /\ Cardinality(R) \in Nat
    BY <1>2 DEF R
  <2>4. Cardinality({r} \X R) = Cardinality({r}) * Cardinality(R)
    BY <2>2, <2>3, FS_Product
  <2>5. Cardinality({r} \X R) = Cardinality(R)
    BY <2>2, <2>3, <2>4
  <2> QED
    BY <2>1, <2>5 DEF Running, R
<1>4. ASSUME kind # "react" PROVE Cardinality(In(r, {"running"})') <= Concurrency
  <2>1. In(r, {"running"})' = In(r, {"running"}) \cup {t}
    <3>1. trials'[r] = [trials[r] EXCEPT ![t] = "running"]
      BY <1>1 DEF TypeInv
    <3> QED
      BY <1>1, <3>1 DEF In, TrialsOK
  <2>2. Cardinality(In(r, {"running"}) \cup {t}) <= Cardinality(In(r, {"running"})) + 1
    <3> DEFINE R == In(r, {"running"})
    <3> HIDE DEF R
    <3>1. IsFiniteSet(R) /\ Cardinality(R) \in Nat
      BY <1>2 DEF R
    <3>2. Cardinality(R \cup {t}) = IF t \in R THEN Cardinality(R) ELSE Cardinality(R) + 1
      BY <3>1, FS_AddElement
    <3> QED
      BY <3>1, <3>2 DEF R
  <2>3. Cardinality(In(r, {"running"})) < Concurrency
    BY <1>1, <1>3, <1>4
  <2>4. IsFiniteSet(In(r, {"running"}) \cup {t})
    BY <1>2, FS_AddElement
  <2>5. Cardinality(In(r, {"running"}) \cup {t}) \in Nat
    BY <2>4, FS_CardinalityType
  <2>6. Concurrency \in Nat
    BY RolloutsAssumption
  <2> QED
    BY <1>2, <2>1, <2>2, <2>3, <2>5, <2>6
<1>5. UNCHANGED <<kind, begun, pc, batch, pool, outputs, result, score>>
  BY DEF StartTrial
<1> QED
  BY <1>1, <1>4, <1>5, TrialSteps DEF States

(* A smaller set of running trials is within the limit as well.             *)
LEMMA FewerRun ==
    ASSUME NEW S, IsFiniteSet(S), NEW T, T \subseteq S, Cardinality(S) <= Concurrency
    PROVE  Cardinality(T) <= Concurrency
<1>1. IsFiniteSet(T) /\ Cardinality(T) <= Cardinality(S)
  BY FS_Subset
<1>2. Cardinality(T) \in Nat /\ Cardinality(S) \in Nat /\ Concurrency \in Nat
  BY <1>1, FS_CardinalityType, RolloutsAssumption
<1> QED
  BY <1>1, <1>2

(* A trial that ends makes room.                                            *)
LEMMA EndKeeps ==
    ASSUME IInv, NEW r \in Slots, NEW t \in DOMAIN trials[r], EndTrial(r, t)
    PROVE  IInv'
<1>1. PICK s \in {"pass", "fail"} : trials' = [trials EXCEPT ![r][t] = s]
  BY DEF EndTrial
<1>2. /\ TypeInv /\ TrialsOK(r) /\ HoldsOK(r) /\ pc[r] = "script"
      /\ UNCHANGED <<kind, begun, pc, batch, pool, outputs, result, score>>
  BY DEF IInv, SlotOK, EndTrial
<1>3. In(r, {"running"})' \subseteq In(r, {"running"})
  <2>1. trials'[r] = [trials[r] EXCEPT ![t] = s]
    BY <1>1, <1>2 DEF TypeInv
  <2> QED
    BY <2>1 DEF In
<1>4. kind # "react" => Cardinality(In(r, {"running"})') <= Concurrency
  BY <1>2, <1>3, RunningIsFinite, FewerRun DEF HoldsOK
<1> QED
  BY <1>1, <1>2, <1>4, TrialSteps DEF States

(* A rollout is over: its temporary directory is gone, and its trials with  *)
(* it.                                                                      *)
LEMMA GoneIsOK ==
    ASSUME NEW r, pc'[r] \in {"raised", "done"}, held'[r] = 0, trials'[r] = Nothing
    PROVE  SlotOK(r)'
<1>1. DOMAIN trials'[r] = {} /\ trials'[r] \in [{} -> States] /\ In(r, {"running"})' = {}
  BY DEF Nothing, In
<1> QED
  BY <1>1, NothingRuns DEF SlotOK, TrialsOK, HoldsOK, TellsOK

(* The script ends: what it returned is told, what still ran is lost.       *)
LEMMA ScriptKeeps ==
    ASSUME IInv, NEW r \in Slots, NEW end, ScriptEnds(r, end)
    PROVE  IInv'
<1>1. PICK w \in (IF kind \in Harbor THEN {{}} ELSE SUBSET Finished(r)),
           tn \in (IF kind \in Harbor \/ end \in {"exit", "no_start"} THEN {FALSE} ELSE BOOLEAN) :
        \/ /\ pc' = [pc EXCEPT ![r] = "raised"]
           /\ RemoveTempDir(r) /\ UNCHANGED result
        \/ /\ \A d \in batch[r] : run_batch(r, d, end, w, tn) # "raise"
           /\ pc' = [pc EXCEPT ![r] = IF kind \in Harbor THEN "cleanup" ELSE "evaluate"]
           /\ result' = [result EXCEPT ![r] = [d \in batch[r] |-> run_batch(r, d, end, w, tn)]]
           /\ written' = [written EXCEPT ![r] = w] /\ torn' = [torn EXCEPT ![r] = tn]
           /\ trials' = [trials EXCEPT ![r] = [t \in DOMAIN trials[r] |->
                           IF trials[r][t] = "running" THEN "cut" ELSE trials[r][t]]]
  <2>1. PICK w \in (IF kind \in Harbor THEN {{}} ELSE SUBSET Finished(r)),
             tn \in (IF kind \in Harbor \/ end \in {"exit", "no_start"} THEN {FALSE} ELSE BOOLEAN) :
          IF \/ end = "no_start" /\ kind \notin Harbor
             \/ \E d \in batch[r] : [e \in batch[r] |-> run_batch(r, e, end, w, tn)][d] = "raise"
          THEN /\ pc' = [pc EXCEPT ![r] = "raised"]
               /\ RemoveTempDir(r) /\ UNCHANGED result
          ELSE /\ pc' = [pc EXCEPT ![r] = IF kind \in Harbor THEN "cleanup" ELSE "evaluate"]
               /\ result' = [result EXCEPT ![r] = [d \in batch[r] |-> run_batch(r, d, end, w, tn)]]
               /\ written' = [written EXCEPT ![r] = w] /\ torn' = [torn EXCEPT ![r] = tn]
               /\ trials' = [trials EXCEPT ![r] = [t \in DOMAIN trials[r] |->
                               IF trials[r][t] = "running" THEN "cut" ELSE trials[r][t]]]
    BY DEF ScriptEnds
  <2>2. \A d \in batch[r] : [e \in batch[r] |-> run_batch(r, e, end, w, tn)][d]
                           = run_batch(r, d, end, w, tn)
    OBVIOUS
  <2>3. CASE \/ end = "no_start" /\ kind \notin Harbor
             \/ \E d \in batch[r] : [e \in batch[r] |-> run_batch(r, e, end, w, tn)][d] = "raise"
    BY <2>1, <2>3
  <2>4. CASE ~ \/ end = "no_start" /\ kind \notin Harbor
               \/ \E d \in batch[r] : [e \in batch[r] |-> run_batch(r, e, end, w, tn)][d] = "raise"
    BY <2>1, <2>2, <2>4
  <2> QED
    BY <2>3, <2>4
<1>2. /\ TypeInv /\ Balance /\ TrialsOK(r) /\ HoldsOK(r) /\ pc[r] = "script" /\ release(r)
      /\ kind' = kind /\ batch' = batch /\ score' = score
  BY DEF IInv, SlotOK, ScriptEnds
<1>3. /\ available' \in Nat /\ held' \in [Slots -> 0 .. MaxTotal] /\ Balance'
      /\ held'[r] = 0 /\ \A q \in Slots \ {r} : held'[q] = held[q]
  BY <1>2, GivesBack
<1>4. w \in SUBSET Tasks /\ tn \in BOOLEAN
  BY <1>2 DEF TypeInv, Finished
<1>5. CASE /\ pc' = [pc EXCEPT ![r] = "raised"]
           /\ RemoveTempDir(r) /\ UNCHANGED result
  <2>1. TypeInv' /\ \A q \in Slots \ {r} : Untouched(q)
    BY <1>2, <1>3, <1>5 DEF TypeInv, PCs, RemoveTempDir, Untouched
  <2>2. SlotOK(r)'
    <3>1. pc'[r] = "raised" /\ trials'[r] = Nothing
      BY <1>2, <1>5 DEF TypeInv, RemoveTempDir
    <3> QED
      BY <1>3, <3>1, GoneIsOK
  <2> QED
    BY <1>2, <1>3, <2>1, <2>2, OneSteps
<1>6. CASE /\ \A d \in batch[r] : run_batch(r, d, end, w, tn) # "raise"
           /\ pc' = [pc EXCEPT ![r] = IF kind \in Harbor THEN "cleanup" ELSE "evaluate"]
           /\ result' = [result EXCEPT ![r] = [d \in batch[r] |-> run_batch(r, d, end, w, tn)]]
           /\ written' = [written EXCEPT ![r] = w] /\ torn' = [torn EXCEPT ![r] = tn]
           /\ trials' = [trials EXCEPT ![r] = [t \in DOMAIN trials[r] |->
                           IF trials[r][t] = "running" THEN "cut" ELSE trials[r][t]]]
  <2>1. TypeInv' /\ \A q \in Slots \ {r} : Untouched(q)
    BY <1>2, <1>3, <1>4, <1>6 DEF TypeInv, PCs, Untouched
  <2>2. /\ pc'[r] \in {"cleanup", "evaluate"} /\ written'[r] = w /\ torn'[r] = tn
        /\ result'[r] = [d \in batch[r] |-> run_batch(r, d, end, w, tn)]
        /\ trials'[r] = [t \in DOMAIN trials[r] |->
                           IF trials[r][t] = "running" THEN "cut" ELSE trials[r][t]]
    BY <1>2, <1>6 DEF TypeInv
  <2>3. /\ DOMAIN trials'[r] = DOMAIN trials[r] /\ AttemptsOf' = AttemptsOf
        /\ \A t \in DOMAIN trials[r] : /\ trials'[r][t] \in States /\ trials'[r][t] # "running"
                                       /\ trials'[r][t] = "waiting" <=> trials[r][t] = "waiting"
    BY <1>2, <2>2 DEF TrialsOK, States, AttemptsOf
  <2>4. TrialsOK(r)'
    <3>1. DOMAIN trials'[r] = batch'[r] \X AttemptsOf'
      BY <1>2, <2>3 DEF TrialsOK
    <3>2. trials'[r] \in [DOMAIN trials'[r] -> States]
      BY <2>2, <2>3
    <3> QED
      BY <2>2, <3>1, <3>2 DEF TrialsOK
  <2>5. HoldsOK(r)'
    <3>1. In(r, {"running"})' = {}
      BY <2>3 DEF In
    <3> QED
      BY <1>3, <2>2, <3>1, NothingRuns DEF HoldsOK
  <2>6. ASSUME NEW d \in batch[r] PROVE Told(r, d)'
    <3>1. Dirs(r, d)' = Dirs(r, d)
      BY <2>3 DEF Dirs, TrialsOf
    <3>2. result'[r][d] = run_batch(r, d, end, w, tn) /\ result'[r][d] # "raise"
      BY <1>6, <2>2
    <3> DEFINE o == run_batch(r, d, end, w, tn)
    <3>3. o \in {"output", "maybe"} => d \in w \/ Dirs(r, d) # {}
      BY <1>2 DEF TypeInv, Kinds, Pooled, WithTimeout, Harbor, run_batch, TerminalBenchResult,
                  DPText2SQLResult, Text2SQLResult, AppWorldResult, RagPipelineResult,
                  AdConfigResult, ReactResult
    <3>4. d \in w => Dirs(r, d) # {}
      BY DEF Finished, Passed, Dirs, In
    <3>5. /\ kind = "text2sql" /\ d \in w /\ ~tn /\ o # "raise" => o = "output"
          /\ kind = "adconfig" /\ d \in w /\ o # "raise" => o = "output"
          /\ kind = "react" => o \in {"empty", "output"}
      BY DEF run_batch, Text2SQLResult, AdConfigResult, ReactResult
    <3> HIDE DEF o
    <3> QED
      BY <1>2, <2>2, <3>1, <3>2, <3>3, <3>4, <3>5 DEF Told, o
  <2>7. TellsOK(r)'
    BY <1>2, <2>6 DEF TellsOK
  <2> QED
    BY <1>2, <1>3, <2>1, <2>4, <2>5, <2>7, OneSteps DEF SlotOK
<1> QED
  BY <1>1, <1>5, <1>6

(* What docker has is removed: the trials of any rollout may be cut short,  *)
(* none starts.                                                             *)
LEMMA CleanupKeeps ==
    ASSUME IInv, NEW r \in Slots, Cleanup(r)
    PROVE  IInv'
<1>1. /\ TypeInv /\ Balance /\ HoldsOK(r) /\ pc[r] = "cleanup" /\ held[r] = 0
      /\ pc' = [pc EXCEPT ![r] = "evaluate"]
      /\ kind' = kind /\ batch' = batch /\ available' = available /\ held' = held
      /\ written' = written /\ torn' = torn /\ result' = result /\ score' = score
  BY DEF IInv, SlotOK, HoldsOK, Cleanup, pool, outputs
<1>2. /\ DOMAIN trials' = Slots
      /\ \A q \in Slots :
           /\ DOMAIN trials'[q] = DOMAIN trials[q]
           /\ trials'[q] = [t \in DOMAIN trials'[q] |-> trials'[q][t]]
           /\ \A t \in DOMAIN trials[q] :
                \/ trials'[q][t] = trials[q][t]
                \/ trials[q][t] = "running" /\ trials'[q][t] = "cut"
  <2>1. PICK hit \in SUBSET RunningOf(batch[r]) : _cleanup_docker_for_tasks(hit)
    BY DEF Cleanup
  <2>2. \A q \in Slots : \A t \in DOMAIN trials[q] : <<q, t>> \in hit => trials[q][t] = "running"
    BY <2>1 DEF RunningOf
  <2> QED
    BY <2>1, <2>2 DEF _cleanup_docker_for_tasks
<1>3. TypeInv'
  BY <1>1, <1>2 DEF TypeInv, PCs
<1>4. Balance'
  BY <1>1 DEF Balance, Taken
<1>5. ASSUME NEW q \in Slots PROVE SlotOK(q)'
  <2>1. /\ TrialsOK(q) /\ HoldsOK(q) /\ TellsOK(q)
        /\ DOMAIN trials'[q] = DOMAIN trials[q]
        /\ trials'[q] = [t \in DOMAIN trials'[q] |-> trials'[q][t]]
        /\ \A t \in DOMAIN trials[q] :
             \/ trials'[q][t] = trials[q][t]
             \/ trials[q][t] = "running" /\ trials'[q][t] = "cut"
    BY <1>2 DEF IInv, SlotOK
  <2>2. /\ pc'[q] = "script" <=> pc[q] = "script"
        /\ pc'[q] \in {"idle", "done", "raised"} <=> pc[q] \in {"idle", "done", "raised"}
        /\ pc'[q] \in {"cleanup", "evaluate"} => pc[q] \in {"cleanup", "evaluate"}
        /\ AttemptsOf' = AttemptsOf
    BY <1>1 DEF TypeInv, AttemptsOf
  <2>3. TrialsOK(q)'
    <3>1. trials'[q] \in [DOMAIN trials'[q] -> States]
      BY <2>1 DEF TrialsOK, States
    <3> QED
      BY <1>1, <2>1, <2>2, <3>1 DEF TrialsOK
  <2>4. In(q, {"running"})' \subseteq In(q, {"running"})
    BY <2>1 DEF In
  <2>5. Cardinality(In(q, {"running"})) <= Concurrency
          => Cardinality(In(q, {"running"})') <= Concurrency
    BY <1>1, <2>1, <2>4, RunningIsFinite, FewerRun
  <2>6. Requested(q)' = Requested(q)
    BY <1>1 DEF Requested
  <2>7. HoldsOK(q)'
    BY <1>1, <2>1, <2>2, <2>4, <2>5, <2>6 DEF HoldsOK
  <2>8. \A d : Dirs(q, d)' = Dirs(q, d)
    BY <2>1 DEF Dirs, TrialsOf
  <2>9. TellsOK(q)'
    BY <1>1, <2>1, <2>2, <2>8 DEF TellsOK, Told
  <2> QED
    BY <2>3, <2>7, <2>9 DEF SlotOK
<1> QED
  BY <1>3, <1>4, <1>5 DEF IInv

(* The evaluator ends the rollout.                                          *)
LEMMA EvaluateKeeps ==
    ASSUME IInv, NEW r \in Slots, Evaluate(r)
    PROVE  IInv'
<1>1. /\ TypeInv /\ Balance /\ HoldsOK(r) /\ pc[r] = "evaluate" /\ RemoveTempDir(r)
      /\ kind' = kind /\ batch' = batch /\ available' = available /\ held' = held
  BY DEF IInv, SlotOK, Evaluate, pool
<1>2. \E e \in {"raised", "done"} : \E f, g :
        /\ pc' = [pc EXCEPT ![r] = e]
        /\ result' = [result EXCEPT ![r] = f] /\ score' = [score EXCEPT ![r] = g]
  BY DEF Evaluate
<1>3. TypeInv' /\ Balance'
  BY <1>1, <1>2 DEF TypeInv, PCs, RemoveTempDir, Balance, Taken
<1>4. pc'[r] \in {"raised", "done"} /\ held'[r] = 0 /\ trials'[r] = Nothing
  BY <1>1, <1>2 DEF TypeInv, HoldsOK, RemoveTempDir
<1>5. \A q \in Slots \ {r} : Untouched(q)
  BY <1>1, <1>2 DEF TypeInv, RemoveTempDir, Untouched
<1> QED
  BY <1>1, <1>3, <1>4, <1>5, GoneIsOK, OneSteps

(* The invariant is inductive.                                              *)
LEMMA StepInv == IInv /\ [Next]_vars => IInv'
<1> SUFFICES ASSUME IInv, [Next]_vars PROVE IInv'
  OBVIOUS
<1>1. CASE UNCHANGED vars
  <2>1. \A q \in Slots : Untouched(q) /\ kind' = kind
    BY <1>1 DEF vars, pool, outputs, Untouched
  <2>2. TypeInv' /\ Balance'
    BY <1>1 DEF vars, pool, outputs, IInv, TypeInv, Balance, Taken
  <2> QED
    BY <2>1, <2>2, UntouchedKeeps DEF IInv
<1>2. ASSUME NEW r \in Slots, NEW b \in SUBSET Tasks, Begin(r, b) PROVE IInv'
  BY <1>2, BeginKeeps
<1>3. ASSUME NEW r \in Slots, Rollout(r) PROVE IInv'
  BY <1>3, AcquireKeeps, StartKeeps, EndKeeps, ScriptKeeps, CleanupKeeps, EvaluateKeeps DEF Rollout
<1> QED
  BY <1>1, <1>2, <1>3 DEF Next

(* Hence it always holds.                                                   *)
LEMMA Invariant == Spec => []IInv
BY InitInv, StepInv, PTL DEF Spec

-----------------------------------------------------------------------------
(* The balance of the pool.                                                 *)

(* If no set R[q] is larger than h[q], their disjoint union is not larger   *)
(* than that of the intervals 1 .. h[q].                                    *)
LEMMA NoMoreThanHeld ==
    ASSUME NEW S, NEW R, NEW h \in [S -> Nat],
           \A q \in S : IsFiniteSet(R[q]) /\ Cardinality(R[q]) <= h[q],
           IsFiniteSet(UNION {{q} \X (1 .. h[q]) : q \in S})
    PROVE  Cardinality(UNION {{q} \X R[q] : q \in S})
             <= Cardinality(UNION {{q} \X (1 .. h[q]) : q \in S})
<1> DEFINE n == [q \in S |-> Cardinality(R[q])]
           g == [q \in S |-> CHOOSE f : f \in Surjection(1 .. n[q], R[q])]
           H == UNION {{q} \X (1 .. h[q]) : q \in S}
           D == UNION {{q} \X (1 .. n[q]) : q \in S}
           U == UNION {{q} \X R[q] : q \in S}
           F == [p \in D |-> <<p[1], g[p[1]][p[2]]>>]
<1>1. ASSUME NEW q \in S PROVE n[q] \in Nat /\ g[q] \in Surjection(1 .. n[q], R[q])
  <2>1. Cardinality(R[q]) \in Nat /\ ExistsBijection(1 .. Cardinality(R[q]), R[q])
    BY FS_CardinalityType
  <2>2. \E f : f \in Surjection(1 .. n[q], R[q])
    BY <2>1 DEF ExistsBijection, Bijection
  <2> QED
    BY <2>1, <2>2
<1>2. ASSUME NEW p, NEW q \in S, p \in {q} \X (1 .. n[q])
      PROVE  p \in D /\ p[1] = q /\ p[2] \in 1 .. n[q] /\ F[p] = <<q, g[q][p[2]]>>
  BY <1>2
<1> HIDE DEF n, g
<1>3. D \in SUBSET H
  <2>1. ASSUME NEW q \in S PROVE 1 .. n[q] \in SUBSET (1 .. h[q])
    <3>1. n[q] \in Nat /\ n[q] <= h[q] /\ h[q] \in Nat
      BY <1>1 DEF n
    <3> QED
      BY <3>1
  <2> QED
    BY <2>1
<1>4. F \in Surjection(D, U)
  <2>1. ASSUME NEW p \in D PROVE F[p] \in U
    <3>1. PICK q \in S : p \in {q} \X (1 .. n[q])
      OBVIOUS
    <3>2. g[q][p[2]] \in R[q]
      BY <1>1, <1>2, <3>1 DEF Surjection
    <3> QED
      BY <1>2, <3>1, <3>2
  <2>2. ASSUME NEW u \in U PROVE \E p \in D : F[p] = u
    <3>1. PICK q \in S : \E x \in R[q] : u = <<q, x>>
      OBVIOUS
    <3>2. PICK x \in R[q] : u = <<q, x>>
      BY <3>1
    <3>3. PICK i \in (1 .. n[q]) : g[q][i] = x
      BY <1>1 DEF Surjection
    <3>4. <<q, i>> \in {q} \X (1 .. n[q]) /\ <<q, i>>[2] = i
      OBVIOUS
    <3> QED
      BY <1>2, <3>2, <3>3, <3>4
  <2>3. F \in [D -> U]
    <3> HIDE DEF D, U
    <3> QED
      BY <2>1
  <2> HIDE DEF D, U, F
  <2> QED
    BY <2>1, <2>2, <2>3 DEF Surjection
<1> HIDE DEF D, H, U, F
<1>5. IsFiniteSet(H)
  BY DEF H
<1>6. IsFiniteSet(D) /\ Cardinality(D) <= Cardinality(H)
  BY <1>3, <1>5, FS_Subset
<1>7. IsFiniteSet(U) /\ Cardinality(U) <= Cardinality(D)
  BY <1>4, <1>6, FS_Surjection
<1>8. Cardinality(H) \in Nat /\ Cardinality(D) \in Nat /\ Cardinality(U) \in Nat
  BY <1>5, <1>6, <1>7, FS_CardinalityType
<1> QED
  BY <1>6, <1>7, <1>8 DEF H, U

(* Where a task has one attempt and the system stays within the cap, no     *)
(* script runs more trials than the slots its rollout holds.                *)
LEMMA RunsWithinHeld ==
    ASSUME IInv, kind \in Pooled \ {"terminalbench"}, Concurrency <= MaxTotal, NEW r \in Slots
    PROVE  Cardinality(In(r, {"running"})) <= held[r]
<1> DEFINE R == In(r, {"running"})
<1>1. TypeInv /\ TrialsOK(r) /\ HoldsOK(r) /\ held[r] \in Nat
  BY RolloutsAssumption DEF IInv, SlotOK, TypeInv
<1>2. CASE pc[r] # "script"
  <2>1. R = {}
    BY <1>1, <1>2 DEF HoldsOK
  <2> HIDE DEF R
  <2>2. Cardinality(R) = 0
    BY <2>1, FS_EmptySet
  <2> QED
    BY <1>1, <2>2 DEF R
<1>3. CASE pc[r] = "script"
  <2>1. Cardinality(R) <= Concurrency
    BY <1>1 DEF HoldsOK, Pooled, Harbor
  <2>2. R \in SUBSET (batch[r] \X AttemptsOf)
    BY <1>1, <1>3 DEF TrialsOK, In
  <2>3. Cardinality(R) <= Cardinality(batch[r])
    <3> HIDE DEF R
    <3>1. IsFiniteSet(batch[r] \X AttemptsOf)
          /\ Cardinality(batch[r] \X AttemptsOf) = Cardinality(batch[r])
      BY <1>1, BatchIsFinite
    <3> QED
      BY <2>2, <3>1, FS_Subset
  <2>4. Cardinality(R) \in Nat
    BY <1>1, RunningIsFinite
  <2>5. held[r] \in {Concurrency, Cardinality(batch[r]), MaxTotal}
    BY <1>1, <1>3, RequestedRange DEF HoldsOK
  <2> HIDE DEF R
  <2>6. Concurrency \in Nat /\ MaxTotal \in Nat /\ Cardinality(batch[r]) \in Nat
    BY <1>1, BatchIsFinite, RolloutsAssumption
  <2> QED
    BY <2>1, <2>3, <2>4, <2>5, <2>6 DEF R
<1> QED
  BY <1>2, <1>3

(* ConcurrencyPool.release caps what is given back at the total, so a       *)
(* double release would go unnoticed and a missed one would starve every    *)
(* later rollout: neither happens, on whatever way run_batch is left.  And  *)
(* the semaphore of the system and the slots taken from the pool, which no  *)
(* code relates, agree: with one attempt per task and a concurrency within  *)
(* the cap, all scripts together run no more than the slots taken.          *)
THEOREM PoolIsBalanced == Spec => []PoolAccounting
<1>1. IInv => PoolAccounting
  <2> SUFFICES ASSUME IInv PROVE PoolAccounting
    OBVIOUS
  <2>1. TypeInv /\ Balance /\ available \in Nat /\ MaxTotal \in Nat
    BY RolloutsAssumption DEF IInv, TypeInv
  <2>2. ASSUME kind \in Pooled \ {"terminalbench"}, Concurrency <= MaxTotal
        PROVE  Running(Slots) <= MaxTotal - available
    <3> DEFINE R == [q \in Slots |-> In(q, {"running"})]
    <3>1. \A q \in Slots : IsFiniteSet(R[q]) /\ Cardinality(R[q]) <= held[q]
      <4>1. ASSUME NEW q \in Slots
            PROVE  IsFiniteSet(In(q, {"running"})) /\ Cardinality(In(q, {"running"})) <= held[q]
        BY <2>1, <2>2, RunsWithinHeld, RunningIsFinite DEF IInv, SlotOK
      <4> QED
        BY <4>1
    <3>2. held \in [Slots -> Nat]
      BY <2>1 DEF TypeInv
    <3>3. IsFiniteSet(Taken) /\ Cardinality(Taken) \in Nat
      <4>1. IsFiniteSet(Slots \X (1 .. MaxTotal))
        <5>1. IsFiniteSet(1 .. MaxTotal)
          BY <2>1, FS_Interval
        <5> QED
          BY <5>1, RolloutsAssumption, FS_Product
      <4>2. ASSUME NEW x \in Taken PROVE x \in Slots \X (1 .. MaxTotal)
        <5>1. PICK q \in Slots : x \in {q} \X (1 .. held[q])
          BY DEF Taken
        <5>2. held[q] \in Nat /\ held[q] <= MaxTotal
          BY <2>1 DEF TypeInv
        <5> QED
          BY <2>1, <5>1, <5>2
      <4>3. Taken \in SUBSET (Slots \X (1 .. MaxTotal))
        BY <4>2
      <4> QED
        BY <4>1, <4>3, FS_Subset, FS_CardinalityType
    <3>4. UNION {{q} \X R[q] : q \in Slots} = UNION {{q} \X In(q, {"running"}) : q \in Slots}
      OBVIOUS
    <3> HIDE DEF R
    <3>5. Cardinality(UNION {{q} \X R[q] : q \in Slots}) <= Cardinality(Taken)
      BY <3>1, <3>2, <3>3, NoMoreThanHeld DEF Taken
    <3>6. Running(Slots) <= Cardinality(Taken)
      BY <3>4, <3>5 DEF Running
    <3>7. Cardinality(Taken) = MaxTotal - available
      BY <2>1, <3>3 DEF Balance
    <3> QED
      BY <3>6, <3>7
  <2> QED
    BY <2>1, <2>2 DEF PoolAccounting, Balance
<1> QED
  BY <1>1, Invariant, PTL

-----------------------------------------------------------------------------
(* The records.                                                             *)

(* Only its evaluator ends a rollout that is being evaluated.               *)
LEMMA EvaluatorEnds ==
    ASSUME IInv, Next, NEW r \in Slots, pc[r] = "evaluate", pc'[r] = "done"
    PROVE  Evaluate(r)
<1>1. pc \in [Slots -> PCs]
  BY DEF IInv, TypeInv
<1>2. ASSUME NEW q \in Slots, NEW b \in SUBSET Tasks, Begin(q, b) PROVE FALSE
  BY <1>1, <1>2 DEF Begin
<1>3. ASSUME NEW q \in Slots, NEW end, ScriptEnds(q, end) PROVE FALSE
  <2>1. pc[q] = "script" /\ \E s \in {"raised", "cleanup", "evaluate"} : pc' = [pc EXCEPT ![q] = s]
    BY <1>3 DEF ScriptEnds
  <2> QED
    BY <1>1, <2>1
<1>4. ASSUME NEW q \in Slots, NEW t \in DOMAIN trials[q], StartTrial(q, t) \/ EndTrial(q, t)
      PROVE  FALSE
  BY <1>4 DEF StartTrial, EndTrial
<1>5. ASSUME NEW q \in Slots, Acquire(q) \/ Cleanup(q) PROVE FALSE
  BY <1>1, <1>5 DEF Acquire, acquire, Cleanup
<1>6. ASSUME NEW q \in Slots \ {r}, Evaluate(q) PROVE FALSE
  <2>1. \E s : pc' = [pc EXCEPT ![q] = s]
    BY <1>6 DEF Evaluate
  <2> QED
    BY <1>1, <2>1
<1> QED
  BY <1>2, <1>3, <1>4, <1>5, <1>6 DEF Next, Rollout

(* An item's score where the trials have directories.                       *)
LEMMA HarborScore ==
    ASSUME NEW r, NEW d, NEW s, s = Fraction(Passed(r, d), Dirs(r, d))
    PROVE  /\ s # "none" => Passed(r, d) # {}
           /\ s = "all" => TrialsOf(r, d) \cap In(r, {"fail", "cut"}) = {}
<1>1. s # "none" => Passed(r, d) # {}
  BY DEF Fraction
<1>2. s = "all" => Passed(r, d) = Dirs(r, d)
  BY DEF Fraction
<1>3. Passed(r, d) = Dirs(r, d) => TrialsOf(r, d) \cap In(r, {"fail", "cut"}) = {}
  BY DEF Passed, Dirs, TrialsOf, In
<1> QED
  BY <1>1, <1>2, <1>3

(* And where a script writes the details of an item with one attempt.       *)
LEMMA DetailScore ==
    ASSUME IInv, NEW r \in Slots, pc[r] = "evaluate", kind # "terminalbench",
           NEW d, NEW X, NEW s, s = Detail(r, d, X), s # "none"
    PROVE  /\ d \in X /\ Passed(r, d) # {}
           /\ TrialsOf(r, d) \cap In(r, {"fail", "cut"}) = {}
<1>1. d \in X /\ Passed(r, d) # {}
  BY DEF Detail
<1>2. DOMAIN trials[r] = batch[r] \X {1}
  <2>1. AttemptsOf = {1}
    BY BatchIsFinite DEF IInv
  <2>2. DOMAIN trials[r] = batch[r] \X AttemptsOf
    BY DEF IInv, SlotOK, TrialsOK
  <2> QED
    BY <2>1, <2>2
<1>3. ASSUME NEW t \in TrialsOf(r, d), NEW u \in Passed(r, d) PROVE trials[r][t] = "pass"
  <2>1. t = <<d, 1>> /\ u = <<d, 1>>
    BY <1>2 DEF TrialsOf, Passed
  <2> QED
    BY <2>1 DEF Passed
<1> QED
  BY <1>1, <1>3 DEF In

(* What run_batch returned and what evaluate_batch returns, from different  *)
(* readings of files that a timeout or a crash may have cut short, agree in *)
(* every record: a score is earned by a trial of this rollout that passed,  *)
(* goes with an output where evaluator and system read the same file or one *)
(* the other's answer, and is full only if no attempt at the item failed,   *)
(* was killed or was left running; an output is that of an attempt of this  *)
(* rollout.                                                                 *)
THEOREM RecordsAreCoherent == Spec => RecordCoherent
<1> DEFINE Coherent(r, d, s, o) ==
      /\ s # "none" => /\ Passed(r, d) # {}
                       /\ kind \in {"text2sql", "adconfig", "react"} => o = "output"
      /\ o \in {"output", "maybe"} => Dirs(r, d) # {}
      /\ s = "all" => TrialsOf(r, d) \cap In(r, {"fail", "cut"}) = {}
<1>1. ASSUME IInv, Next, NEW r \in Slots, pc[r] = "evaluate", pc'[r] = "done"
      PROVE  \A d \in batch[r] : Coherent(r, d, score'[r][d], result[r][d])
  <2>1. Evaluate(r) /\ TypeInv /\ TrialsOK(r) /\ \A d \in batch[r] : Told(r, d)
    BY <1>1, EvaluatorEnds DEF IInv, SlotOK, TellsOK
  <2>2. PICK details \in (IF kind \in Harbor THEN {{}} ELSE SUBSET batch[r]),
             tn \in (IF kind \in Harbor THEN {FALSE} ELSE BOOLEAN),
             starts \in (IF RunsScript(r) THEN BOOLEAN ELSE {TRUE}) :
          LET scores == [d \in batch[r] |-> evaluate_batch(r, d, details, tn)]
              raises == ~starts \/ \E d \in batch[r] : scores[d] = "raise"
          IN  /\ score' = [score EXCEPT ![r] = IF raises THEN Nothing ELSE scores]
              /\ pc' = [pc EXCEPT ![r] = IF raises THEN "raised" ELSE "done"]
    BY <2>1 DEF Evaluate
  <2>3. /\ score'[r] = [d \in batch[r] |-> evaluate_batch(r, d, details, tn)]
        /\ \A d \in batch[r] : evaluate_batch(r, d, details, tn) # "raise"
    BY <1>1, <2>1, <2>2 DEF TypeInv
  <2>4. ASSUME NEW d \in batch[r] PROVE Coherent(r, d, score'[r][d], result[r][d])
    <3> DEFINE s == score'[r][d]
    <3>1. s = evaluate_batch(r, d, details, tn) /\ s # "raise" /\ Told(r, d)
      BY <2>1, <2>3
    <3> HIDE DEF s
    <3>2. CASE kind \in Harbor
      <4>1. s = Fraction(Passed(r, d), Dirs(r, d))
        BY <3>1, <3>2 DEF Harbor, evaluate_batch, _compute_avg_reward, _compute_pass_at_1
      <4> QED
        BY <3>1, <3>2, <4>1, HarborScore DEF s, Told, Harbor
    <3>3. CASE kind = "text2sql"
      <4>1. s = Detail(r, d, details \cap IF torn[r] THEN {} ELSE written[r])
        BY <3>1, <3>3 DEF evaluate_batch, Text2SQLScore
      <4>2. s # "none" => /\ Passed(r, d) # {} /\ d \in written[r] /\ ~torn[r]
                          /\ TrialsOf(r, d) \cap In(r, {"fail", "cut"}) = {}
        BY <1>1, <3>3, <4>1, DetailScore
      <4> QED
        BY <3>1, <3>3, <4>2 DEF Told, s
    <3>4. CASE kind = "adconfig"
      <4>1. s = Detail(r, d, details \cap written[r])
        BY <3>1, <3>4 DEF evaluate_batch, AdConfigScore
      <4>2. s # "none" => /\ Passed(r, d) # {} /\ d \in written[r]
                          /\ TrialsOf(r, d) \cap In(r, {"fail", "cut"}) = {}
        BY <1>1, <3>4, <4>1, DetailScore
      <4> QED
        BY <3>1, <3>4, <4>2 DEF Told, s
    <3>5. CASE kind = "react"
      <4>1. s # "none" => result[r][d] # "empty" /\ s = Detail(r, d, details)
        BY <3>1, <3>5 DEF evaluate_batch, AtomicFactScore
      <4>2. s # "none" => /\ Passed(r, d) # {}
                          /\ TrialsOf(r, d) \cap In(r, {"fail", "cut"}) = {}
        BY <1>1, <3>5, <4>1, DetailScore
      <4> QED
        BY <3>1, <3>5, <4>1, <4>2 DEF Told, s
    <3>6. CASE kind \in {"appworld", "rag_pipeline"}
      <4>1. s # "none" => \E X : s = Detail(r, d, X)
        BY <3>1, <3>6 DEF evaluate_batch, AppWorldScore, RagPipelineScore
      <4>2. s # "none" => /\ Passed(r, d) # {}
                          /\ TrialsOf(r, d) \cap In(r, {"fail", "cut"}) = {}
        BY <1>1, <3>6, <4>1, DetailScore
      <4> QED
        BY <3>1, <3>6, <4>2 DEF s, Told
    <3> QED
      BY <2>1, <3>2, <3>3, <3>4, <3>5, <3>6 DEF TypeInv, Kinds, Pooled, WithTimeout
  <2> QED
    BY <2>4
<1>2. IInv /\ [Next]_vars =>
        [\A r \in Slots : pc[r] = "evaluate" /\ pc'[r] = "done" =>
           \A d \in batch[r] :
             /\ score'[r][d] # "none" =>
                  /\ Passed(r, d) # {}
                  /\ kind \in {"text2sql", "adconfig", "react"} => result[r][d] = "output"
             /\ result[r][d] \in {"output", "maybe"} => Dirs(r, d) # {}
             /\ score'[r][d] = "all" => TrialsOf(r, d) \cap In(r, {"fail", "cut"}) = {}]_vars
  BY <1>1
<1> QED
  BY <1>2, Invariant, PTL DEF Spec, RecordCoherent
=============================================================================
