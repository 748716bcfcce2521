---------------------------- MODULE SubGoalsProofs ---------------------------
(***************************************************************************)
(* Proofs about SubGoals for every number of sub-goals, every proposed     *)
(* graph, cyclic or not, and every configured concurrency.                 *)
(***************************************************************************)
EXTENDS SubGoals, FiniteSetTheorems, TLAPS

(***************************************************************************)
(* WavesAreOrderly is not inductive.  What it rests on: pending sub-goals  *)
(* have ids of their own and no result yet, so that a result, once         *)
(* recorded, is never overwritten; a batch is taken from what is pending   *)
(* and ready; and who is executing, waiting or through is never confused.  *)
(***************************************************************************)
PendingIsOpen ==
  /\ \A g \in pending : LastWithId(g)
  /\ pc # "done" => \A g \in pending : results[ids[g]] = "none"

BatchIsReady ==
  pc = "batch" => /\ batch \subseteq pending
                  /\ \A g \in batch : dependenciesSucceeded(g)

Executing == running \cup waiting

OutcomesFollowWorkers ==
  /\ pc # "batch" => running = {} /\ waiting = {}
  /\ running \cap waiting = {}
  /\ \A g \in Executing : outcome[g] = "none"
  /\ pc = "batch" => \A g \in batch \ Executing : outcome[g] # "none"
  /\ \A g \in pending : pc # "batch" \/ g \notin batch => outcome[g] = "none"

\* A sub-goal with a result of its own, for reasons that no later wave undoes.
Settled(g) ==
  \/ /\ Answer(g) = "SKIPPED" /\ outcome[g] = "none"
     /\ \E d \in Ids : <<d, ids[g]>> \in edges /\ results[d] \in {"FAILED", "SKIPPED"}
  \/ Answer(g) = outcome[g] /\ outcome[g] # "none" /\ dependenciesSucceeded(g)

SettledUnlessPending ==
  pc # "done" => \A g \in Goals \ pending : LastWithId(g) => Settled(g)

IndInv == /\ TypeOK
          /\ WaitsForPrerequisites
          /\ WorkersWithinCap
          /\ AnswersAreOwn
          /\ PendingIsOpen
          /\ BatchIsReady
          /\ OutcomesFollowWorkers
          /\ SettledUnlessPending

------------------------------------------------------------------------------
(***************************************************************************)
(* Counting workers.                                                       *)
(***************************************************************************)
\* boundedConcurrency clamps whatever is configured.
LEMMA WorkersRange == Workers \in 1..8
BY SubGoalsAssumption DEF Workers, boundedConcurrency

\* A set of naturals has a least element ...
LEMMA LeastNatural ==
  ASSUME NEW T \in SUBSET Nat, T # {}
  PROVE  \E m \in T : \A n \in T : m <= n
<1>1. \E m \in T : \A n \in T : ~(<<n, m>> \in OpToRel(<, Nat))
  BY WFMin, NatLessThanWellFounded
<1>2. ASSUME NEW m \in T, NEW n \in T, ~(<<n, m>> \in OpToRel(<, Nat))
      PROVE  m <= n
  <2>1. ~(n < m)
    BY <1>2 DEF OpToRel
  <2>2. QED
    BY <2>1
<1>3. QED
  BY <1>1, <1>2

\* ... and a set of sub-goals a last one.
LEMMA LastGoal ==
  ASSUME NEW T \in SUBSET Goals, T # {}
  PROVE  \E m \in T : \A n \in T : n <= m
<1> DEFINE U == {N - n : n \in T}
<1>1. U \in SUBSET Nat /\ U # {}
  <2>1. ASSUME NEW n \in T PROVE N - n \in Nat
    BY SubGoalsAssumption DEF Goals
  <2>2. PICK n \in T : TRUE
    OBVIOUS
  <2>3. N - n \in U
    OBVIOUS
  <2>4. QED
    BY <2>1, <2>3
<1>2. PICK u \in U : \A v \in U : u <= v
  BY <1>1, LeastNatural
<1>3. PICK m \in T : u = N - m
  OBVIOUS
<1>4. ASSUME NEW n \in T PROVE n <= m
  <2>1. u <= N - n
    BY <1>2
  <2>2. QED
    BY <1>3, <2>1, SubGoalsAssumption DEF Goals
<1>5. QED
  BY <1>4

\* Sets of sub-goals can be counted.
LEMMA GoalsFinite ==
  ASSUME NEW T \in SUBSET Goals
  PROVE  IsFiniteSet(T) /\ Cardinality(T) \in Nat
<1>1. IsFiniteSet(Goals)
  BY SubGoalsAssumption, FS_Interval DEF Goals
<1>2. IsFiniteSet(T)
  BY <1>1, FS_Subset
<1>3. QED
  BY <1>2, FS_CardinalityType

\* runBounded starts as many workers as the cap allows and there is work for.
LEMMA FirstTakenCount ==
  ASSUME TypeOK
  PROVE  /\ Cardinality(FirstTaken) <= Workers
         /\ executable \ FirstTaken # {} => Cardinality(FirstTaken) = Workers
<1> DEFINE X == executable
           F == FirstTaken
           Earlier(g) == {h \in X : h < g}
<1>1. X \in SUBSET Goals /\ F \in SUBSET X
  BY DEF TypeOK, executable, ready, FirstTaken
<1>2. \A g \in X : Earlier(g) \in SUBSET Goals
  BY <1>1
<1>3. \A g \in X : g \in F <=> Cardinality(Earlier(g)) < Workers
  BY DEF FirstTaken
<1> HIDE DEF X, F
<1>4. F \in SUBSET Goals
  BY <1>1
<1>5. Cardinality(F) \in Nat /\ IsFiniteSet(F)
  BY <1>4, GoalsFinite
<1>6. Cardinality(F) <= Workers
  <2>1. CASE F = {}
    BY <2>1, FS_EmptySet, WorkersRange
  <2>2. CASE F # {}
    <3>1. PICK m \in F : \A n \in F : n <= m
      BY <1>4, <2>2, LastGoal
    <3>2. Earlier(m) \in SUBSET Goals /\ m \in X
      BY <1>1, <1>2
    <3>3. F \in SUBSET (Earlier(m) \cup {m})
      BY <3>1, <1>1 DEF Goals
    <3>4. IsFiniteSet(Earlier(m)) /\ Cardinality(Earlier(m)) \in Nat
      BY <3>2, GoalsFinite
    <3>5. /\ IsFiniteSet(Earlier(m) \cup {m})
          /\ Cardinality(Earlier(m) \cup {m}) = Cardinality(Earlier(m)) + 1
      <4>1. m \notin Earlier(m)
        BY <3>2, <1>1 DEF Goals
      <4>2. QED
        BY <3>4, <4>1, FS_AddElement
    <3>6. Cardinality(F) <= Cardinality(Earlier(m) \cup {m})
      BY <3>3, <3>5, FS_Subset
    <3>7. Cardinality(Earlier(m)) < Workers
      BY <3>2, <1>3
    <3>8. QED
      BY <3>4, <3>5, <3>6, <3>7, <1>5, WorkersRange
  <2>3. QED
    BY <2>1, <2>2
<1>7. ASSUME X \ F # {} PROVE Cardinality(F) = Workers
  <2>1. X \ F \in SUBSET Nat
    BY <1>1 DEF Goals
  <2>2. PICK w \in X \ F : \A n \in X \ F : w <= n
    BY <1>7, <2>1, LeastNatural
  <2>3. Earlier(w) \in SUBSET F
    <3>1. ASSUME NEW h \in X, h < w PROVE h \in F
      <4>1. h \in Nat /\ w \in Nat
        BY <1>1 DEF Goals
      <4>2. ~(w <= h)
        BY <3>1, <4>1
      <4>3. QED
        BY <2>2, <4>2
    <3>2. QED
      BY <3>1
  <2>4. Cardinality(Earlier(w)) <= Cardinality(F)
    BY <2>3, <1>5, FS_Subset
  <2>5. ~(Cardinality(Earlier(w)) < Workers)
    BY <2>2, <1>3
  <2>6. Cardinality(Earlier(w)) \in Nat
    BY <2>2, <1>2, GoalsFinite
  <2>7. QED
    BY <2>4, <2>5, <2>6, <1>5, <1>6, WorkersRange
<1>8. QED
  BY <1>6, <1>7 DEF X, F

\* A worker takes exactly one sub-goal: the first that waits.
LEMMA NextWaitingIsOne ==
  ASSUME NEW w0 \in waiting, waiting \subseteq Goals
  PROVE  \E w \in waiting : NextWaiting = {w}
<1>1. PICK w \in waiting : \A h \in waiting : w <= h
  <2>1. waiting \in SUBSET Nat /\ waiting # {}
    BY DEF Goals
  <2>2. QED
    BY <2>1, LeastNatural
<1>2. NextWaiting = {w}
  <2>1. ASSUME NEW g \in waiting, g <= w PROVE g = w
    BY <1>1, <2>1 DEF Goals
  <2>2. w \in NextWaiting
    BY <1>1 DEF NextWaiting
  <2>3. ASSUME NEW g \in NextWaiting PROVE g \in waiting /\ g <= w
    BY DEF NextWaiting
  <2>4. QED
    BY <2>1, <2>2, <2>3
<1>3. QED
  BY <1>2

------------------------------------------------------------------------------
(***************************************************************************)
(* The inductive invariant, action by action.                              *)
(***************************************************************************)
\* normalizeSubGoalGraph hands the loop a graph on which nothing has run.
LEMMA InitInd == Init => IndInv
<1> SUFFICES ASSUME Init PROVE IndInv
  OBVIOUS
<1>1. ids \in [Goals -> Ids]
  BY DEF Init, normalizedIds
<1>2. edges \subseteq Ids \X Ids
  <2>1. PICK wanted \in SUBSET (Ids \X Ids) : edges = normalizedEdges({ids[g] : g \in Goals}, wanted)
    BY DEF Init
  <2>2. QED
    BY <2>1 DEF normalizedEdges
<1>3. TypeOK
  BY <1>1, <1>2 DEF Init, TypeOK, Status
<1>4. WaitsForPrerequisites /\ AnswersAreOwn /\ BatchIsReady /\ OutcomesFollowWorkers
  BY DEF Init, WaitsForPrerequisites, AnswersAreOwn, BatchIsReady, OutcomesFollowWorkers,
         Executing
<1>5. WorkersWithinCap
  BY WorkersRange, FS_EmptySet DEF Init, WorkersWithinCap
<1>6. PendingIsOpen
  BY <1>1, SubGoalsAssumption DEF Init, PendingIsOpen
<1>7. SettledUnlessPending
  BY DEF Init, SettledUnlessPending
<1>8. QED
  BY <1>3, <1>4, <1>5, <1>6, <1>7 DEF IndInv

\* A recorded result belongs to no pending sub-goal, so no wave overwrites it.
LEMMA RecordedIsNotPending ==
  ASSUME PendingIsOpen, pc # "done",
         NEW g \in pending, NEW d, results[d] # "none"
  PROVE  ids[g] # d
BY DEF PendingIsOpen

\* Two pending sub-goals, or a pending one and a settled one, have different ids.
LEMMA IdsTellApart ==
  ASSUME NEW g \in Goals, NEW h \in Goals, LastWithId(g), LastWithId(h), ids[g] = ids[h]
  PROVE  g = h
BY SubGoalsAssumption DEF LastWithId, Goals

(***************************************************************************)
(* What a wave does to results: those of open sub-goals may change, the    *)
(* recorded ones stay, and with them everything that was concluded from    *)
(* them.                                                                   *)
(***************************************************************************)
ResultsGrow == \A d \in Ids : results[d] # "none" => results'[d] = results[d]

\* Prerequisites that succeeded stay so while results are only added.
LEMMA GrowKeepsSuccess ==
  ASSUME ResultsGrow, ids' = ids, edges' = edges, NEW g, dependenciesSucceeded(g)
  PROVE  dependenciesSucceeded(g)'
BY DEF ResultsGrow, dependenciesSucceeded

\* A settled sub-goal stays settled while results are only added.
LEMMA GrowKeepsSettled ==
  ASSUME TypeOK, ResultsGrow, ids' = ids, edges' = edges,
         NEW g \in Goals, Settled(g), outcome'[g] = outcome[g]
  PROVE  Settled(g)'
<1>1. ids[g] \in Ids
  BY DEF TypeOK
<1>2. CASE Answer(g) = outcome[g] /\ outcome[g] # "none" /\ dependenciesSucceeded(g)
  <2>1. dependenciesSucceeded(g)'
    BY <1>2, GrowKeepsSuccess
  <2>2. Answer(g)' = Answer(g)
    BY <1>1, <1>2 DEF Answer, ResultsGrow
  <2>3. QED
    BY <1>2, <2>1, <2>2 DEF Settled
<1>3. CASE /\ Answer(g) = "SKIPPED" /\ outcome[g] = "none"
           /\ \E d \in Ids : <<d, ids[g]>> \in edges /\ results[d] \in {"FAILED", "SKIPPED"}
  <2>1. PICK d \in Ids : <<d, ids[g]>> \in edges /\ results[d] \in {"FAILED", "SKIPPED"}
    BY <1>3
  <2>2. results'[d] = results[d] /\ results'[ids[g]] = results[ids[g]]
    BY <1>1, <1>3, <2>1 DEF Answer, ResultsGrow
  <2>3. QED
    BY <1>3, <2>1, <2>2 DEF Settled, Answer
<1>4. QED
  BY <1>2, <1>3 DEF Settled

\* Skipping pending sub-goals records results only where there was none.
LEMMA SkippedGrows ==
  ASSUME TypeOK, PendingIsOpen, pc # "done",
         NEW T \in SUBSET pending, results' = Skipped(T)
  PROVE  /\ results' \in [Ids -> Status]
         /\ ResultsGrow
         /\ \A g \in T : results'[ids[g]] = "SKIPPED"
         /\ \A d \in Ids : results'[d] \in {results[d], "SKIPPED"}
         /\ \A d \in Ids : (\A g \in T : ids[g] # d) => results'[d] = results[d]
<1>1. \A d \in Ids : results'[d] = IF \E g \in T : ids[g] = d THEN "SKIPPED" ELSE results[d]
  BY DEF Skipped
<1>2. results' \in [Ids -> Status]
  BY DEF TypeOK, Skipped, Status
<1>3. ResultsGrow
  <2> SUFFICES ASSUME NEW d \in Ids, results[d] # "none"
               PROVE  results'[d] = results[d]
    BY DEF ResultsGrow
  <2>1. \A g \in T : ids[g] # d
    BY RecordedIsNotPending
  <2>2. QED
    BY <1>1, <2>1
<1>4. \A g \in T : ids[g] \in Ids
  BY DEF TypeOK
<1>5. QED
  BY <1>1, <1>2, <1>3, <1>4

\* A cycle is left: every pending sub-goal waits for one without a result.
LEMMA SkipCycleInd ==
  ASSUME IndInv, SkipCycle
  PROVE  IndInv'
<1> USE DEF IndInv
<1>1. /\ results' = Skipped(pending) /\ pc = "wave" /\ pc' = "done" /\ ready = {}
      /\ ids' = ids /\ edges' = edges /\ pending' = pending /\ waiting' = waiting
      /\ running' = running /\ batch' = batch /\ outcome' = outcome
  BY DEF SkipCycle
<1>2. /\ results' \in [Ids -> Status]
      /\ ResultsGrow
      /\ \A g \in pending : results'[ids[g]] = "SKIPPED"
      /\ \A d \in Ids : results'[d] \in {results[d], "SKIPPED"}
  BY <1>1, SkippedGrows
<1>3. TypeOK'
  BY <1>1, <1>2 DEF TypeOK
<1>4. WaitsForPrerequisites'
  <2> SUFFICES ASSUME NEW g \in Goals, g \in running \/ outcome[g] # "none"
               PROVE  dependenciesSucceeded(g)'
    BY <1>1 DEF WaitsForPrerequisites
  <2>1. dependenciesSucceeded(g)
    BY DEF WaitsForPrerequisites
  <2>2. QED
    BY <1>1, <1>2, <2>1, GrowKeepsSuccess
<1>5. WorkersWithinCap'
  BY <1>1 DEF WorkersWithinCap, Workers
<1>6. AnswersAreOwn'
  <2> SUFFICES ASSUME \A h \in Goals : LastWithId(h)', NEW g \in Goals
               PROVE  OwnResult(g)'
    BY DEF AnswersAreOwn
  <2>1. LastWithId(g)
    BY <1>1 DEF LastWithId
  <2>2. CASE g \in pending
    <3>1. PICK d \in Ids : <<d, ids[g]>> \in edges /\ results[d] = "none"
      BY <1>1, <2>2 DEF ready, Ready
    <3>2. ~dependenciesSucceeded(g)'
      BY <1>1, <1>2, <3>1 DEF dependenciesSucceeded
    <3>3. outcome[g] = "none"
      BY <1>1, <2>2 DEF OutcomesFollowWorkers
    <3>4. QED
      BY <1>1, <1>2, <2>2, <3>2, <3>3 DEF OwnResult, Answer
  <2>3. CASE g \notin pending
    <3>1. Settled(g)
      BY <1>1, <2>1, <2>3 DEF SettledUnlessPending
    <3>2. Settled(g)'
      BY <1>1, <1>2, <3>1, GrowKeepsSettled
    <3>3. QED
      BY <3>2 DEF Settled, OwnResult, dependenciesSucceeded
  <2>4. QED
    BY <2>2, <2>3
<1>7. PendingIsOpen'
  BY <1>1 DEF PendingIsOpen, LastWithId
<1>8. BatchIsReady' /\ SettledUnlessPending'
  BY <1>1 DEF BatchIsReady, SettledUnlessPending
<1>9. OutcomesFollowWorkers'
  BY <1>1 DEF OutcomesFollowWorkers, Executing
<1>10. QED
  BY <1>3, <1>4, <1>5, <1>6, <1>7, <1>8, <1>9

\* A wave starts: what cannot run is skipped, the rest is the batch.
LEMMA StartWaveInd ==
  ASSUME IndInv, StartWave
  PROVE  IndInv'
<1> DEFINE R == ready \ executable
<1> USE DEF IndInv
<1>1. /\ results' = Skipped(R) /\ pc = "wave" /\ pc' = "batch"
      /\ pending' = pending \ R /\ batch' = executable
      /\ running' = FirstTaken /\ waiting' = executable \ FirstTaken
      /\ ids' = ids /\ edges' = edges /\ outcome' = outcome
  BY DEF StartWave
<1>2. /\ ready \in SUBSET pending /\ executable \in SUBSET ready
      /\ FirstTaken \in SUBSET executable /\ R \in SUBSET pending
      /\ pending \in SUBSET Goals
  BY DEF ready, executable, FirstTaken, TypeOK
<1> HIDE DEF R
<1>3. /\ results' \in [Ids -> Status]
      /\ ResultsGrow
      /\ \A g \in R : results'[ids[g]] = "SKIPPED"
      /\ \A d \in Ids : (\A g \in R : ids[g] # d) => results'[d] = results[d]
  BY <1>1, <1>2, SkippedGrows
<1>4. TypeOK'
  BY <1>1, <1>2, <1>3 DEF TypeOK
<1>5. \A g \in executable : dependenciesSucceeded(g)'
  BY <1>1, <1>3, GrowKeepsSuccess DEF executable
<1>6. WaitsForPrerequisites'
  <2> SUFFICES ASSUME NEW g \in Goals, g \in FirstTaken \/ outcome[g] # "none"
               PROVE  dependenciesSucceeded(g)'
    BY <1>1 DEF WaitsForPrerequisites
  <2>1. CASE g \in FirstTaken
    BY <1>2, <1>5, <2>1
  <2>2. CASE outcome[g] # "none"
    <3>1. dependenciesSucceeded(g)
      BY <2>2 DEF WaitsForPrerequisites
    <3>2. QED
      BY <1>1, <1>3, <3>1, GrowKeepsSuccess
  <2>3. QED
    BY <2>1, <2>2
<1>7. WorkersWithinCap'
  <2>1. /\ Cardinality(FirstTaken) <= Workers
        /\ executable \ FirstTaken # {} => Cardinality(FirstTaken) = Workers
    BY FirstTakenCount
  <2>2. Cardinality(FirstTaken) \in Nat
    BY <1>2, GoalsFinite
  <2>3. QED
    BY <1>1, <2>1, <2>2, WorkersRange DEF WorkersWithinCap, Workers
<1>8. AnswersAreOwn'
  BY <1>1 DEF AnswersAreOwn
<1>9. PendingIsOpen'
  <2>1. ASSUME NEW g \in pending \ R
        PROVE  LastWithId(g)' /\ results'[ids[g]] = "none"
    <3>1. LastWithId(g) /\ results[ids[g]] = "none" /\ g \in Goals /\ ids[g] \in Ids
      BY <1>1, <1>2 DEF PendingIsOpen, TypeOK
    <3>2. \A h \in R : ids[h] # ids[g]
      <4> SUFFICES ASSUME NEW h \in R, ids[h] = ids[g] PROVE FALSE
        OBVIOUS
      <4>1. h \in Goals /\ LastWithId(h)
        BY <1>2 DEF PendingIsOpen
      <4>2. g = h
        BY <3>1, <4>1, IdsTellApart
      <4>3. QED
        BY <4>2
    <3>3. QED
      BY <1>1, <1>3, <3>1, <3>2 DEF LastWithId
  <2>2. QED
    BY <1>1, <2>1 DEF PendingIsOpen
<1>10. BatchIsReady'
  BY <1>1, <1>2, <1>5 DEF BatchIsReady, R
<1>11. OutcomesFollowWorkers'
  <2>1. \A g \in pending : outcome[g] = "none"
    BY <1>1 DEF OutcomesFollowWorkers
  <2>2. QED
    BY <1>1, <1>2, <2>1 DEF OutcomesFollowWorkers, Executing
<1>12. SettledUnlessPending'
  <2> SUFFICES ASSUME NEW g \in Goals, g \notin pending \ R, LastWithId(g)'
               PROVE  Settled(g)'
    BY <1>1 DEF SettledUnlessPending
  <2>1. LastWithId(g)
    BY <1>1 DEF LastWithId
  <2>2. CASE g \notin pending
    <3>1. Settled(g)
      BY <1>1, <2>1, <2>2 DEF SettledUnlessPending
    <3>2. QED
      BY <1>1, <1>3, <3>1, GrowKeepsSettled
  <2>3. CASE g \in R
    <3>1. g \in ready /\ ~dependenciesSucceeded(g)
      BY <2>3 DEF R, executable
    <3>2. PICK d \in Ids : <<d, ids[g]>> \in edges /\ results[d] # "SUCCESS"
      BY <3>1 DEF dependenciesSucceeded
    <3>3. results[d] # "none"
      BY <3>1, <3>2 DEF ready, Ready
    <3>4. results'[d] \in {"FAILED", "SKIPPED"}
      BY <1>3, <3>2, <3>3 DEF ResultsGrow, TypeOK, Status
    <3>5. outcome[g] = "none"
      BY <1>1, <1>2, <2>3 DEF OutcomesFollowWorkers
    <3>6. QED
      BY <1>1, <1>3, <2>3, <3>2, <3>4, <3>5 DEF Settled, Answer
  <2>4. QED
    BY <2>2, <2>3
<1>13. QED
  BY <1>4, <1>6, <1>7, <1>8, <1>9, <1>10, <1>11, <1>12

\* A worker is through with g and takes the next sub-goal, if one waits.
LEMMA FinishInd ==
  ASSUME IndInv, NEW g \in Goals, Finish(g)
  PROVE  IndInv'
<1> USE DEF IndInv
<1>1. /\ pc = "batch" /\ g \in running /\ pc' = pc
      /\ running' = (running \ {g}) \cup (waiting \ (waiting \ NextWaiting))
      /\ waiting' = waiting \ NextWaiting
      /\ ids' = ids /\ edges' = edges /\ pending' = pending /\ batch' = batch
      /\ results' = results
  BY DEF Finish, TakeNext
<1>2. PICK status \in {"SUCCESS", "FAILED"} : outcome' = [outcome EXCEPT ![g] = status]
  BY DEF Finish
<1>3. /\ outcome'[g] \in {"SUCCESS", "FAILED"}
      /\ \A h \in Goals : h # g => outcome'[h] = outcome[h]
  BY <1>2 DEF TypeOK
<1>4. /\ NextWaiting \in SUBSET waiting /\ waiting \in SUBSET batch
      /\ running \in SUBSET batch /\ batch \in SUBSET Goals /\ batch \in SUBSET pending
      /\ running \cap waiting = {}
  BY <1>1 DEF NextWaiting, TypeOK, BatchIsReady, OutcomesFollowWorkers
<1>5. running' = (running \ {g}) \cup NextWaiting
  BY <1>1, <1>4
<1>6. TypeOK'
  <2>1. outcome' \in [Goals -> Status \ {"SKIPPED"}]
    BY <1>2 DEF TypeOK, Status
  <2>2. QED
    BY <1>1, <1>4, <1>5, <2>1 DEF TypeOK
<1>7. \A h : dependenciesSucceeded(h)' <=> dependenciesSucceeded(h)
  BY <1>1 DEF dependenciesSucceeded
<1>8. WaitsForPrerequisites'
  <2> SUFFICES ASSUME NEW h \in Goals, h \in running' \/ outcome'[h] # "none"
               PROVE  dependenciesSucceeded(h)
    BY <1>7 DEF WaitsForPrerequisites
  <2>1. CASE h \in batch
    BY <1>1, <2>1 DEF BatchIsReady
  <2>2. CASE h \notin batch
    BY <1>1, <1>3, <1>4, <1>5, <2>2 DEF WaitsForPrerequisites
  <2>3. QED
    BY <2>1, <2>2
<1>9. WorkersWithinCap'
  <2>1. IsFiniteSet(running) /\ Cardinality(running) \in Nat
    BY <1>4, GoalsFinite
  <2>2. /\ IsFiniteSet(running \ {g})
        /\ Cardinality(running \ {g}) = Cardinality(running) - 1
    BY <1>1, <2>1, FS_RemoveElement
  <2>3. CASE waiting = {}
    <3>1. running' = running \ {g} /\ waiting' = {}
      BY <1>1, <1>4, <1>5, <2>3
    <3>2. QED
      BY <2>1, <2>2, <3>1, WorkersRange DEF WorkersWithinCap, Workers
  <2>4. CASE waiting # {}
    <3>1. PICK w \in waiting : NextWaiting = {w}
      BY <1>4, <2>4, NextWaitingIsOne
    <3>2. running' = (running \ {g}) \cup {w} /\ w \notin running \ {g}
      BY <1>4, <1>5, <3>1
    <3>3. Cardinality(running') = Cardinality(running)
      <4>1. Cardinality((running \ {g}) \cup {w}) = Cardinality(running \ {g}) + 1
        BY <2>2, <3>2, FS_AddElement
      <4>2. QED
        BY <2>1, <2>2, <3>2, <4>1
    <3>4. Cardinality(running) = Workers
      BY <2>4 DEF WorkersWithinCap
    <3>5. QED
      BY <3>3, <3>4, WorkersRange DEF WorkersWithinCap, Workers
  <2>5. QED
    BY <2>3, <2>4
<1>10. AnswersAreOwn'
  BY <1>1 DEF AnswersAreOwn
<1>11. PendingIsOpen'
  BY <1>1 DEF PendingIsOpen, LastWithId
<1>12. BatchIsReady'
  BY <1>1, <1>7 DEF BatchIsReady
<1>13. OutcomesFollowWorkers'
  <2>1. /\ running' \cap waiting' = {}
        /\ running' \cup waiting' = Executing \ {g}
    BY <1>1, <1>4, <1>5 DEF Executing
  <2>2. \A h \in Executing \ {g} : outcome'[h] = "none"
    BY <1>3, <1>4 DEF OutcomesFollowWorkers, Executing
  <2>3. \A h \in batch \ (Executing \ {g}) : outcome'[h] # "none"
    BY <1>1, <1>3, <1>4 DEF OutcomesFollowWorkers
  <2>4. \A h \in pending \ batch : outcome'[h] = "none"
    BY <1>1, <1>3, <1>4 DEF OutcomesFollowWorkers, TypeOK
  <2>5. QED
    BY <1>1, <2>1, <2>2, <2>3, <2>4 DEF OutcomesFollowWorkers, Executing
<1>14. SettledUnlessPending'
  <2> SUFFICES ASSUME NEW h \in Goals \ pending, LastWithId(h)'
               PROVE  Settled(h)'
    BY <1>1 DEF SettledUnlessPending
  <2>1. Settled(h)
    BY <1>1 DEF SettledUnlessPending, LastWithId
  <2>2. h # g
    BY <1>1, <1>4
  <2>3. QED
    BY <1>1, <1>3, <2>1, <2>2, GrowKeepsSettled DEF ResultsGrow
<1>15. QED
  BY <1>6, <1>8, <1>9, <1>10, <1>11, <1>12, <1>13, <1>14

\* Every worker returned: each sub-goal of the batch gets its own outcome.
LEMMA EndWaveInd ==
  ASSUME IndInv, EndWave
  PROVE  IndInv'
<1> USE DEF IndInv
<1>1. /\ pc = "batch" /\ running = {} /\ pc' = "wave" /\ pending' = pending \ batch
      /\ ids' = ids /\ edges' = edges /\ waiting' = waiting /\ running' = running
      /\ batch' = batch /\ outcome' = outcome
      /\ results' = [i \in Ids |-> IF \E g \in batch : ids[g] = i
                                   THEN outcome[CHOOSE g \in batch : ids[g] = i]
                                   ELSE results[i]]
  BY DEF EndWave
<1>2. /\ batch \in SUBSET pending /\ pending \in SUBSET Goals
      /\ \A g \in pending : LastWithId(g)
  BY <1>1 DEF BatchIsReady, TypeOK, PendingIsOpen
<1>3. waiting = {}
  BY <1>1, FS_EmptySet, WorkersRange DEF WorkersWithinCap
<1>4. \A g \in batch : outcome[g] # "none"
  BY <1>1, <1>3 DEF OutcomesFollowWorkers, Executing
<1>5. ASSUME NEW g \in batch PROVE results'[ids[g]] = outcome[g]
  <2> DEFINE h == CHOOSE k \in batch : ids[k] = ids[g]
  <2>1. h \in batch /\ ids[h] = ids[g]
    OBVIOUS
  <2>2. h = g
    BY <1>2, <2>1, IdsTellApart
  <2>3. ids[g] \in Ids
    BY <1>2 DEF TypeOK
  <2>4. QED
    BY <1>1, <2>2, <2>3
<1>6. \A d \in Ids : (\A g \in batch : ids[g] # d) => results'[d] = results[d]
  BY <1>1
<1>7. ResultsGrow
  <2> SUFFICES ASSUME NEW d \in Ids, results[d] # "none"
               PROVE  results'[d] = results[d]
    BY DEF ResultsGrow
  <2>1. \A g \in batch : ids[g] # d
    BY <1>1, <1>2, RecordedIsNotPending
  <2>2. QED
    BY <1>6, <2>1
<1>8. TypeOK'
  <2>1. results' \in [Ids -> Status]
    <3>1. ASSUME NEW d \in Ids PROVE results'[d] \in Status
      <4>1. CASE \E g \in batch : ids[g] = d
        BY <1>2, <1>5, <4>1 DEF TypeOK
      <4>2. CASE ~ \E g \in batch : ids[g] = d
        BY <1>6, <4>2 DEF TypeOK
      <4>3. QED
        BY <4>1, <4>2
    <3>2. QED
      BY <1>1, <3>1
  <2>2. QED
    BY <1>1, <2>1 DEF TypeOK
<1>9. \A g : dependenciesSucceeded(g) => dependenciesSucceeded(g)'
  BY <1>1, <1>7, GrowKeepsSuccess
<1>10. WaitsForPrerequisites'
  BY <1>1, <1>9 DEF WaitsForPrerequisites
<1>11. WorkersWithinCap'
  BY <1>1 DEF WorkersWithinCap, Workers
<1>12. AnswersAreOwn' /\ BatchIsReady'
  BY <1>1 DEF AnswersAreOwn, BatchIsReady
<1>13. PendingIsOpen'
  <2>1. ASSUME NEW g \in pending \ batch
        PROVE  LastWithId(g)' /\ results'[ids[g]] = "none"
    <3>1. LastWithId(g) /\ results[ids[g]] = "none" /\ g \in Goals /\ ids[g] \in Ids
      BY <1>1, <1>2 DEF PendingIsOpen, TypeOK
    <3>2. \A h \in batch : ids[h] # ids[g]
      BY <1>2, <3>1, IdsTellApart
    <3>3. QED
      BY <1>1, <1>6, <3>1, <3>2 DEF LastWithId
  <2>2. QED
    BY <1>1, <2>1 DEF PendingIsOpen
<1>14. OutcomesFollowWorkers'
  BY <1>1, <1>3 DEF OutcomesFollowWorkers, Executing
<1>15. SettledUnlessPending'
  <2> SUFFICES ASSUME NEW g \in Goals, g \notin pending \ batch, LastWithId(g)'
               PROVE  Settled(g)'
    BY <1>1 DEF SettledUnlessPending
  <2>1. CASE g \in batch
    <3>1. dependenciesSucceeded(g)
      BY <1>1, <2>1 DEF BatchIsReady
    <3>2. QED
      BY <1>1, <1>4, <1>5, <1>9, <2>1, <3>1 DEF Settled, Answer
  <2>2. CASE g \notin pending
    <3>1. Settled(g)
      BY <1>1, <2>2 DEF SettledUnlessPending, LastWithId
    <3>2. QED
      BY <1>1, <1>7, <3>1, GrowKeepsSettled
  <2>3. QED
    BY <2>1, <2>2
<1>16. QED
  BY <1>8, <1>10, <1>11, <1>12, <1>13, <1>14, <1>15

\* The loop is left with nothing pending: every answer is already settled.
LEMMA ReturnInd ==
  ASSUME IndInv, Return
  PROVE  IndInv'
<1> USE DEF IndInv
<1>1. /\ pc = "wave" /\ pending = {} /\ pc' = "done" /\ ids' = ids /\ edges' = edges
      /\ pending' = pending /\ waiting' = waiting /\ running' = running /\ batch' = batch
      /\ outcome' = outcome /\ results' = results
  BY DEF Return
<1>2. TypeOK'
  BY <1>1 DEF TypeOK
<1>3. WaitsForPrerequisites'
  BY <1>1 DEF WaitsForPrerequisites, dependenciesSucceeded
<1>4. WorkersWithinCap'
  BY <1>1 DEF WorkersWithinCap, Workers
<1>5. AnswersAreOwn'
  <2> SUFFICES ASSUME \A h \in Goals : LastWithId(h)', NEW g \in Goals
               PROVE  OwnResult(g)'
    BY DEF AnswersAreOwn
  <2>1. Settled(g)
    BY <1>1 DEF SettledUnlessPending, LastWithId
  <2>2. QED
    BY <1>1, <2>1 DEF Settled, OwnResult, dependenciesSucceeded, Answer
<1>6. PendingIsOpen' /\ BatchIsReady' /\ SettledUnlessPending'
  BY <1>1 DEF PendingIsOpen, BatchIsReady, SettledUnlessPending
<1>7. OutcomesFollowWorkers'
  BY <1>1 DEF OutcomesFollowWorkers, Executing
<1>8. QED
  BY <1>2, <1>3, <1>4, <1>5, <1>6, <1>7

\* The inductive invariant is preserved by every step.
LEMMA NextInd == IndInv /\ [Next]_subGoalVars => IndInv'
<1> SUFFICES ASSUME IndInv, [Next]_subGoalVars PROVE IndInv'
  OBVIOUS
<1>1. CASE UNCHANGED subGoalVars
  <2> USE <1>1 DEF IndInv, subGoalVars
  <2>1. TypeOK' /\ WorkersWithinCap' /\ OutcomesFollowWorkers'
    BY DEF TypeOK, WorkersWithinCap, Workers, OutcomesFollowWorkers, Executing
  <2>2. WaitsForPrerequisites' /\ BatchIsReady' /\ PendingIsOpen'
    BY DEF WaitsForPrerequisites, BatchIsReady, PendingIsOpen, dependenciesSucceeded, LastWithId
  <2>3. AnswersAreOwn'
    BY DEF AnswersAreOwn, OwnResult, Answer, dependenciesSucceeded, LastWithId
  <2>4. SettledUnlessPending'
    BY DEF SettledUnlessPending, Settled, Answer, dependenciesSucceeded, LastWithId
  <2>5. QED
    BY <2>1, <2>2, <2>3, <2>4
<1>2. QED
  BY <1>1, SkipCycleInd, StartWaveInd, FinishInd, EndWaveInd, ReturnInd DEF Next

\* The inductive invariant holds in every reachable state.
LEMMA Inductive == Spec => []IndInv
BY InitInd, NextInd, PTL DEF Spec

------------------------------------------------------------------------------
(***************************************************************************)
(* However long the sub-goals take and whichever of them fail,             *)
(* prerequisites come first, the workers keep the cap without idling, and  *)
(* every sub-goal is answered with its own result, for every graph and     *)
(* every configured concurrency (executeDecomposedSubGoals, runBounded).   *)
(***************************************************************************)
THEOREM WavesCorrect == Spec => []WavesAreOrderly
<1>1. IndInv => WavesAreOrderly
  BY DEF IndInv, WavesAreOrderly
<1>2. QED
  BY <1>1, Inductive, PTL

(***************************************************************************)
(* resultsById is written once per sub-goal: a later wave, or the skipping *)
(* of a cycle, never overwrites a result that is already recorded, so a    *)
(* failure cannot hide a success.                                          *)
(***************************************************************************)
RecordedResultsStay == [][ResultsGrow]_subGoalVars

\* A recorded result is never written again (resultsById in executeDecomposedSubGoals).
THEOREM ResultsNeverOverwritten == Spec => RecordedResultsStay
<1>1. IndInv /\ [Next]_subGoalVars => [ResultsGrow]_subGoalVars
  <2> SUFFICES ASSUME IndInv, Next PROVE ResultsGrow
    OBVIOUS
  <2> USE DEF IndInv
  <2>1. CASE SkipCycle
    BY <2>1, SkippedGrows DEF SkipCycle
  <2>2. CASE StartWave
    <3>1. ready \ executable \in SUBSET pending
      BY DEF ready
    <3>2. QED
      BY <2>2, <3>1, SkippedGrows DEF StartWave
  <2>3. CASE EndWave
    <3> SUFFICES ASSUME NEW d \in Ids, results[d] # "none"
                 PROVE  results'[d] = results[d]
      BY DEF ResultsGrow
    <3>1. \A g \in batch : ids[g] # d
      BY <2>3, RecordedIsNotPending DEF EndWave, BatchIsReady
    <3>2. QED
      BY <2>3, <3>1 DEF EndWave
  <2>4. CASE Return \/ \E g \in Goals : Finish(g)
    BY <2>4 DEF Return, Finish, ResultsGrow
  <2>5. QED
    BY <2>1, <2>2, <2>3, <2>4 DEF Next
<1>2. QED
  BY <1>1, Inductive, PTL DEF Spec, RecordedResultsStay
==============================================================================
