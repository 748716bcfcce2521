------------------------------ MODULE SubGoals -------------------------------
(***************************************************************************)
(* Dependency-aware execution of decomposed sub-goals                      *)
(* (src/orchestration/taskDecomposer.ts): normalizeSubGoalGraph cleans the *)
(* graph the model proposed, executeDecomposedSubGoals runs it in waves,   *)
(* and runBounded runs a wave with a fixed number of workers that share    *)
(* one index.                                                              *)
(*                                                                         *)
(* A sub-goal is its position in the graph; `sub-i', the id it gets when   *)
(* its own is taken, is the number i.  Texts, artifacts and validation     *)
(* hints are left out.                                                     *)
(***************************************************************************)
EXTENDS Integers, FiniteSets

CONSTANTS
  N,               \* the number of sub-goals
  Ids,             \* the ids a proposed graph may use
  maxConcurrency   \* as configured, before it is clamped

Goals == 1..N

ASSUME SubGoalsAssumption ==
  /\ N \in Nat
  /\ Goals \subseteq Ids
  /\ maxConcurrency \in Int

VARIABLES
  ids,      \* the id of each sub-goal after normalisation
  edges,    \* the dependencies after normalisation
  pc,       \* wave, batch or done
  pending,  \* the sub-goals without a result
  waiting,  \* sub-goals of the current batch no worker has taken
  running,  \* sub-goals a worker is executing
  batch,    \* the sub-goals of the current batch
  outcome,  \* how the execution of each sub-goal ended
  results   \* resultsById

subGoalVars == <<ids, edges, pc, pending, waiting, running, batch, outcome, results>>

Status == {"none", "SUCCESS", "FAILED", "SKIPPED"}

(***************************************************************************)
(* Ways to get this code wrong.                                            *)
(***************************************************************************)
SomePrerequisite(g) == \E d \in Ids : <<d, ids[g]>> \in edges /\ results[d] # "none"

KeepWaiting == UNCHANGED subGoalVars

(***************************************************************************)
(* normalizeSubGoalGraph: an id seen before is replaced by the fallback    *)
(* id; dependencies on unknown ids and on oneself are dropped.             *)
(***************************************************************************)
normalizedIds(given) ==
  {id \in [Goals -> Ids] :
     \A g \in Goals :
       id[g] = IF given[g] \in {id[h] : h \in 1..(g-1)} THEN g ELSE given[g]}

normalizedEdges(known, wanted) ==
  {e \in wanted : e[1] \in known /\ e[2] \in known /\ e[1] # e[2]}

boundedConcurrency(value) ==
  IF value < 1 THEN 1 ELSE IF value > 8 THEN 8 ELSE value

Workers == boundedConcurrency(maxConcurrency)

\* `pending' is keyed by id: of two sub-goals with one id the later is kept.
LastWithId(g) == \A h \in Goals : h > g => ids[h] # ids[g]

Init ==
  /\ \E given \in [Goals -> Ids] : ids \in normalizedIds(given)
  /\ \E wanted \in SUBSET (Ids \X Ids) : edges = normalizedEdges({ids[g] : g \in Goals}, wanted)
  /\ pc = "wave"
  /\ pending = {g \in Goals : LastWithId(g)}
  /\ waiting = {} /\ running = {} /\ batch = {}
  /\ outcome = [g \in Goals |-> "none"]
  /\ results = [i \in Ids |-> "none"]

(***************************************************************************)
(* One pass of the while loop.                                             *)
(***************************************************************************)
Ready(g) == \A d \in Ids : <<d, ids[g]>> \in edges => results[d] # "none"

dependenciesSucceeded(g) == \A d \in Ids : <<d, ids[g]>> \in edges => results[d] = "SUCCESS"

ready == {g \in pending : Ready(g)}

executable == {g \in ready : dependenciesSucceeded(g)}

Skipped(goals) ==
  [i \in Ids |-> IF \E g \in goals : ids[g] = i THEN "SKIPPED" ELSE results[i]]

\* No sub-goal can go on: a cycle.  Everything left is skipped.
SkipCycle ==
  /\ pc = "wave" /\ pending # {} /\ ready = {}
  /\ results' = Skipped(pending)
  /\ pc' = "done"
  /\ UNCHANGED <<ids, edges, pending, waiting, running, batch, outcome>>

\* runBounded starts its workers at once, each with the next sub-goal.
FirstTaken == {g \in executable : Cardinality({h \in executable : h < g}) < Workers}

StartWave ==
  /\ pc = "wave" /\ ready # {}
  /\ results' = Skipped(ready \ executable)
  /\ pending' = pending \ (ready \ executable)
  /\ batch' = executable
  /\ running' = FirstTaken
  /\ waiting' = executable \ FirstTaken
  /\ pc' = "batch"
  /\ UNCHANGED <<ids, edges, outcome>>

NextWaiting == {g \in waiting : \A h \in waiting : g <= h}

\* What is left for the workers when the one executing g takes its next.
TakeNext(g) == waiting \ NextWaiting

\* executeOneSubGoal returns; its worker takes the next sub-goal.
Finish(g) ==
  /\ pc = "batch" /\ g \in running
  /\ \E status \in {"SUCCESS", "FAILED"} : outcome' = [outcome EXCEPT ![g] = status]
  /\ running' = (running \ {g}) \cup (waiting \ TakeNext(g))
  /\ waiting' = TakeNext(g)
  /\ UNCHANGED <<ids, edges, pc, pending, batch, results>>

\* Every worker returned: the batch is recorded.
EndWave ==
  /\ pc = "batch" /\ running = {}
  /\ pending' = pending \ batch
  /\ results' = [i \in Ids |-> IF \E g \in batch : ids[g] = i
                               THEN outcome[CHOOSE g \in batch : ids[g] = i]
                               ELSE results[i]]
  /\ pc' = "wave"
  /\ UNCHANGED <<ids, edges, waiting, running, batch, outcome>>

Return ==
  /\ pc = "wave" /\ pending = {}
  /\ pc' = "done"
  /\ UNCHANGED <<ids, edges, pending, waiting, running, batch, outcome, results>>

Next == SkipCycle \/ StartWave \/ EndWave \/ Return \/ \E g \in Goals : Finish(g)

Spec == Init /\ [][Next]_subGoalVars

\* Every execution returns (executeDagThroughSandbox never throws, and the
\* sandbox bounds each operation), and so does the loop around them.
FairSpec == Spec /\ WF_subGoalVars(Next)

\* graph.subGoals.map(...): the answer for each position.
Answer(g) == results[ids[g]]
------------------------------------------------------------------------------
TypeOK ==
  /\ ids \in [Goals -> Ids]
  /\ edges \subseteq Ids \X Ids
  /\ pc \in {"wave", "batch", "done"}
  /\ pending \subseteq Goals /\ batch \subseteq Goals
  /\ waiting \subseteq batch /\ running \subseteq batch
  /\ outcome \in [Goals -> Status \ {"SKIPPED"}]
  /\ results \in [Ids -> Status]

(***************************************************************************)
(* `Dependent goals wait for prerequisites': whatever runs, or ever ran,   *)
(* has every prerequisite completed with SUCCESS, also when a prerequisite *)
(* fails or is skipped in the middle of a wave.                            *)
(***************************************************************************)
WaitsForPrerequisites ==
  \A g \in Goals : g \in running \/ outcome[g] # "none" => dependenciesSucceeded(g)

(***************************************************************************)
(* `Independent sub-goals can run in parallel up to the configured cap':   *)
(* never more workers than the clamped cap, and no idle worker while       *)
(* sub-goals wait.                                                         *)
(***************************************************************************)
WorkersWithinCap ==
  /\ Cardinality(running) <= 8 /\ Cardinality(running) <= Workers
  /\ waiting # {} => Cardinality(running) = Workers

(***************************************************************************)
(* `Partial failures ... do not hide successful siblings': in the answer   *)
(* a sub-goal is skipped only if some prerequisite did not succeed, and it *)
(* is reported with the outcome of its execution otherwise.  Needs ids     *)
(* that do not collide after normalisation.                                *)
(***************************************************************************)
OwnResult(g) ==
  \/ Answer(g) = "SKIPPED" /\ outcome[g] = "none" /\ ~dependenciesSucceeded(g)
  \/ Answer(g) = outcome[g] /\ outcome[g] # "none" /\ dependenciesSucceeded(g)

AnswersAreOwn ==
  pc = "done" /\ (\A g \in Goals : LastWithId(g)) => \A g \in Goals : OwnResult(g)

(***************************************************************************)
(* The waves are orderly: prerequisites come first, the workers keep the   *)
(* cap, and every sub-goal is answered with its own result                 *)
(* (executeDecomposedSubGoals, runBounded).                                *)
(***************************************************************************)
WavesAreOrderly == TypeOK /\ WaitsForPrerequisites /\ WorkersWithinCap /\ AnswersAreOwn

(***************************************************************************)
(* The loop ends for every graph, cyclic ones included.                    *)
(***************************************************************************)
Returns == <>(pc = "done")
==============================================================================
