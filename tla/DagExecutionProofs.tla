------------------------- MODULE DagExecutionProofs -------------------------
(***************************************************************************)
(* Proofs about DagExecution, for every set of jobs, every plan, every DAG *)
(* and every budget: what may still happen once a job was interrupted, or  *)
(* was denied something; that the compiler makes a valid DAG of every plan *)
(* it does not refuse; that what is executed follows the plan; and that a  *)
(* validated job is done.                                                  *)
(***************************************************************************)
EXTENDS DagExecution, FiniteSetTheorems, SequenceTheorems, TLAPS

Procs == [st : {"none", "running", "ended"}, timedOut : BOOLEAN,
          answer : {"none", "timeout"} \cup ExitCodes]

\* The child process of the command under way.
ProcOk == proc \in Procs

\* The signal is looked at again when the sandbox is asked, so an interrupt
\* between the executor's check and the call is not missed (operate).
LEMMA AbortDenies ==
  ASSUME NEW op, aborted
  PROVE  operate(op) # Runs /\ operate(op) # Succeeded
<1>1. operate(op).status = "DENIED"
  BY DEF operate, Denied
<1>2. Runs.status = "RUNS" /\ Succeeded.status = "SUCCEEDED"
  BY DEF Runs, Succeeded
<1>3. QED
  BY <1>1, <1>2

\* At first there is no child process.
LEMMA ProcInit == Init => ProcOk
BY DEF Init, SandboxInit, NoProc, Procs, ProcOk

\* Timer, end and abort of the child keep its record well formed.
LEMMA ProcNext == ProcOk /\ [Next]_vars => ProcOk'
<1> SUFFICES ASSUME proc \in Procs, [Next]_vars PROVE proc' \in Procs
  BY DEF ProcOk
<1>1. CASE UNCHANGED proc
  BY <1>1
<1>2. CASE Operate
  <2>1. proc' = Spawned \/ proc' = proc
    BY <1>2 DEF Operate
  <2>2. Spawned \in Procs
    BY DEF Spawned, Procs
  <2>3. QED
    BY <2>1, <2>2
<1>3. CASE Timer
  BY <1>3 DEF Timer, TimerFires, Procs
<1>4. CASE Child
  BY <1>4 DEF Child, ChildEnds, Procs, ExitCodes
<1>5. CASE Abort
  BY <1>5 DEF Abort, AbortHandler, Procs, ExitCodes
<1>6. QED
  BY <1>1, <1>2, <1>3, <1>4, <1>5
  DEF Next, Step, vars, sandboxVars, Review, Compile, StartInvalid, Start, EndExecution,
      StopAborted, SkipBlocked, SimulateNode, RunWithoutTool, CallTool, ToolRefuses, EndCommand,
      Validate, HealPassed, HealAborted, RequestDecision, GiveUp, OutOfIterations, Retry,
      AskRepair, BeginAttempt, NoProposal, Propose, ApplyRepair, ApplyThrows, NotApplied

\* Only a tool call and the application of a repair have an effect.
LEMMA EffectSteps ==
  ASSUME ProcOk, [Next]_vars
  PROVE  NoEffect \/ Operate \/ ApplyRepair
<1> USE DEF ProcOk
<1>1. CASE Timer
  BY <1>1 DEF Timer, TimerFires, Procs, NoEffect
<1>2. CASE Child
  BY <1>2 DEF Child, ChildEnds, Procs, NoEffect
<1>3. CASE Abort
  BY <1>3 DEF Abort, AbortHandler, Procs, NoEffect
<1>4. CASE UNCHANGED <<files, proc>>
  BY <1>4 DEF NoEffect
<1>5. QED
  BY <1>1, <1>2, <1>3, <1>4
  DEF Next, Step, vars, sandboxVars, Review, Compile, StartInvalid, Start, EndExecution,
      StopAborted, SkipBlocked, SimulateNode, RunWithoutTool, CallTool, ToolRefuses, EndCommand,
      Validate, HealPassed, HealAborted, RequestDecision, GiveUp, OutOfIterations, Retry,
      AskRepair, BeginAttempt, NoProposal, Propose, ApplyThrows, NotApplied

(***************************************************************************)
(* After an interrupt no file is written and no command is started,        *)
(* wherever it falls: between two nodes, between the executor's check and  *)
(* the tool call, during a command, or while a repair is applied           *)
(* (sandboxExecutor.ts, sandbox/index.ts).                                 *)
(***************************************************************************)
THEOREM AbortCorrect == Spec => NothingAfterAbort
<1>1. ProcOk /\ [Next]_vars => [aborted => NoEffect]_vars
  <2> SUFFICES ASSUME ProcOk, [Next]_vars, aborted PROVE NoEffect
    OBVIOUS
  <2>1. CASE Operate
    <3>1. operate(Op) # Runs /\ ~Writes(Op)
      BY AbortDenies DEF Writes
    <3>2. files' = files /\ proc' = proc
      BY <2>1, <3>1 DEF Operate
    <3>3. QED
      BY <3>2 DEF NoEffect
  <2>2. CASE ApplyRepair
    BY <2>2, AbortDenies DEF ApplyRepair
  <2>3. QED
    BY <2>1, <2>2, EffectSteps
<1>2. QED
  BY <1>1, ProcInit, ProcNext, PTL DEF Spec, NothingAfterAbort

-----------------------------------------------------------------------------
(***************************************************************************)
(* A denial.  It is always recorded as a failure, never as a node that was *)
(* skipped, so that the healing loop finds it at the root of what failed   *)
(* and asks for a decision; a new execution begins only where nothing was  *)
(* denied.                                                                 *)
(***************************************************************************)
DeniedFails(r) == r.code = "PERMISSION_DENIED" => r.status = "FAILED"

\* Where a job rests once an execution was denied something.
Resting == {"validate", "heal", "done", "threw", "rejected", "miscompiled"}

DenialInv ==
  /\ ProcOk
  /\ \A n \in DOMAIN results : DeniedFails(results[n])
  /\ \A n \in DOMAIN run.results : DeniedFails(run.results[n])
  /\ WasDenied => pc \in Resting

\* What the simulator, the sandbox and the tool layer make of a node.
LEMMA NodeResults ==
  /\ \A d, node, opt, res : DeniedFails(executeNode(d, node, opt, res))
  /\ \A d, node, res : DeniedFails(resultWithoutTool(d, node, res))
  /\ \A r : DeniedFails(nodeResultFromOperation(r))
  /\ \A code : DeniedFails(Result("FAILED", code))
  /\ DeniedFails(Result("SKIPPED", "DEPENDENCY_FAILED"))
  /\ DeniedFails(Result("SKIPPED", "ABORTED"))
<1>1. \A status, code : Result(status, code).status = status /\ Result(status, code).code = code
  BY DEF Result
<1>2. ASSUME NEW d, NEW node, NEW opt, NEW res PROVE DeniedFails(executeNode(d, node, opt, res))
  BY <1>1 DEF executeNode, injectedOutcome, DeniedFails
<1>3. ASSUME NEW d, NEW node, NEW res PROVE DeniedFails(resultWithoutTool(d, node, res))
  BY <1>1 DEF resultWithoutTool, DeniedFails
<1>4. ASSUME NEW r PROVE DeniedFails(nodeResultFromOperation(r))
  BY <1>1 DEF nodeResultFromOperation, DeniedFails
<1>5. QED
  BY <1>1, <1>2, <1>3, <1>4 DEF DeniedFails

\* A result is recorded among the others.
LEMMA RecordKeeps ==
  ASSUME \A n \in DOMAIN results : DeniedFails(results[n]), NEW r, DeniedFails(r), Record(r)
  PROVE  \A n \in DOMAIN results' : DeniedFails(results'[n])
BY DEF Record, Recorded

\* A denial is a root failure that needs a decision.
LEMMA DenialNeedsDecision ==
  ASSUME DenialInv, WasDenied PROVE decisionFailures(dag, run) # {}
<1>1. PICK n \in DOMAIN run.results : run.results[n].code = "PERMISSION_DENIED"
  BY DEF WasDenied
<1>2. run.results[n].status = "FAILED"
  BY <1>1 DEF DenialInv, DeniedFails
<1>3. Class(run, n) = "PERMISSION"
  BY <1>1 DEF Class, classifyError
<1>4. n \in decisionFailures(dag, run)
  BY <1>2, <1>3 DEF decisionFailures, rootActionableFailures, classifyExecutionFailures, Blocking
<1>5. QED
  BY <1>4

\* Nothing has been executed.
LEMMA DenialInit == Init => DenialInv
<1> SUFFICES ASSUME Init PROVE DenialInv
  OBVIOUS
<1>1. DOMAIN results = {} /\ DOMAIN run.results = {}
  BY DEF Init, NoRun
<1>2. QED
  BY <1>1, ProcInit DEF DenialInv, WasDenied

\* The steps of an execution record results; its end makes them the run.
LEMMA DenialNext == DenialInv /\ [Next]_vars => DenialInv'
<1> SUFFICES ASSUME DenialInv, [Next]_vars PROVE DenialInv'
  OBVIOUS
<1> DEFINE Good(res) == \A n \in DOMAIN res : DeniedFails(res[n])
<1>1. ProcOk'
  BY ProcNext DEF DenialInv
<1>2. ASSUME Good(results'), run' = run, WasDenied => pc' \in Resting PROVE DenialInv'
  BY <1>1, <1>2 DEF DenialInv, WasDenied
<1>3. ASSUME results' = results \/ Good(results'), run'.results = results', pc' \in Resting
      PROVE  DenialInv'
  BY <1>1, <1>3 DEF DenialInv, WasDenied
<1>4. ASSUME NEW r, DeniedFails(r), Record(r), run' = run, pc \notin Resting PROVE DenialInv'
  BY <1>2, <1>4, RecordKeeps DEF DenialInv
<1>5. ASSUME results' = results, run' = run, pc \notin Resting \/ pc' \in Resting PROVE DenialInv'
  BY <1>2, <1>5 DEF DenialInv
<1>6. CASE \/ Review \/ Compile \/ CallTool \/ NoProposal \/ Propose \/ ApplyRepair \/ ApplyThrows
           \/ NotApplied
  <2>1. results' = results /\ run' = run /\ pc \in {"review", "compile", "node", "repair", "apply"}
    BY <1>6 DEF Review, Compile, CallTool, NoProposal, Propose, ApplyRepair, ApplyThrows,
                NotApplied, Settle
  <2>2. QED
    BY <1>5, <2>1 DEF Resting
<1>7. CASE Validate \/ HealPassed \/ HealAborted \/ RequestDecision \/ GiveUp \/ OutOfIterations
  <2>1. results' = results /\ run' = run /\ pc' \in {"heal", "done"}
    BY <1>7 DEF Validate, HealPassed, HealAborted, RequestDecision, GiveUp, OutOfIterations, Settle
  <2>2. QED
    BY <1>5, <2>1 DEF Resting
<1>8. CASE Timer \/ Child \/ Abort \/ UNCHANGED vars
  <2>1. results' = results /\ run' = run /\ pc' = pc
    BY <1>8 DEF Timer, Child, Abort, vars, execVars
  <2>2. QED
    BY <1>5, <2>1
<1>9. CASE Start
  <2>1. results' = << >> /\ run' = run /\ pc = "start"
    BY <1>9 DEF Start
  <2>2. DOMAIN results' = {}
    BY <2>1
  <2>3. ~WasDenied
    BY <2>1 DEF DenialInv, Resting
  <2>4. QED
    BY <1>2, <2>1, <2>2, <2>3
<1>10. CASE StartInvalid
  <2>1. results' = results /\ run' = InvalidRun
    BY <1>10 DEF StartInvalid, Ended
  <2>2. \A n \in DOMAIN InvalidRun.results : InvalidRun.results[n].code = "DAG_VALIDATION_FAILED"
    BY DEF InvalidRun
  <2>3. ~WasDenied' /\ \A n \in DOMAIN run'.results : DeniedFails(run'.results[n])
    BY <2>1, <2>2 DEF WasDenied, DeniedFails
  <2>4. QED
    BY <1>1, <2>1, <2>3 DEF DenialInv
<1>11. CASE EndExecution \/ StopAborted
  <2>1. run'.results = results' /\ pc' \in {"validate", "heal"}
    BY <1>11 DEF EndExecution, StopAborted, Ended, AfterExecution
  <2>2. Good(results')
    BY <1>11, NodeResults DEF EndExecution, StopAborted, appendAbortedRemainder, DenialInv
  <2>3. QED
    BY <1>3, <2>1, <2>2 DEF Resting
<1>12. CASE SkipBlocked \/ SimulateNode \/ RunWithoutTool \/ ToolRefuses \/ EndCommand
  <2>1. run' = run /\ pc \in {"node", "simulate", "tool", "command"}
    BY <1>12 DEF SkipBlocked, SimulateNode, RunWithoutTool, ToolRefuses, EndCommand, Ready, AtNode,
                 InLoop
  <2>2. \E r : DeniedFails(r) /\ Record(r)
    BY <1>12, NodeResults DEF SkipBlocked, SimulateNode, RunWithoutTool, ToolRefuses, EndCommand
  <2>3. QED
    BY <1>4, <2>1, <2>2 DEF Resting
<1>13. CASE Operate
  <2>1. run' = run /\ pc = "tool"
    BY <1>13 DEF Operate
  <2>2. results' = results \/ \E r : DeniedFails(r) /\ Record(r)
    BY <1>13, NodeResults DEF Operate
  <2>3. QED
    BY <1>4, <1>5, <2>1, <2>2 DEF Resting
<1>14. CASE Retry \/ AskRepair
  <2>1. results' = results /\ run' = run /\ decisionFailures(dag, run) = {}
    BY <1>14 DEF Retry, AskRepair, BeginAttempt, MayHeal
  <2>2. ~WasDenied
    BY <2>1, DenialNeedsDecision
  <2>3. QED
    BY <1>2, <2>1, <2>2 DEF DenialInv
<1>15. QED
  BY <1>6, <1>7, <1>8, <1>9, <1>10, <1>11, <1>12, <1>13, <1>14 DEF Next, Step

(***************************************************************************)
(* Once an execution was denied something, by the approval, the policy or  *)
(* the sandbox, nothing is written and no command is started in what       *)
(* remains of the job: healing asks for a decision instead                 *)
(* (validationHealing.ts, decisionFailures).                               *)
(***************************************************************************)
THEOREM DenialCorrect == Spec => NoEffectAfterDenial
<1>1. DenialInv /\ [Next]_vars => [WasDenied => NoEffect]_vars
  <2> SUFFICES ASSUME DenialInv, [Next]_vars, WasDenied PROVE NoEffect
    OBVIOUS
  <2>1. pc \in Resting /\ ProcOk
    BY DEF DenialInv
  <2>2. ~Operate /\ ~ApplyRepair
    BY <2>1 DEF Operate, ApplyRepair, Resting
  <2>3. QED
    BY <2>1, <2>2, EffectSteps
<1>2. QED
  BY <1>1, DenialInit, DenialNext, PTL DEF Spec, NoEffectAfterDenial

-----------------------------------------------------------------------------
(***************************************************************************)
(* The order of execution: what Layers returns for a graph without a cycle. *)
(* Its rounds are defined by recursion; they exist because a part of the   *)
(* graph that has them, as large as can be, is all of it, and are unique   *)
(* because a least id where two differ is free of the others.              *)
(***************************************************************************)
\* Any set of naturals that is not empty has a least element.
LEMMA LeastNatural ==
  ASSUME NEW T \in SUBSET Nat, T # {}
  PROVE  \E m \in T : \A n \in T : m <= n
<1>1. \E m \in T : \A n \in T : ~(<<n, m>> \in OpToRel(<, Nat))
  BY WFMin, NatLessThanWellFounded
<1>2. ASSUME NEW m \in T, NEW n \in T, ~(<<n, m>> \in OpToRel(<, Nat))
      PROVE  m <= n
  <2>1. ~(n < m)
    BY <1>2 DEF OpToRel
  <2>2. QED
    BY <2>1
<1>3. QED
  BY <1>1, <1>2

\* A finite set of naturals has a greatest element, and Max is it.
LEMMA MaxIs ==
  ASSUME NEW S, IsFiniteSet(S), S # {}, NEW f \in [S -> Nat]
  PROVE  /\ Max({f[d] : d \in S}) \in Nat
         /\ \A d \in S : f[d] <= Max({f[d2] : d2 \in S})
         /\ \E d \in S : Max({f[d2] : d2 \in S}) = f[d]
<1> DEFINE T == {f[d] : d \in S}
<1>1. T \in SUBSET Nat /\ T # {}
  OBVIOUS
<1>2. IsFiniteSet(T)
  <2>1. f \in Surjection(S, T)
    BY DEF Surjection
  <2>2. QED
    BY <2>1, FS_Surjection
<1>3. \E b \in Nat : \A x \in T : x <= b
  <2> DEFINE Bounded(k) == \A U \in SUBSET T : Cardinality(U) = k => \E b \in Nat : \A x \in U : x <= b
             Bad == {k \in Nat : ~Bounded(k)}
  <2>1. SUFFICES Bad = {}
    <3>1. Cardinality(T) \in Nat
      BY <1>2, FS_CardinalityType
    <3>2. Bounded(Cardinality(T))
      BY <2>1, <3>1
    <3>3. QED
      BY <3>2
  <2>2. SUFFICES ASSUME Bad # {} PROVE FALSE
    OBVIOUS
  <2>3. PICK k \in Bad : \A n \in Bad : k <= n
    <3>1. Bad \in SUBSET Nat
      OBVIOUS
    <3>2. QED
      BY <2>2, <3>1, LeastNatural
  <2>4. PICK U \in SUBSET T : Cardinality(U) = k /\ ~\E b \in Nat : \A x \in U : x <= b
    OBVIOUS
  <2>5. IsFiniteSet(U) /\ U # {}
    BY <1>2, <2>4, FS_Subset
  <2>6. PICK x \in U : TRUE
    BY <2>5
  <2>7. Cardinality(U \ {x}) = k - 1 /\ k - 1 \in Nat
    <3>1. Cardinality(U \ {x}) = k - 1 /\ IsFiniteSet(U \ {x})
      BY <2>4, <2>5, <2>6, FS_RemoveElement
    <3>2. QED
      BY <3>1, FS_CardinalityType
  <2>8. Bounded(k - 1)
    BY <2>3, <2>7
  <2>9. PICK b \in Nat : \A y \in U \ {x} : y <= b
    BY <2>7, <2>8
  <2> DEFINE c == IF x <= b THEN b ELSE x
  <2>10. x \in Nat /\ c \in Nat /\ x <= c /\ b <= c
    BY <1>1, <2>6
  <2>11. \A y \in U : y <= c
    <3> HIDE DEF c, T
    <3> TAKE y \in U
    <3>1. y \in Nat
      BY <1>1
    <3>2. QED
      BY <2>9, <2>10, <3>1
  <2>12. QED
    BY <2>4, <2>10, <2>11
<1>4. PICK b \in Nat : \A x \in T : x <= b
  BY <1>3
<1> DEFINE V == {b - x : x \in T}
<1>5. V \in SUBSET Nat /\ V # {}
  <2>1. ASSUME NEW x \in T PROVE b - x \in Nat
    <3>1. x \in Nat /\ x <= b
      BY <1>1, <1>4
    <3>2. QED
      BY <3>1
  <2> HIDE DEF T
  <2>2. QED
    BY <1>1, <2>1
<1>6. PICK v \in V : \A w \in V : v <= w
  BY <1>5, LeastNatural
<1>7. \E m \in T : \A y \in T : m >= y
  <2> HIDE DEF T
  <2>1. PICK m \in T : v = b - m
    BY <1>6
  <2>2. ASSUME NEW y \in T PROVE m >= y
    <3>1. b - m <= b - y
      BY <1>6, <2>1
    <3>2. m \in Nat /\ y \in Nat
      BY <1>1
    <3>3. QED
      BY <3>1, <3>2
  <2>3. QED
    BY <2>2
<1>8. Max(T) \in T /\ \A y \in T : Max(T) >= y
  <2> HIDE DEF T
  <2>1. QED
    BY <1>7 DEF Max
<1>9. QED
  BY <1>1, <1>8

\* A graph the execution can be planned for: finitely many ids, dependencies among them,
\* none that keep one another waiting.
Acyclic(deps) ==
  /\ deps = [n \in DOMAIN deps |-> deps[n]] /\ IsFiniteSet(DOMAIN deps)
  /\ \A n \in DOMAIN deps : deps[n] \subseteq DOMAIN deps
  /\ ~hasCycle(deps)

\* What is said of the round of an id by the rounds of the others.
RoundOf(deps, f, n) == IF deps[n] = {} THEN 0 ELSE 1 + Max({f[d] : d \in deps[n]})
IsRound(deps, f) == f = [n \in DOMAIN deps |-> RoundOf(deps, f, n)]

\* Of any set of ids one depends on none of the set.
LEMMA SomeIsFree ==
  ASSUME NEW deps, Acyclic(deps), NEW S \in SUBSET DOMAIN deps, S # {}
  PROVE  \E n \in S : deps[n] \cap S = {}
BY DEF Acyclic, hasCycle

\* A round that follows natural rounds is natural, and later than each of them.
LEMMA RoundIsNat ==
  ASSUME NEW deps, Acyclic(deps), NEW n \in DOMAIN deps, NEW S, deps[n] \subseteq S, NEW f \in [S -> Nat]
  PROVE  /\ RoundOf(deps, f, n) \in Nat
         /\ \A d \in deps[n] : f[d] < RoundOf(deps, f, n)
<1>1. CASE deps[n] = {}
  BY <1>1 DEF RoundOf
<1>2. CASE deps[n] # {}
  <2> DEFINE g == [d \in deps[n] |-> f[d]]
  <2>1. IsFiniteSet(deps[n])
    BY FS_Subset DEF Acyclic
  <2>2. g \in [deps[n] -> Nat] /\ {g[d] : d \in deps[n]} = {f[d] : d \in deps[n]}
    OBVIOUS
  <2>3. \A d \in deps[n] : g[d] = f[d]
    OBVIOUS
  <2> HIDE DEF g
  <2>4. /\ Max({f[d] : d \in deps[n]}) \in Nat
        /\ \A d \in deps[n] : g[d] <= Max({f[d2] : d2 \in deps[n]})
    BY <1>2, <2>1, <2>2, MaxIs
  <2>5. \A d \in deps[n] : f[d] \in Nat
    OBVIOUS
  <2>6. RoundOf(deps, f, n) = 1 + Max({f[d] : d \in deps[n]})
    BY <1>2 DEF RoundOf
  <2>7. QED
    BY <2>3, <2>4, <2>5, <2>6
<1>3. QED
  BY <1>1, <1>2

\* The round of an id depends on the rounds of what it depends on, and on nothing else.
LEMMA RoundAgrees ==
  ASSUME NEW deps, NEW n, NEW f, NEW g, \A d \in deps[n] : f[d] = g[d]
  PROVE  RoundOf(deps, f, n) = RoundOf(deps, g, n)
<1>1. {f[d] : d \in deps[n]} = {g[d] : d \in deps[n]}
  OBVIOUS
<1>2. QED
  BY <1>1 DEF RoundOf

\* Kahn's rounds exist: a part of the graph that has them can be grown by an id that waits
\* for nothing else.
LEMMA RoundExists ==
  ASSUME NEW deps, Acyclic(deps)
  PROVE  \E f \in [DOMAIN deps -> Nat] : IsRound(deps, f)
<1> DEFINE D == DOMAIN deps
           Fits(S, f) == \A n \in S : deps[n] \subseteq S /\ f[n] = RoundOf(deps, f, n)
           Parts == {S \in SUBSET D : \E f \in [S -> Nat] : Fits(S, f)}
           Left == {Cardinality(D \ S) : S \in Parts}
<1>1. {} \in Parts
  <2>1. [n \in {} |-> 0] \in [{} -> Nat] /\ Fits({}, [n \in {} |-> 0])
    OBVIOUS
  <2>2. QED
    BY <2>1
<1>2. \A S \in Parts : IsFiniteSet(D \ S) /\ Cardinality(D \ S) \in Nat
  <2> TAKE S \in Parts
  <2>1. IsFiniteSet(D \ S)
    BY FS_Difference DEF Acyclic
  <2>2. QED
    BY <2>1, FS_CardinalityType
<1>3. Left \in SUBSET Nat /\ Left # {}
  <2> HIDE DEF Parts, D
  <2>1. QED
    BY <1>1, <1>2
<1>4. PICK k \in Left : \A j \in Left : k <= j
  BY <1>3, LeastNatural
<1>5. PICK S \in Parts : k = Cardinality(D \ S)
  OBVIOUS
<1>6. S \in SUBSET D
  BY <1>5
<1>7. PICK f \in [S -> Nat] : Fits(S, f)
  BY <1>5
<1>8. CASE S = D
  <2>1. f = [n \in D |-> RoundOf(deps, f, n)]
    BY <1>7, <1>8
  <2>2. QED
    BY <1>8, <2>1 DEF IsRound
<1>9. CASE S # D
  <2>1. PICK n \in D \ S : deps[n] \cap (D \ S) = {}
    BY <1>6, <1>9, SomeIsFree
  <2>2. deps[n] \subseteq S /\ n \notin S /\ n \in D
    BY <2>1 DEF Acyclic
  <2> DEFINE T == S \cup {n}
             g == [m \in T |-> IF m = n THEN RoundOf(deps, f, n) ELSE f[m]]
  <2>3. RoundOf(deps, f, n) \in Nat
    BY <2>2, RoundIsNat
  <2>4. g \in [T -> Nat] /\ g[n] = RoundOf(deps, f, n) /\ \A m \in S : g[m] = f[m]
    <3> HIDE DEF Fits
    <3>1. QED
      BY <2>2, <2>3
  <2> HIDE DEF g
  <2>5. Fits(T, g)
    <3> SUFFICES ASSUME NEW m \in T PROVE deps[m] \subseteq T /\ g[m] = RoundOf(deps, g, m)
      OBVIOUS
    <3>1. deps[m] \subseteq S
      BY <1>7, <2>2
    <3>2. RoundOf(deps, g, m) = RoundOf(deps, f, m)
      <4>1. \A d \in deps[m] : g[d] = f[d]
        BY <2>4, <3>1
      <4>2. QED
        BY <4>1, RoundAgrees
    <3>3. g[m] = RoundOf(deps, f, m)
      BY <1>7, <2>4
    <3>4. QED
      BY <3>1, <3>2, <3>3
  <2>6. T \in Parts
    BY <1>6, <2>2, <2>4, <2>5
  <2>7. D \ T = (D \ S) \ {n}
    OBVIOUS
  <2>8. Cardinality(D \ T) = k - 1
    <3>1. IsFiniteSet(D \ S)
      BY <1>2, <1>5
    <3> DEFINE C == D \ S
    <3>2. IsFiniteSet(C) /\ n \in C /\ Cardinality(C) = k
      BY <1>5, <2>1, <3>1
    <3> HIDE DEF C
    <3>3. Cardinality(C \ {n}) = k - 1
      BY <3>2, FS_RemoveElement
    <3>4. QED
      BY <2>7, <3>3 DEF C
  <2>9. Cardinality(D \ T) \in Left /\ k \in Nat
    BY <1>3, <1>4, <2>6
  <2>10. QED
    <3> HIDE DEF Left, Parts, D, T
    <3>1. QED
      BY <1>4, <2>8, <2>9
<1>10. QED
  BY <1>8, <1>9

\* There is only one such function, so whichever is chosen has natural rounds, and every id
\* comes in a later round than what it depends on.
LEMMA RoundUnique ==
  ASSUME NEW deps, Acyclic(deps), NEW f, IsRound(deps, f)
  PROVE  /\ f \in [DOMAIN deps -> Nat]
         /\ \A n \in DOMAIN deps : \A d \in deps[n] : f[d] < f[n]
<1>1. PICK g \in [DOMAIN deps -> Nat] : IsRound(deps, g)
  BY RoundExists
<1> DEFINE Differ == {n \in DOMAIN deps : f[n] # g[n]}
<1>2. DOMAIN f = DOMAIN deps /\ f = [n \in DOMAIN deps |-> f[n]]
  BY DEF IsRound
<1>3. \A n \in DOMAIN deps : f[n] = RoundOf(deps, f, n) /\ g[n] = RoundOf(deps, g, n)
  BY <1>1 DEF IsRound
<1>4. Differ = {}
  <2> SUFFICES ASSUME Differ # {} PROVE FALSE
    OBVIOUS
  <2>1. PICK n \in Differ : deps[n] \cap Differ = {}
    <3>1. Differ \in SUBSET DOMAIN deps
      OBVIOUS
    <3>2. QED
      BY <3>1, SomeIsFree
  <2>2. \A d \in deps[n] : f[d] = g[d]
    BY <2>1 DEF Acyclic
  <2>3. RoundOf(deps, f, n) = RoundOf(deps, g, n)
    BY <2>2, RoundAgrees
  <2>4. QED
    BY <1>3, <2>1, <2>3
<1>5. f \in [DOMAIN deps -> Nat]
  BY <1>2, <1>4
<1>6. ASSUME NEW n \in DOMAIN deps, NEW d \in deps[n] PROVE f[d] < f[n]
  <2>1. deps[n] \subseteq DOMAIN deps
    BY DEF Acyclic
  <2>2. f[d] < RoundOf(deps, f, n)
    BY <1>5, <2>1, RoundIsNat
  <2>3. QED
    BY <1>3, <2>2
<1>7. QED
  BY <1>5, <1>6

\* The order of the rounds; ids of the same round are sorted.
Before(f, a, b) == f[a] < f[b] \/ (f[a] = f[b] /\ a < b)

\* The ids can be put in the order of their rounds: each takes the place that counts those
\* before it.
LEMMA SortExists ==
  ASSUME NEW D \in SUBSET Int, IsFiniteSet(D), NEW f \in [D -> Nat]
  PROVE  \E s \in SetToSeqs(D) : \A i, j \in DOMAIN s : i < j => Before(f, s[i], s[j])
<1> DEFINE N == Cardinality(D)
           Ahead(n) == {m \in D : Before(f, m, n)}
           place == [n \in D |-> Cardinality(Ahead(n)) + 1]
<1>1. N \in Nat
  BY FS_CardinalityType
<1>2. \A n \in D : IsFiniteSet(Ahead(n)) /\ Cardinality(Ahead(n)) \in Nat
  <2> TAKE n \in D
  <2>1. Ahead(n) \in SUBSET D
    OBVIOUS
  <2>2. IsFiniteSet(Ahead(n))
    BY <2>1, FS_Subset
  <2>3. QED
    BY <2>2, FS_CardinalityType
<1>3. /\ \A a \in D : ~Before(f, a, a)
      /\ \A a, b \in D : a = b \/ Before(f, a, b) \/ Before(f, b, a)
      /\ \A a, b, c \in D : Before(f, a, b) /\ Before(f, b, c) => Before(f, a, c)
  <2>1. \A a \in D : a \in Int /\ f[a] \in Nat
    OBVIOUS
  <2>2. QED
    BY <2>1 DEF Before
<1>4. ASSUME NEW a \in D, NEW b \in D, Before(f, a, b) PROVE place[a] < place[b]
  <2>1. Ahead(a) \in SUBSET Ahead(b) /\ a \in Ahead(b) /\ a \notin Ahead(a)
    BY <1>3, <1>4
  <2> HIDE DEF Ahead
  <2>2. IsFiniteSet(Ahead(a)) /\ IsFiniteSet(Ahead(b)) /\ Cardinality(Ahead(a)) \in Nat /\ Cardinality(Ahead(b)) \in Nat
    BY <1>2
  <2>3. Cardinality(Ahead(a)) <= Cardinality(Ahead(b)) /\ Cardinality(Ahead(a)) # Cardinality(Ahead(b))
    <3>1. Ahead(a) # Ahead(b)
      BY <2>1
    <3>2. QED
      BY <2>1, <2>2, <3>1, FS_Subset
  <2>4. QED
    BY <2>2, <2>3
<1>5. \A n \in D : place[n] \in 1 .. N
  <2> TAKE n \in D
  <2>1. Ahead(n) \in SUBSET D /\ n \notin Ahead(n)
    BY <1>3
  <2> HIDE DEF Ahead
  <2>2. Cardinality(Ahead(n)) <= N /\ Cardinality(Ahead(n)) # N
    <3>1. Ahead(n) # D
      BY <2>1
    <3>2. QED
      BY <2>1, <3>1, FS_Subset
  <2>3. QED
    BY <1>1, <1>2, <2>2
<1> HIDE DEF place
<1>6. place \in [D -> 1 .. N]
  BY <1>5 DEF place
<1>7. \A a, b \in D : place[a] = place[b] => a = b
  <2> TAKE a \in D, b \in D
  <2>1. place[a] \in Nat /\ place[b] \in Nat
    BY <1>6
  <2>2. QED
    BY <1>3, <1>4, <2>1
<1>8. place \in Injection(D, 1 .. N)
  BY <1>6, <1>7 DEF Injection, IsInjective
<1>9. \A i \in 1 .. N : \E n \in D : place[n] = i
  <2>1. IsFiniteSet(1 .. N) /\ Cardinality(1 .. N) = N
    BY <1>1, FS_Interval
  <2>2. place \in Surjection(D, 1 .. N)
    BY <1>8, <2>1, FS_Injection
  <2>3. QED
    BY <2>2 DEF Surjection
<1> DEFINE s == [i \in 1 .. N |-> CHOOSE n \in D : place[n] = i]
<1>10. \A i \in 1 .. N : s[i] \in D /\ place[s[i]] = i
  BY <1>9
<1>11. s \in [1 .. N -> D] /\ DOMAIN s = 1 .. N
  BY <1>10
<1> HIDE DEF s
<1>12. s \in SetToSeqs(D)
  BY <1>10, <1>11 DEF SetToSeqs
<1>13. ASSUME NEW i \in DOMAIN s, NEW j \in DOMAIN s, i < j PROVE Before(f, s[i], s[j])
  <2>1. s[i] \in D /\ s[j] \in D /\ place[s[i]] = i /\ place[s[j]] = j /\ i \in Nat /\ j \in Nat
    BY <1>10, <1>11
  <2>2. ~(place[s[j]] < place[s[i]]) /\ s[i] # s[j]
    BY <1>13, <2>1
  <2>3. QED
    BY <1>3, <1>4, <2>1, <2>2
<1>14. QED
  BY <1>12, <1>13

\* What Kahn's algorithm returns: every id once, behind everything it depends on.
LEMMA LayersIs ==
  ASSUME NEW deps, Acyclic(deps), DOMAIN deps \subseteq Int
  PROVE  LET s == Layers(deps)
             N == Cardinality(DOMAIN deps)
         IN  /\ N \in Nat /\ s \in [1 .. N -> DOMAIN deps]
             /\ \A i, j \in 1 .. N : i # j => s[i] # s[j]
             /\ \A n \in DOMAIN deps : \E i \in 1 .. N : s[i] = n
             /\ \A i, j \in 1 .. N : s[j] \in deps[s[i]] => j < i
<1> DEFINE D == DOMAIN deps
           N == Cardinality(D)
           f == CHOOSE round : round = [n \in D |-> IF deps[n] = {} THEN 0 ELSE 1 + Max({round[d] : d \in deps[n]})]
           Sorted(s) == \A i, j \in DOMAIN s : i < j => f[s[i]] < f[s[j]] \/ (f[s[i]] = f[s[j]] /\ s[i] < s[j])
           s0 == CHOOSE s \in SetToSeqs(D) : Sorted(s)
<1>1. Layers(deps) = s0
  BY DEF Layers
<1>2. f = [n \in D |-> IF deps[n] = {} THEN 0 ELSE 1 + Max({f[d] : d \in deps[n]})]
  <2>1. \E round : round = [n \in D |-> IF deps[n] = {} THEN 0 ELSE 1 + Max({round[d] : d \in deps[n]})]
    <3>1. PICK g : IsRound(deps, g)
      BY RoundExists
    <3>2. g = [n \in D |-> IF deps[n] = {} THEN 0 ELSE 1 + Max({g[d] : d \in deps[n]})]
      BY <3>1 DEF IsRound, RoundOf
    <3>3. QED
      BY <3>2
  <2>2. QED
    BY <2>1
<1>3. IsRound(deps, f)
  BY <1>2 DEF IsRound, RoundOf
<1> HIDE DEF f
<1>4. f \in [D -> Nat] /\ \A n \in D : \A d \in deps[n] : f[d] < f[n]
  BY <1>3, RoundUnique
<1>5. IsFiniteSet(D)
  BY DEF Acyclic
<1>6. \E s \in SetToSeqs(D) : Sorted(s)
  BY <1>4, <1>5, SortExists DEF Before
<1>7. s0 \in SetToSeqs(D) /\ Sorted(s0)
  BY <1>6
<1> HIDE DEF s0
<1>8. N \in Nat /\ s0 \in [1 .. N -> D] /\ \A i, j \in 1 .. N : i # j => s0[i] # s0[j]
  <2>1. N \in Nat
    BY <1>5, FS_CardinalityType
  <2>2. QED
    BY <1>7, <2>1 DEF SetToSeqs
<1>9. \A n \in D : \E i \in 1 .. N : s0[i] = n
  <2>1. s0 \in Injection(1 .. N, D)
    BY <1>8 DEF Injection, IsInjective
  <2>2. Cardinality(1 .. N) = N
    BY <1>8, FS_Interval
  <2>3. s0 \in Surjection(1 .. N, D)
    BY <1>5, <2>1, <2>2, FS_Injection
  <2>4. QED
    BY <2>3 DEF Surjection
<1>10. ASSUME NEW i \in 1 .. N, NEW j \in 1 .. N, s0[j] \in deps[s0[i]] PROVE j < i
  <2>1. f[s0[j]] < f[s0[i]] /\ f[s0[i]] \in Nat /\ f[s0[j]] \in Nat /\ i \in Nat /\ j \in Nat
    BY <1>4, <1>8, <1>10
  <2>2. i # j
    BY <2>1
  <2>3. ~(i < j)
    BY <1>7, <1>8, <2>1
  <2>4. QED
    BY <2>1, <2>2, <2>3
<1>11. QED
  BY <1>1, <1>8, <1>9, <1>10

-----------------------------------------------------------------------------
(***************************************************************************)
(* The compiler: what it makes of a plan it does not refuse is a valid DAG. *)
(***************************************************************************)
\* A sequence of nodes with integers for ids.
DagShape(d) ==
  /\ Len(d.nodes) \in Nat /\ DOMAIN d.nodes = 1 .. Len(d.nodes)
  /\ \A i \in DOMAIN d.nodes : d.nodes[i].id \in Int

\* There are no more ids than nodes.
LEMMA IdsFinite ==
  ASSUME NEW d, DagShape(d)
  PROVE  IsFiniteSet(Ids(d)) /\ Ids(d) \subseteq Int /\ Cardinality(Ids(d)) <= Len(d.nodes)
<1> DEFINE f == [i \in 1 .. Len(d.nodes) |-> d.nodes[i].id]
<1>1. f \in Surjection(1 .. Len(d.nodes), Ids(d))
  BY DEF Surjection, Ids, DagShape
<1>2. IsFiniteSet(1 .. Len(d.nodes)) /\ Cardinality(1 .. Len(d.nodes)) = Len(d.nodes)
  BY FS_Interval DEF DagShape
<1>3. QED
  BY <1>1, <1>2, FS_Surjection DEF Ids, DagShape

\* Nodes with ids of their own are found by them.
LEMMA NodeOfIs ==
  ASSUME NEW d, DagShape(d), \A i, j \in DOMAIN d.nodes : d.nodes[i].id = d.nodes[j].id => i = j,
         NEW i \in DOMAIN d.nodes
  PROVE  NodeOf(d, d.nodes[i].id) = d.nodes[i]
<1> DEFINE last == CHOOSE k \in DOMAIN d.nodes :
                     /\ d.nodes[k].id = d.nodes[i].id
                     /\ \A j \in DOMAIN d.nodes : d.nodes[j].id = d.nodes[i].id => j <= k
<1>1. \A j \in DOMAIN d.nodes : j \in Nat
  BY DEF DagShape
<1>2. \A j \in DOMAIN d.nodes : d.nodes[j].id = d.nodes[i].id => j <= i
  BY <1>1
<1>3. last = i
  BY <1>2
<1> HIDE DEF last
<1>4. NodeOf(d, d.nodes[i].id) = d.nodes[last]
  BY DEF NodeOf, last
<1>5. QED
  BY <1>3, <1>4

\* The plan the compiler does not refuse.
Fine(plan) ==
  /\ IsFiniteSet(Tasks(plan)) /\ Tasks(plan) \subseteq Int
  /\ ~CompileThrows(plan)

\* What the tasks of a plan wait for.
TaskDeps(plan) == Restrict(dependencyTaskMap(plan), Tasks(plan))

\* In such a plan tasks depend on tasks of the plan, and do not keep one another waiting.
LEMMA TaskDepsAcyclic ==
  ASSUME NEW plan, Fine(plan)
  PROVE  /\ Acyclic(TaskDeps(plan)) /\ DOMAIN TaskDeps(plan) = Tasks(plan)
         /\ \A t \in Tasks(plan) : /\ TaskDeps(plan)[t] = dependencyTaskMap(plan)[t]
                                   /\ dependencyTaskMap(plan)[t] \subseteq Tasks(plan)
                                   /\ t \notin dependencyTaskMap(plan)[t]
<1>1. DOMAIN TaskDeps(plan) = Tasks(plan) /\ \A t \in Tasks(plan) : TaskDeps(plan)[t] = dependencyTaskMap(plan)[t]
  BY DEF TaskDeps, Restrict
<1>2. Tasks(plan) \subseteq DOMAIN dependencyTaskMap(plan)
  BY DEF dependencyTaskMap
<1>3. \A t \in Tasks(plan) : dependencyTaskMap(plan)[t] \subseteq Tasks(plan)
  BY <1>2 DEF Fine, CompileThrows
<1>4. ~hasCycle(TaskDeps(plan))
  BY DEF Fine, CompileThrows, TaskDeps
<1>5. TaskDeps(plan) = [t \in DOMAIN TaskDeps(plan) |-> TaskDeps(plan)[t]]
  BY DEF TaskDeps, Restrict
<1>6. Acyclic(TaskDeps(plan))
  BY <1>1, <1>3, <1>4, <1>5 DEF Acyclic, Fine
<1>7. ASSUME NEW t \in Tasks(plan) PROVE t \notin dependencyTaskMap(plan)[t]
  <2> DEFINE S == {t}
  <2>0. S \in SUBSET DOMAIN TaskDeps(plan) /\ S # {}
    BY <1>1
  <2>1. \E n \in S : TaskDeps(plan)[n] \cap S = {}
    <3> HIDE DEF S
    <3>1. QED
      BY <1>6, <2>0, SomeIsFree
  <2>2. QED
    BY <1>1, <2>1
<1>8. QED
  BY <1>1, <1>3, <1>6, <1>7

\* The nodes of a compiled DAG: the tasks in their order, then the validations of each.
LEMMA CompiledNodes ==
  ASSUME NEW plan, Fine(plan)
  PROVE  LET d == compileAcceptedPlanToDag(plan)
             N == Cardinality(Tasks(plan))
             o == topologicalTasks(plan)
         IN  /\ N \in Nat /\ Len(d.nodes) = N + N /\ DOMAIN d.nodes = 1 .. N + N
             /\ \A i \in 1 .. N : /\ d.nodes[i] = taskDagNode(plan, o[i])
                                  /\ d.nodes[i + N] = validationDagNode(o[i])
             /\ o \in [1 .. N -> Tasks(plan)]
             /\ \A i, j \in 1 .. N : i # j => o[i] # o[j]
             /\ \A t \in Tasks(plan) : \E i \in 1 .. N : o[i] = t
             /\ \A i, j \in 1 .. N : o[j] \in dependencyTaskMap(plan)[o[i]] => j < i
             /\ d.edges = UNION {{<<e, n.id>> : e \in n.dependsOn} : n \in ToSet(d.nodes)}
<1> DEFINE N == Cardinality(Tasks(plan))
           o == topologicalTasks(plan)
           tasks == [i \in DOMAIN o |-> taskDagNode(plan, o[i])]
           checks == [i \in DOMAIN o |-> validationDagNode(o[i])]
           d == compileAcceptedPlanToDag(plan)
<1>1. /\ N \in Nat /\ o \in [1 .. N -> Tasks(plan)]
      /\ \A i, j \in 1 .. N : i # j => o[i] # o[j]
      /\ \A t \in Tasks(plan) : \E i \in 1 .. N : o[i] = t
      /\ \A i, j \in 1 .. N : o[j] \in TaskDeps(plan)[o[i]] => j < i
  <2>1. o = Layers(TaskDeps(plan))
    BY DEF topologicalTasks, TaskDeps
  <2>2. Acyclic(TaskDeps(plan)) /\ DOMAIN TaskDeps(plan) = Tasks(plan) /\ Tasks(plan) \subseteq Int
    BY TaskDepsAcyclic DEF Fine
  <2> HIDE DEF o
  <2>3. QED
    BY <2>1, <2>2, LayersIs
<1>2. d.nodes = tasks \o checks /\ d.edges = UNION {{<<e, n.id>> : e \in n.dependsOn} : n \in ToSet(d.nodes)}
  BY DEF compileAcceptedPlanToDag
<1> HIDE DEF o, d
<1> DEFINE S == {taskDagNode(plan, o[i]) : i \in 1 .. N} \cup {validationDagNode(o[i]) : i \in 1 .. N}
<1>3. DOMAIN o = 1 .. N
  BY <1>1
<1>4. tasks \in [1 .. N -> S] /\ checks \in [1 .. N -> S]
  BY <1>3
<1>5. \A i \in 1 .. N : tasks[i] = taskDagNode(plan, o[i]) /\ checks[i] = validationDagNode(o[i])
  BY <1>3
<1> HIDE DEF tasks, checks, S, N
<1>6. tasks \in Seq(S) /\ checks \in Seq(S) /\ Len(tasks) = N /\ Len(checks) = N
  <2>1. tasks \in Seq(S) /\ checks \in Seq(S)
    BY <1>1, <1>4, SeqDef
  <2>2. Len(tasks) \in Nat /\ Len(checks) \in Nat /\ DOMAIN tasks = 1 .. Len(tasks) /\ DOMAIN checks = 1 .. Len(checks)
    BY <2>1, LenProperties
  <2>3. DOMAIN tasks = 1 .. N /\ DOMAIN checks = 1 .. N
    BY <1>4
  <2>4. \A m, n \in Nat : 1 .. m = 1 .. n => m = n
    <3> SUFFICES ASSUME NEW m \in Nat, NEW n \in Nat, 1 .. m = 1 .. n PROVE m = n
      OBVIOUS
    <3>1. m \in 1 .. n \/ m = 0
      OBVIOUS
    <3>2. n \in 1 .. m \/ n = 0
      OBVIOUS
    <3>3. QED
      BY <3>1, <3>2
  <2>5. QED
    BY <1>1, <2>1, <2>2, <2>3, <2>4
<1>7. /\ tasks \o checks \in Seq(S) /\ Len(tasks \o checks) = N + N
      /\ \A i \in 1 .. N + N : (tasks \o checks)[i] = IF i <= N THEN tasks[i] ELSE checks[i - N]
  <2>1. /\ tasks \o checks \in Seq(S) /\ Len(tasks \o checks) = Len(tasks) + Len(checks)
        /\ \A i \in 1 .. Len(tasks) + Len(checks) :
             (tasks \o checks)[i] = IF i <= Len(tasks) THEN tasks[i] ELSE checks[i - Len(tasks)]
    BY <1>6, ConcatProperties, Zenon
  <2>2. QED
    BY <1>6, <2>1, Zenon
<1>8. DOMAIN (tasks \o checks) = 1 .. N + N
  BY <1>7, LenProperties
<1>9. ASSUME NEW i \in 1 .. N
      PROVE  d.nodes[i] = taskDagNode(plan, o[i]) /\ d.nodes[i + N] = validationDagNode(o[i])
  <2>1. i \in 1 .. N + N /\ i + N \in 1 .. N + N /\ i <= N /\ ~(i + N <= N) /\ (i + N) - N = i
    BY <1>1
  <2>2. QED
    BY <1>2, <1>5, <1>7, <2>1
<1>10. \A i, j \in 1 .. N : o[j] \in dependencyTaskMap(plan)[o[i]] => j < i
  BY <1>1, TaskDepsAcyclic
<1>11. QED
  BY <1>1, <1>2, <1>7, <1>8, <1>9, <1>10 DEF d, o, N

\* Every node has an id of its own.
OwnIds(d) == \A i, j \in DOMAIN d.nodes : d.nodes[i].id = d.nodes[j].id => i = j

\* Ids are counted by validateDag: as many as nodes means that no two are the same.
LEMMA CountIds ==
  ASSUME NEW d, DagShape(d)
  PROVE  Cardinality(Ids(d)) = Len(d.nodes) <=> OwnIds(d)
<1> DEFINE f == [i \in 1 .. Len(d.nodes) |-> d.nodes[i].id]
<1>1. f \in Surjection(1 .. Len(d.nodes), Ids(d))
  BY DEF Surjection, Ids, DagShape
<1>2. IsFiniteSet(1 .. Len(d.nodes)) /\ Cardinality(1 .. Len(d.nodes)) = Len(d.nodes)
  BY FS_Interval DEF DagShape
<1>3. f \in Injection(1 .. Len(d.nodes), Ids(d)) <=> OwnIds(d)
  <2>1. f \in [1 .. Len(d.nodes) -> Ids(d)]
    BY <1>1 DEF Surjection
  <2>2. QED
    BY <2>1 DEF Injection, IsInjective, OwnIds, DagShape
<1> HIDE DEF f
<1>4. Cardinality(Ids(d)) = Cardinality(1 .. Len(d.nodes)) <=> f \in Injection(1 .. Len(d.nodes), Ids(d))
  BY <1>1, <1>2, FS_Surjection
<1>5. QED
  BY <1>2, <1>3, <1>4

\* What the compiler builds: edges that repeat the dependencies of the nodes, and nodes that
\* depend on nodes before them.
Built(d) ==
  /\ DagShape(d) /\ OwnIds(d)
  /\ d.edges = UNION {{<<e, n.id>> : e \in n.dependsOn} : n \in ToSet(d.nodes)}
  /\ \A i \in DOMAIN d.nodes : \A x \in d.nodes[i].dependsOn :
       \E j \in DOMAIN d.nodes : j < i /\ x = d.nodes[j].id

\* Such a DAG says of every node what the node says itself.
LEMMA BuiltDependencies ==
  ASSUME NEW d, Built(d)
  PROVE  /\ \A e : e \in d.edges <=> \E i \in DOMAIN d.nodes : \E x \in d.nodes[i].dependsOn : e = <<x, d.nodes[i].id>>
         /\ \A i \in DOMAIN d.nodes : dependencyMap(d)[d.nodes[i].id] = d.nodes[i].dependsOn
<1>1. ASSUME NEW e
      PROVE  e \in d.edges <=> \E i \in DOMAIN d.nodes : \E x \in d.nodes[i].dependsOn : e = <<x, d.nodes[i].id>>
  <2>1. \A n : n \in ToSet(d.nodes) <=> \E i \in DOMAIN d.nodes : n = d.nodes[i]
    BY DEF ToSet
  <2>2. e \in d.edges <=> \E n \in ToSet(d.nodes) : \E x \in n.dependsOn : e = <<x, n.id>>
    <3>1. d.edges = UNION {{<<x, n.id>> : x \in n.dependsOn} : n \in ToSet(d.nodes)}
      BY DEF Built
    <3> DEFINE Out(n) == {<<x, n.id>> : x \in n.dependsOn}
    <3>2. e \in d.edges <=> \E n \in ToSet(d.nodes) : e \in Out(n)
      <4> HIDE DEF Out
      <4>1. d.edges = UNION {Out(n) : n \in ToSet(d.nodes)}
        BY <3>1 DEF Out
      <4>2. QED
        BY <4>1
    <3>3. \A n : e \in Out(n) <=> \E x \in n.dependsOn : e = <<x, n.id>>
      OBVIOUS
    <3> HIDE DEF Out
    <3>4. QED
      BY <3>2, <3>3
  <2>3. ASSUME NEW i \in DOMAIN d.nodes, NEW x \in d.nodes[i].dependsOn, e = <<x, d.nodes[i].id>>
        PROVE  e \in d.edges
    BY <2>1, <2>2, <2>3
  <2>4. ASSUME e \in d.edges
        PROVE  \E i \in DOMAIN d.nodes : \E x \in d.nodes[i].dependsOn : e = <<x, d.nodes[i].id>>
    <3>1. PICK n \in ToSet(d.nodes) : \E x \in n.dependsOn : e = <<x, n.id>>
      BY <2>2, <2>4
    <3>2. PICK i \in DOMAIN d.nodes : n = d.nodes[i]
      BY <2>1
    <3>3. QED
      BY <3>1, <3>2
  <2>5. QED
    BY <2>3, <2>4
<1>2. ASSUME NEW i \in DOMAIN d.nodes PROVE dependencyMap(d)[d.nodes[i].id] = d.nodes[i].dependsOn
  <2> DEFINE id == d.nodes[i].id
             into == {e[1] : e \in {f \in d.edges : f[2] = id}}
  <2>1. id \in Ids(d)
    BY DEF Ids
  <2>2. NodeOf(d, id) = d.nodes[i]
    BY NodeOfIs DEF Built, OwnIds
  <2>3. dependencyMap(d)[id] = NodeOf(d, id).dependsOn \cup into
    BY <2>1 DEF dependencyMap
  <2>4. ASSUME NEW e \in d.edges, e[2] = id PROVE e[1] \in d.nodes[i].dependsOn
    <3>1. PICK k \in DOMAIN d.nodes : \E x \in d.nodes[k].dependsOn : e = <<x, d.nodes[k].id>>
      BY <1>1
    <3>2. PICK x \in d.nodes[k].dependsOn : e = <<x, d.nodes[k].id>>
      BY <3>1
    <3>3. e[1] = x /\ d.nodes[k].id = id
      BY <2>4, <3>2
    <3>4. k = i
      BY <3>3 DEF Built, OwnIds
    <3>5. QED
      BY <3>2, <3>3, <3>4
  <2>5. into \subseteq d.nodes[i].dependsOn
    BY <2>4
  <2>6. QED
    BY <2>2, <2>3, <2>5
<1>3. QED
  BY <1>1, <1>2

\* Nodes that depend on earlier ones only do not keep one another waiting: of any set of them
\* the first depends on none of the set.
LEMMA BuiltIsAcyclic ==
  ASSUME NEW d, Built(d) PROVE ~hasCycle(dependencyMap(d))
<1> SUFFICES ASSUME hasCycle(dependencyMap(d)) PROVE FALSE
  OBVIOUS
<1>0. PICK S \in SUBSET Ids(d) : S # {} /\ \A n \in S : dependencyMap(d)[n] \cap S # {}
  <2>1. DOMAIN dependencyMap(d) = Ids(d)
    BY DEF dependencyMap
  <2>2. PICK S \in (SUBSET DOMAIN dependencyMap(d)) \ {{}} : \A n \in S : dependencyMap(d)[n] \cap S # {}
    BY DEF hasCycle
  <2>3. S \in SUBSET Ids(d) /\ S # {}
    BY <2>1
  <2>4. QED
    BY <2>2, <2>3
<1> DEFINE K == {k \in DOMAIN d.nodes : d.nodes[k].id \in S}
<1>1. K \in SUBSET Nat /\ K # {}
  BY <1>0 DEF Ids, Built, DagShape
<1>2. PICK k \in K : \A j \in K : k <= j
  BY <1>1, LeastNatural
<1>3. dependencyMap(d)[d.nodes[k].id] = d.nodes[k].dependsOn
  BY BuiltDependencies
<1>4. PICK x \in d.nodes[k].dependsOn : x \in S
  BY <1>0, <1>3
<1>5. PICK j \in DOMAIN d.nodes : j < k /\ x = d.nodes[j].id
  BY <1>4 DEF Built
<1>6. j \in K
  BY <1>4, <1>5
<1>7. QED
  BY <1>1, <1>2, <1>5, <1>6

\* What the compiler makes of a plan it does not refuse is built so.
LEMMA CompiledIsBuilt ==
  ASSUME NEW plan, Fine(plan) PROVE Built(compileAcceptedPlanToDag(plan))
<1> DEFINE d == compileAcceptedPlanToDag(plan)
           N == Cardinality(Tasks(plan))
           o == topologicalTasks(plan)
<1>1. /\ N \in Nat /\ Len(d.nodes) = N + N /\ DOMAIN d.nodes = 1 .. N + N
      /\ \A i \in 1 .. N : /\ d.nodes[i] = taskDagNode(plan, o[i])
                           /\ d.nodes[i + N] = validationDagNode(o[i])
      /\ o \in [1 .. N -> Tasks(plan)]
      /\ \A i, j \in 1 .. N : i # j => o[i] # o[j]
      /\ \A t \in Tasks(plan) : \E i \in 1 .. N : o[i] = t
      /\ \A i, j \in 1 .. N : o[j] \in dependencyTaskMap(plan)[o[i]] => j < i
      /\ d.edges = UNION {{<<e, n.id>> : e \in n.dependsOn} : n \in ToSet(d.nodes)}
  BY CompiledNodes
<1> HIDE DEF d, N, o
<1>2. \A i \in 1 .. N : o[i] \in Int /\ o[i] \in Tasks(plan)
  BY <1>1 DEF Fine
<1>3. ASSUME NEW i \in 1 .. N
      PROVE  /\ d.nodes[i].id = 2 * o[i] /\ d.nodes[i + N].id = 2 * o[i] + 1
             /\ d.nodes[i].dependsOn = {TaskNode(t) : t \in dependencyTaskMap(plan)[o[i]]}
             /\ d.nodes[i + N].dependsOn = {TaskNode(o[i])}
  <2>1. d.nodes[i] = taskDagNode(plan, o[i]) /\ d.nodes[i + N] = validationDagNode(o[i])
    BY <1>1
  <2>2. /\ taskDagNode(plan, o[i]).id = 2 * o[i]
        /\ taskDagNode(plan, o[i]).dependsOn = {TaskNode(t) : t \in dependencyTaskMap(plan)[o[i]]}
    BY DEF taskDagNode, TaskNode
  <2>3. /\ validationDagNode(o[i]).id = 2 * o[i] + 1
        /\ validationDagNode(o[i]).dependsOn = {TaskNode(o[i])}
    BY DEF validationDagNode, ValidationNode
  <2>4. QED
    BY <2>1, <2>2, <2>3, Zenon
<1>4. ASSUME NEW k \in 1 .. N + N
      PROVE  k \in 1 .. N \/ \E i \in 1 .. N : k = i + N
  <2>1. k \in 1 .. N \/ (k - N \in 1 .. N /\ k = (k - N) + N)
    BY <1>1
  <2>2. QED
    BY <2>1
<1>5. DagShape(d)
  <2>1. \A k \in 1 .. N + N : d.nodes[k].id \in Int
    <3> TAKE k \in 1 .. N + N
    <3>1. \A i \in 1 .. N : d.nodes[i].id \in Int /\ d.nodes[i + N].id \in Int
      BY <1>2, <1>3
    <3>2. QED
      BY <1>4, <3>1
  <2>2. QED
    BY <1>1, <2>1 DEF DagShape
<1>6. ASSUME NEW k \in 1 .. N + N, NEW l \in 1 .. N + N, d.nodes[k].id = d.nodes[l].id PROVE k = l
  <2>1. CASE k \in 1 .. N /\ l \in 1 .. N
    <3>1. 2 * o[k] = 2 * o[l] /\ o[k] \in Int /\ o[l] \in Int
      BY <1>2, <1>3, <1>6, <2>1
    <3>2. o[k] = o[l]
      BY <3>1
    <3>3. QED
      BY <1>1, <2>1, <3>2
  <2>2. ASSUME NEW i \in 1 .. N, NEW j \in 1 .. N, 2 * o[i] = 2 * o[j] + 1 PROVE FALSE
    <3>1. o[i] \in Int /\ o[j] \in Int
      BY <1>2
    <3>2. QED
      BY <2>2, <3>1
  <2>3. ASSUME NEW i \in 1 .. N, NEW j \in 1 .. N, k = i + N, l = j + N PROVE k = l
    <3>1. 2 * o[i] + 1 = 2 * o[j] + 1 /\ o[i] \in Int /\ o[j] \in Int
      BY <1>2, <1>3, <1>6, <2>3
    <3>2. o[i] = o[j]
      BY <3>1
    <3>3. QED
      BY <1>1, <2>3, <3>2
  <2>4. QED
    BY <1>3, <1>4, <1>6, <2>1, <2>2, <2>3
<1>7. ASSUME NEW k \in 1 .. N + N, NEW x \in d.nodes[k].dependsOn
      PROVE  \E j \in 1 .. N + N : j < k /\ x = d.nodes[j].id
  <2>1. ASSUME NEW j \in 1 .. N PROVE j \in 1 .. N + N /\ d.nodes[j].id = TaskNode(o[j])
    BY <1>1, <1>3 DEF TaskNode
  <2>2. CASE k \in 1 .. N
    <3>1. PICK t \in dependencyTaskMap(plan)[o[k]] : x = TaskNode(t)
      BY <1>3, <2>2
    <3>2. t \in Tasks(plan)
      BY <1>2, <2>2, <3>1, TaskDepsAcyclic
    <3>3. PICK j \in 1 .. N : o[j] = t
      BY <1>1, <3>2
    <3>4. j < k
      BY <1>1, <2>2, <3>1, <3>3
    <3>5. QED
      BY <2>1, <3>1, <3>3, <3>4
  <2>3. ASSUME NEW i \in 1 .. N, k = i + N PROVE \E j \in 1 .. N + N : j < k /\ x = d.nodes[j].id
    <3>1. x = TaskNode(o[i])
      BY <1>3, <2>3
    <3>2. i < k
      BY <1>1, <2>3
    <3>3. QED
      BY <2>1, <3>1, <3>2
  <2>4. QED
    BY <1>4, <2>2, <2>3
<1>8. Built(d)
  <2>1. OwnIds(d)
    BY <1>1, <1>6 DEF OwnIds
  <2>2. \A i \in DOMAIN d.nodes : \A x \in d.nodes[i].dependsOn :
          \E j \in DOMAIN d.nodes : j < i /\ x = d.nodes[j].id
    <3> SUFFICES ASSUME NEW i \in DOMAIN d.nodes, NEW x \in d.nodes[i].dependsOn
                 PROVE  \E j \in DOMAIN d.nodes : j < i /\ x = d.nodes[j].id
      OBVIOUS
    <3>1. i \in 1 .. N + N
      BY <1>1
    <3>2. \E j \in 1 .. N + N : j < i /\ x = d.nodes[j].id
      BY <1>7, <3>1
    <3>3. QED
      BY <1>1, <3>2
  <2>3. QED
    BY <1>1, <1>5, <2>1, <2>2, Zenon DEF Built
<1>9. QED
  BY <1>8 DEF d

\* The compiler's check of its own DAG (assertValidCompiledDag) never fails.
LEMMA CompiledIsValid ==
  ASSUME NEW plan, Fine(plan)
  PROVE  LET d == compileAcceptedPlanToDag(plan) IN DagShape(d) /\ validateCompiledDag(d)
<1> DEFINE d == compileAcceptedPlanToDag(plan)
           N == Cardinality(Tasks(plan))
           o == topologicalTasks(plan)
<1>1. /\ N \in Nat /\ DOMAIN d.nodes = 1 .. N + N
      /\ \A i \in 1 .. N : /\ d.nodes[i] = taskDagNode(plan, o[i])
                           /\ d.nodes[i + N] = validationDagNode(o[i])
  BY CompiledNodes
<1>2. Built(d)
  BY CompiledIsBuilt
<1> HIDE DEF d, N, o
<1>3. DagShape(d) /\ OwnIds(d)
  BY <1>2 DEF Built
<1>4. ASSUME NEW k \in DOMAIN d.nodes
      PROVE  (\E i \in 1 .. N : k = i /\ d.nodes[k] = taskDagNode(plan, o[i]))
             \/ \E i \in 1 .. N : d.nodes[k] = validationDagNode(o[i])
  <2>1. k \in 1 .. N \/ (k - N \in 1 .. N /\ k = (k - N) + N)
    BY <1>1
  <2>2. QED
    BY <1>1, <2>1
<1>5. \A k \in DOMAIN d.nodes : /\ validateNodeRuntimePolicy(d.nodes[k])
                                /\ validateUnsafeShellDenied(d.nodes[k])
                                /\ validateNodePolicyMetadata(d.nodes[k])
  <2>1. ASSUME NEW t PROVE LET n == taskDagNode(plan, t)
                           IN  validateNodeRuntimePolicy(n) /\ validateUnsafeShellDenied(n) /\ validateNodePolicyMetadata(n)
    <3> DEFINE n == taskDagNode(plan, t)
    <3>1. /\ n.timeoutMs \in {30, 60, 120} /\ n.maxAttempts \in {1, 2}
          /\ n.type \in {"FILE_OPERATION", "LLM_EXECUTION"} /\ n.shell = FALSE /\ n.deniesShell = TRUE
          /\ n.checks = TRUE /\ n.unsafe = n.rollback
      BY DEF taskDagNode, timeoutForRisk, retryPolicyFor
    <3> HIDE DEF n
    <3>2. validateNodeRuntimePolicy(n) /\ validateUnsafeShellDenied(n) /\ validateNodePolicyMetadata(n)
      BY <3>1 DEF validateNodeRuntimePolicy, validateUnsafeShellDenied, validateNodePolicyMetadata
    <3>3. QED
      BY <3>2 DEF n
  <2>2. ASSUME NEW t PROVE LET n == validationDagNode(t)
                           IN  validateNodeRuntimePolicy(n) /\ validateUnsafeShellDenied(n) /\ validateNodePolicyMetadata(n)
    <3> DEFINE n == validationDagNode(t)
    <3>1. /\ n.timeoutMs = 15 /\ n.maxAttempts = 1 /\ n.type = "VALIDATION" /\ n.shell = FALSE
          /\ n.deniesShell = TRUE /\ n.checks = TRUE /\ n.unsafe = FALSE /\ n.kind = "task-validation"
      BY DEF validationDagNode
    <3> HIDE DEF n
    <3>2. validateNodeRuntimePolicy(n) /\ validateUnsafeShellDenied(n) /\ validateNodePolicyMetadata(n)
      BY <3>1 DEF validateNodeRuntimePolicy, validateUnsafeShellDenied, validateNodePolicyMetadata
    <3>3. QED
      BY <3>2 DEF n
  <2>3. QED
    BY <1>4, <2>1, <2>2
<1>6. validateDag(d)
  <2>1. Cardinality(Ids(d)) = Len(d.nodes)
    BY <1>3, CountIds
  <2>2. ASSUME NEW k \in DOMAIN d.nodes, NEW x \in d.nodes[k].dependsOn
        PROVE  x \in Ids(d) /\ d.nodes[k].id \in Ids(d) /\ x # d.nodes[k].id
    <3>1. PICK j \in DOMAIN d.nodes : j < k /\ x = d.nodes[j].id
      BY <1>2 DEF Built
    <3>2. j # k
      BY <1>1, <3>1
    <3>3. QED
      BY <1>3, <3>1, <3>2 DEF OwnIds, Ids
  <2>3. ASSUME NEW e \in d.edges PROVE e[1] # e[2] /\ e[1] \in Ids(d) /\ e[2] \in Ids(d)
    <3>1. PICK k \in DOMAIN d.nodes : \E x \in d.nodes[k].dependsOn : e = <<x, d.nodes[k].id>>
      BY <1>2, BuiltDependencies
    <3>2. PICK x \in d.nodes[k].dependsOn : e = <<x, d.nodes[k].id>>
      BY <3>1
    <3>3. e[1] = x /\ e[2] = d.nodes[k].id
      BY <3>2
    <3>4. QED
      BY <2>2, <3>3
  <2>4. \A id \in Ids(d) : dependencyMap(d)[id] \subseteq Ids(d)
    <3> SUFFICES ASSUME NEW id \in Ids(d) PROVE dependencyMap(d)[id] \subseteq Ids(d)
      OBVIOUS
    <3>1. PICK k \in DOMAIN d.nodes : id = d.nodes[k].id
      BY DEF Ids
    <3>2. dependencyMap(d)[id] = d.nodes[k].dependsOn
      BY <1>2, <3>1, BuiltDependencies
    <3>3. QED
      BY <2>2, <3>2
  <2>5. ~hasCycle(dependencyMap(d))
    BY <1>2, BuiltIsAcyclic
  <2>6. {e \in d.edges : e[1] # e[2] /\ e[1] \in Ids(d) /\ e[2] \in Ids(d)} = d.edges
    BY <2>3
  <2>7. QED
    BY <1>5, <2>1, <2>4, <2>5, <2>6 DEF validateDag
<1>7. \A k \in DOMAIN d.nodes : validateExplicitDependencyEdges(d, k)
  <2> SUFFICES ASSUME NEW k \in DOMAIN d.nodes, NEW x \in d.nodes[k].dependsOn
               PROVE  /\ <<x, d.nodes[k].id>> \in d.edges
                      /\ \A j \in DOMAIN d.nodes : d.nodes[j].id = x => j <= k
    BY DEF validateExplicitDependencyEdges
  <2>1. <<x, d.nodes[k].id>> \in d.edges
    BY <1>2, BuiltDependencies
  <2>2. PICK j \in DOMAIN d.nodes : j < k /\ x = d.nodes[j].id
    BY <1>2 DEF Built
  <2>3. \A i \in DOMAIN d.nodes : d.nodes[i].id = x => i = j
    BY <1>3, <2>2 DEF OwnIds
  <2>4. j <= k
    BY <1>1, <2>2
  <2>5. QED
    BY <2>1, <2>3, <2>4
<1>8. \A k \in DOMAIN d.nodes : validatePlannerTaskCoverage(d, d.nodes[k])
  <2> SUFFICES ASSUME NEW k \in DOMAIN d.nodes, d.nodes[k].kind = "planner-task"
               PROVE  \E v \in ToSet(d.nodes) : v.type = "VALIDATION" /\ d.nodes[k].id \in v.dependsOn
    BY DEF validatePlannerTaskCoverage
  <2>1. \A t : validationDagNode(t).kind = "task-validation" /\ taskDagNode(plan, t).id = TaskNode(t)
               /\ validationDagNode(t).type = "VALIDATION" /\ validationDagNode(t).dependsOn = {TaskNode(t)}
    BY DEF validationDagNode, taskDagNode
  <2>2. PICK i \in 1 .. N : k = i /\ d.nodes[k] = taskDagNode(plan, o[i])
    BY <1>4, <2>1
  <2>3. i + N \in DOMAIN d.nodes /\ d.nodes[i + N] = validationDagNode(o[i])
    BY <1>1
  <2>4. d.nodes[i + N] \in ToSet(d.nodes)
    BY <2>3 DEF ToSet
  <2>5. QED
    BY <2>1, <2>2, <2>3, <2>4
<1>9. DagShape(d) /\ validateCompiledDag(d)
  BY <1>3, <1>5, <1>6, <1>7, <1>8 DEF validateCompiledDag
<1>10. QED
  BY <1>9 DEF d

\* The order of the nodes of a valid DAG: every node once, behind everything it depends on.
OrderFits(d, o) ==
  /\ Len(o) \in Nat /\ DOMAIN o = 1 .. Len(o)
  /\ \A i, j \in 1 .. Len(o) : o[i] = o[j] => i = j
  /\ {o[i] : i \in 1 .. Len(o)} = Ids(d)
  /\ \A i \in 1 .. Len(o) : dependencyMap(d)[o[i]] \subseteq {o[j] : j \in 1 .. i - 1}

\* A valid DAG is executed in such an order.
LEMMA ValidOrder ==
  ASSUME NEW d, DagShape(d), validateDag(d) PROVE OrderFits(d, topologicalNodes(d))
<1> DEFINE deps == dependencyMap(d)
           N == Cardinality(Ids(d))
           o == topologicalNodes(d)
<1>1. /\ deps = [n \in DOMAIN deps |-> deps[n]] /\ DOMAIN deps = Ids(d)
      /\ \A n \in Ids(d) : deps[n] \subseteq Ids(d)
      /\ ~hasCycle(deps)
  BY DEF validateDag, dependencyMap
<1>2. IsFiniteSet(Ids(d)) /\ Ids(d) \subseteq Int
  BY IdsFinite
<1>3. o = Layers(deps)
  BY <1>1 DEF topologicalNodes
<1> HIDE DEF deps, o
<1>4. Acyclic(deps)
  BY <1>1, <1>2 DEF Acyclic
<1>5. /\ N \in Nat /\ o \in [1 .. N -> Ids(d)]
      /\ \A i, j \in 1 .. N : i # j => o[i] # o[j]
      /\ \A n \in Ids(d) : \E i \in 1 .. N : o[i] = n
      /\ \A i, j \in 1 .. N : o[j] \in deps[o[i]] => j < i
  <2> DEFINE D == DOMAIN deps
             M == Cardinality(D)
             s == Layers(deps)
  <2>1. /\ M \in Nat /\ s \in [1 .. M -> D]
        /\ \A i, j \in 1 .. M : i # j => s[i] # s[j]
        /\ \A n \in D : \E i \in 1 .. M : s[i] = n
        /\ \A i, j \in 1 .. M : s[j] \in deps[s[i]] => j < i
    BY <1>1, <1>2, <1>4, LayersIs
  <2>2. D = Ids(d) /\ M = N /\ s = o
    BY <1>1, <1>3
  <2> HIDE DEF M, N, D, s
  <2>3. QED
    BY <2>1, <2>2
<1> HIDE DEF N
<1>6. Len(o) = N /\ DOMAIN o = 1 .. N
  <2>1. o \in Seq(Ids(d))
    BY <1>5, SeqDef
  <2>2. Len(o) \in Nat /\ DOMAIN o = 1 .. Len(o)
    BY <2>1, LenProperties
  <2>3. DOMAIN o = 1 .. N
    BY <1>5
  <2>4. N \in 1 .. Len(o) \/ N = 0
    BY <1>5, <2>2, <2>3
  <2>5. Len(o) \in 1 .. N \/ Len(o) = 0
    BY <1>5, <2>2, <2>3
  <2>6. QED
    BY <1>5, <2>2, <2>3, <2>4, <2>5
<1>7. ASSUME NEW i \in 1 .. N PROVE deps[o[i]] \subseteq {o[j] : j \in 1 .. i - 1}
  <2> SUFFICES ASSUME NEW x \in deps[o[i]] PROVE x \in {o[j] : j \in 1 .. i - 1}
    OBVIOUS
  <2>1. PICK j \in 1 .. N : o[j] = x
    BY <1>1, <1>5
  <2>2. j < i
    BY <1>5, <2>1
  <2>3. j \in 1 .. i - 1
    BY <1>5, <2>2
  <2>4. QED
    BY <2>1, <2>3
<1>8. {o[i] : i \in 1 .. N} = Ids(d)
  BY <1>5
<1>9. QED
  BY <1>5, <1>6, <1>7, <1>8 DEF OrderFits, deps, o

-----------------------------------------------------------------------------
(***************************************************************************)
(* The execution.                                                          *)
(***************************************************************************)
\* Every result has one of the four statuses.
Typed(res) == \A n \in DOMAIN res : res[n].status \in Statuses

\* The finished execution has a result for every node.
RunFits ==
  \/ run = NoRun \/ run = InvalidRun
  \/ /\ DOMAIN run.results = Ids(dag) /\ Typed(run.results)
     /\ run = [status |-> dagStatus(run.results), results |-> run.results]

\* The execution under way has a result for every node before at.
ResultsFit ==
  /\ OrderFits(dag, order) /\ at \in 1 .. Len(order) + 1
  /\ DOMAIN results = {order[i] : i \in 1 .. at - 1}

\* An execution is under way; a tool was called for the node at hand.
Working == pc \in {"simulate", "node", "tool", "command"}
Called  == pc \in {"tool", "command"}

\* The healing loop and the turn budget keep to their limits.
HealOk ==
  /\ heal = [attempts |-> heal.attempts, status |-> heal.status, patch |-> heal.patch]
  /\ heal.attempts \in 0 .. MaxHealingAttempts
TurnOk ==
  /\ turn = [tools |-> turn.tools, iterations |-> turn.iterations, grace |-> turn.grace]
  /\ turn.tools \in 0 .. MaxToolCalls /\ turn.iterations \in 0 .. MaxIterations

\* The node at hand was not blocked when its tool was called, nothing runs before the plan
\* is compiled, and a job that ended well has passed.
CalledOk == Called => at <= Len(order) /\ blockedBy(dag, order[at], results) = {}
NotYet   == pc \in {"review", "compile"} => results = << >> /\ run = NoRun
HealedOk == heal.status \in {"VALIDATED", "HEALED"} => pc = "done" /\ Passed

\* The inductive invariant: where an execution stands in its order, and what its results and
\* the finished run say of the nodes.
ExecInv ==
  /\ job \in Jobs /\ DagShape(dag) /\ HealOk /\ TurnOk
  /\ Typed(results) /\ Sound(results)
  /\ RunFits /\ Sound(run.results)
  /\ pc # "miscompiled" /\ NotYet
  /\ Working => ResultsFit
  /\ CalledOk /\ HealedOk

\* Every status is one of the four.
LEMMA NodeStatuses ==
  /\ \A d, node, opt, res : executeNode(d, node, opt, res).status \in Statuses
  /\ \A d, node, res : resultWithoutTool(d, node, res).status \in Statuses
  /\ \A r : nodeResultFromOperation(r).status \in Statuses
  /\ \A code : Result("FAILED", code).status \in Statuses
  /\ \A code : Result("SKIPPED", code).status = "SKIPPED"
<1>1. \A status, code : Result(status, code).status = status
  BY DEF Result
<1>2. ASSUME NEW d, NEW node, NEW opt, NEW res PROVE executeNode(d, node, opt, res).status \in Statuses
  BY <1>1 DEF executeNode, injectedOutcome, Statuses
<1>3. ASSUME NEW d, NEW node, NEW res PROVE resultWithoutTool(d, node, res).status \in Statuses
  BY <1>1 DEF resultWithoutTool, Statuses
<1>4. ASSUME NEW r PROVE nodeResultFromOperation(r).status \in Statuses
  BY <1>1 DEF nodeResultFromOperation, Statuses
<1>5. QED
  BY <1>1, <1>2, <1>3, <1>4 DEF Statuses

\* The result of the next node is sound among those of the nodes before it.
LEMMA RecordFits ==
  ASSUME ResultsFit, Typed(results), Sound(results), at <= Len(order),
         NEW r, r.status \in Statuses, r.status = "SKIPPED" \/ blockedBy(dag, order[at], results) = {},
         Record(r), UNCHANGED <<dag, order>>
  PROVE  ResultsFit' /\ Typed(results') /\ Sound(results)'
<1> DEFINE id == order[at]
<1>1. at \in 1 .. Len(order) /\ Len(order) \in Nat /\ at' = at + 1 /\ (at + 1) - 1 = at
  BY DEF ResultsFit, OrderFits, Record
<1>2. results' = [n \in DOMAIN results \cup {id} |-> IF n = id THEN r ELSE results[n]]
  BY DEF Record, Recorded
<1>3. id \notin DOMAIN results
  <2>1. \A i \in 1 .. at - 1 : i \in 1 .. Len(order) /\ i # at
    BY <1>1
  <2>2. QED
    BY <1>1, <2>1 DEF ResultsFit, OrderFits
<1>4. DOMAIN results' = DOMAIN results \cup {id} /\ results'[id] = r
      /\ \A n \in DOMAIN results : results'[n] = results[n]
  BY <1>2, <1>3
<1> HIDE DEF id
<1>5. {order[i] : i \in 1 .. at} = {order[i] : i \in 1 .. at - 1} \cup {id}
  <2>1. \A i : i \in 1 .. at <=> i \in 1 .. at - 1 \/ i = at
    BY <1>1
  <2>2. QED
    BY <2>1 DEF id
<1>6. ResultsFit'
  <2>1. at' \in 1 .. Len(order) + 1 /\ 1 .. at' - 1 = 1 .. at
    BY <1>1
  <2>2. QED
    BY <1>4, <1>5, <2>1 DEF ResultsFit
<1>7. Typed(results')
  BY <1>4 DEF Typed
<1>8. Sound(results)'
  <2> SUFFICES ASSUME NEW n \in DOMAIN results' \ {WholeDag}, results'[n].status # "SKIPPED",
                      NEW d \in dependencyMap(dag)[n]
               PROVE  d \in DOMAIN results' /\ Completed(results'[d])
    BY DEF Sound
  <2>1. CASE n = id
    <3>1. blockedBy(dag, id, results) = {}
      BY <1>4, <2>1 DEF id
    <3>2. d \in DOMAIN results
      BY <1>1, <2>1 DEF ResultsFit, OrderFits, id
    <3>3. ~Blocking(results[d])
      BY <2>1, <3>1, <3>2 DEF blockedBy
    <3>4. Completed(results[d])
      BY <3>2, <3>3 DEF Typed, Statuses, Blocking, Completed
    <3>5. QED
      BY <1>4, <3>2, <3>4
  <2>2. CASE n # id
    <3>1. n \in DOMAIN results \ {WholeDag} /\ results[n].status # "SKIPPED"
      BY <1>4, <2>2
    <3>2. d \in DOMAIN results /\ Completed(results[d])
      BY <3>1 DEF Sound
    <3>3. QED
      BY <1>4, <3>2
  <2>3. QED
    BY <2>1, <2>2
<1>9. QED
  BY <1>6, <1>7, <1>8

\* An interrupt leaves the rest of the nodes skipped: the run has a result for every node.
LEMMA RemainderFits ==
  ASSUME ResultsFit, Typed(results), Sound(results), at <= Len(order),
         results' = appendAbortedRemainder(order, at, results), UNCHANGED dag
  PROVE  DOMAIN results' = Ids(dag) /\ Typed(results') /\ Sound(results)'
<1> DEFINE rest == {order[i] : i \in at .. Len(order)}
<1>1. results' = [n \in DOMAIN results \cup rest |-> IF n \in rest THEN Result("SKIPPED", "ABORTED") ELSE results[n]]
  BY DEF appendAbortedRemainder
<1>2. \A n \in DOMAIN results : n \notin rest
  <2>1. \A i \in 1 .. at - 1 : \A j \in at .. Len(order) : i \in 1 .. Len(order) /\ j \in 1 .. Len(order) /\ i # j
    BY DEF ResultsFit, OrderFits
  <2>2. QED
    BY <2>1 DEF ResultsFit, OrderFits
<1>3. Result("SKIPPED", "ABORTED").status = "SKIPPED"
  BY NodeStatuses
<1>4. DOMAIN results \cup rest = Ids(dag)
  <2>1. \A i : i \in 1 .. Len(order) <=> i \in 1 .. at - 1 \/ i \in at .. Len(order)
    BY DEF ResultsFit, OrderFits
  <2>2. QED
    BY <2>1 DEF ResultsFit, OrderFits
<1> HIDE DEF rest
<1>5. /\ DOMAIN results' = DOMAIN results \cup rest
      /\ \A n \in DOMAIN results : results'[n] = results[n]
      /\ \A n \in rest : results'[n].status = "SKIPPED"
  BY <1>1, <1>2, <1>3
<1>6. Typed(results')
  BY <1>5 DEF Typed, Statuses
<1>7. Sound(results)'
  <2> SUFFICES ASSUME NEW n \in DOMAIN results' \ {WholeDag}, results'[n].status # "SKIPPED",
                      NEW d \in dependencyMap(dag)[n]
               PROVE  d \in DOMAIN results' /\ Completed(results'[d])
    BY DEF Sound
  <2>1. n \in DOMAIN results \ {WholeDag} /\ results[n].status # "SKIPPED"
    BY <1>5
  <2>2. d \in DOMAIN results /\ Completed(results[d])
    BY <2>1 DEF Sound
  <2>3. QED
    BY <1>5, <2>2
<1>8. QED
  BY <1>4, <1>5, <1>6, <1>7

\* A run that passed has completed every node.
LEMMA PassedIsDone ==
  ASSUME RunFits, Passed, run.status \in {"SUCCESS", "SKIPPED"}
  PROVE  \A id \in Ids(dag) : id \in DOMAIN run.results /\ Completed(run.results[id])
<1> DEFINE res == run.results
<1>1. DOMAIN res = Ids(dag) /\ Typed(res) /\ run.status = dagStatus(res)
  <2>1. NoRun.status = "none" /\ InvalidRun.status = "FAILED"
    BY DEF NoRun, InvalidRun
  <2>2. run # NoRun /\ run # InvalidRun
    BY <2>1
  <2>3. \A s, q : [status |-> s, results |-> q].status = s
    OBVIOUS
  <2>4. QED
    BY <2>2, <2>3 DEF RunFits
<1> HIDE DEF res
<1>2. ASSUME NEW n \in DOMAIN res PROVE ~Blocking(res[n])
  <2>1. CASE run.status = "SUCCESS"
    BY <1>1, <2>1 DEF dagStatus, Blocking
  <2>2. CASE run.status = "SKIPPED"
    BY <2>2 DEF Passed, classifyExecutionFailures, res
  <2>3. QED
    BY <2>1, <2>2
<1>3. QED
  BY <1>1, <1>2 DEF Typed, Statuses, Blocking, Completed, res

\* Nothing has been executed, and the DAG is one of the jobs' or empty.
LEMMA ExecInit == Init => ExecInv
<1> SUFFICES ASSUME Init PROVE ExecInv
  OBVIOUS
<1>1. DOMAIN results = {} /\ DOMAIN run.results = {} /\ results = << >> /\ run = NoRun
  BY DEF Init, NoRun
<1>2. DagShape(dag)
  <2>1. CASE job.planned
    <3>1. dag.nodes = << >>
      BY <2>1 DEF Init
    <3>2. QED
      BY <3>1 DEF DagShape
  <2>2. CASE ~job.planned
    BY <2>2, JobsAssumption DEF Init, DagShape
  <2>3. QED
    BY <2>1, <2>2
<1>3. HealOk /\ heal.status = "none"
  BY HealingAssumption DEF Init, NewHeal, HealOk
<1>4. TurnOk
  BY BudgetAssumption DEF Init, SandboxInit, NewTurn, TurnOk
<1>5. pc \in {"review", "start"}
  BY DEF Init
<1>6. job \in Jobs /\ Typed(results) /\ Sound(results) /\ RunFits /\ Sound(run.results) /\ NotYet
  BY <1>1 DEF Init, Typed, Sound, RunFits, NotYet
<1>7. QED
  BY <1>2, <1>3, <1>4, <1>5, <1>6 DEF ExecInv, Working, Called, CalledOk, HealedOk

\* Attempts and iterations are counted up to their limits.
LEMMA BudgetsNext ==
  ASSUME ExecInv, [Next]_vars PROVE HealOk' /\ TurnOk' /\ job' \in Jobs
<1>0. Attempts <= MaxHealingAttempts /\ MaxHealingAttempts \in Nat /\ MaxToolCalls \in Nat /\ MaxIterations \in Nat
  BY HealingAssumption, BudgetAssumption DEF Attempts
<1>1. HealOk'
  <2>1. CASE heal' = heal
    BY <2>1 DEF ExecInv, HealOk
  <2>2. CASE Retry \/ AskRepair
    <3>1. heal' = [heal EXCEPT !.attempts = @ + 1] /\ heal.attempts < Attempts
      BY <2>2 DEF Retry, AskRepair, BeginAttempt
    <3>2. Attempts \in Nat
      BY <1>0, HealingAssumption DEF Attempts
    <3>3. QED
      BY <1>0, <3>1, <3>2 DEF ExecInv, HealOk
  <2>3. ASSUME NEW s, Settle(s) PROVE HealOk'
    BY <2>3 DEF Settle, ExecInv, HealOk
  <2>4. CASE Propose
    <3>1. PICK t : heal' = [heal EXCEPT !.patch = t]
      BY <2>4 DEF Propose
    <3>2. QED
      BY <3>1 DEF ExecInv, HealOk
  <2>5. QED
    BY <2>1, <2>2, <2>3, <2>4
    DEF Next, Step, vars, execVars, Review, Compile, StartInvalid, Start, EndExecution, StopAborted, SkipBlocked,
        SimulateNode, RunWithoutTool, CallTool, ToolRefuses, Operate, EndCommand, Validate, HealPassed,
        HealAborted, RequestDecision, GiveUp, OutOfIterations, NoProposal, ApplyRepair,
        ApplyThrows, NotApplied, Timer, Child, Abort
<1>2. TurnOk'
  <2>1. CASE turn' = turn
    BY <2>1 DEF ExecInv, TurnOk
  <2>2. CASE CanConsumeToolCall /\ turn' = ToolCallConsumed
    BY <1>0, <2>2 DEF ExecInv, TurnOk, CanConsumeToolCall, ToolCallConsumed
  <2>3. CASE turn' = IterationConsumed \/ turn' = GraceGranted
    BY <1>0, <2>3 DEF ExecInv, TurnOk, IterationConsumed, GraceGranted
  <2>4. CASE Operate
    <3>1. CanConsumeToolCall
      BY <2>4 DEF Operate, Tool, runToolWithMiddleware
    <3>2. QED
      BY <2>2, <2>4, <3>1 DEF Operate
  <2>5. QED
    BY <2>1, <2>2, <2>3, <2>4
    DEF Next, Step, vars, sandboxVars, Review, Compile, StartInvalid, Start, EndExecution, StopAborted, SkipBlocked,
        SimulateNode, RunWithoutTool, CallTool, ToolRefuses, EndCommand, Validate, HealPassed,
        HealAborted, RequestDecision, GiveUp, OutOfIterations, Retry, AskRepair, BeginAttempt, NoProposal, Propose, ApplyRepair,
        ApplyThrows, NotApplied, Timer, Child, Abort
<1>3. job' = job
  BY DEF Next, Step, vars, execVars, Review, Compile, StartInvalid, Start, EndExecution, StopAborted, SkipBlocked,
        SimulateNode, RunWithoutTool, CallTool, ToolRefuses, Operate, EndCommand, Validate, HealPassed,
        HealAborted, RequestDecision, GiveUp, OutOfIterations, Retry, AskRepair, BeginAttempt, NoProposal, Propose, ApplyRepair,
        ApplyThrows, NotApplied, Timer, Child, Abort, Settle
<1>4. QED
  BY <1>1, <1>2, <1>3 DEF ExecInv

\* One step per action: what is recorded, what is made of the results, and what only moves on.
LEMMA ExecNext == ExecInv /\ [Next]_vars => ExecInv'
<1> SUFFICES ASSUME ExecInv, [Next]_vars PROVE ExecInv'
  OBVIOUS
<1>1. HealOk' /\ TurnOk' /\ job' \in Jobs
  BY BudgetsNext
<1>2. ASSUME UNCHANGED <<dag, results, run>>, pc' \notin {"review", "compile", "miscompiled"},
             Working' => ResultsFit', CalledOk', HealedOk'
      PROVE  ExecInv'
  <2>1. Typed(results') /\ Sound(results)' /\ RunFits' /\ Sound(run.results)' /\ DagShape(dag)'
    BY <1>2 DEF ExecInv, Typed, Sound, RunFits
  <2>2. NotYet'
    BY <1>2 DEF NotYet
  <2>3. QED
    BY <1>1, <1>2, <2>1, <2>2 DEF ExecInv
<1>3. ASSUME UNCHANGED <<dag, results, run>>, ~Working', pc' \notin {"review", "compile", "miscompiled"}, HealedOk'
      PROVE  ExecInv'
  BY <1>2, <1>3 DEF Working, Called, CalledOk
<1>4. ASSUME NEW r, Working, at <= Len(order), r.status \in Statuses,
             r.status = "SKIPPED" \/ blockedBy(dag, order[at], results) = {},
             Record(r), UNCHANGED <<dag, order, run, heal>>, pc' \in {"simulate", "node"}
      PROVE  ExecInv'
  <2>1. ResultsFit' /\ Typed(results') /\ Sound(results)'
    BY <1>4, RecordFits DEF ExecInv
  <2>2. RunFits' /\ Sound(run.results)' /\ DagShape(dag)'
    BY <1>4 DEF ExecInv, RunFits, Sound
  <2>3. NotYet' /\ CalledOk' /\ pc' # "miscompiled"
    BY <1>4 DEF NotYet, CalledOk, Called
  <2>4. HealedOk'
    BY <1>4 DEF ExecInv, HealedOk, Working
  <2>5. QED
    BY <1>1, <2>1, <2>2, <2>3, <2>4 DEF ExecInv
<1>5. ASSUME UNCHANGED <<dag, heal>>, pc \in {"simulate", "node"}, pc' \in {"validate", "heal"},
             DOMAIN results' = Ids(dag), Typed(results'), Sound(results)',
             run' = [status |-> dagStatus(results'), results |-> results']
      PROVE  ExecInv'
  <2>1. run'.results = results' /\ run'.status = dagStatus(results')
    BY <1>5
  <2>2. RunFits'
    BY <1>5, <2>1 DEF RunFits
  <2>3. Sound(run.results)' /\ DagShape(dag)'
    BY <1>5, <2>1 DEF ExecInv, Sound
  <2>4. NotYet' /\ CalledOk' /\ pc' # "miscompiled" /\ ~Working'
    BY <1>5 DEF NotYet, CalledOk, Called, Working
  <2>5. HealedOk'
    BY <1>5 DEF ExecInv, HealedOk
  <2>6. QED
    BY <1>1, <1>5, <2>2, <2>3, <2>4, <2>5 DEF ExecInv
<1>6. ASSUME NEW s, Settle(s), s \in {"VALIDATED", "HEALED"} => Passed PROVE ExecInv'
  <2>1. UNCHANGED <<dag, results, run>> /\ pc' = "done" /\ heal' = [heal EXCEPT !.status = s]
    BY <1>6 DEF Settle
  <2>2. heal'.status = s
    BY <2>1 DEF ExecInv, HealOk
  <2>3. HealedOk'
    BY <1>6, <2>1, <2>2 DEF HealedOk, Passed, classifyExecutionFailures
  <2>4. QED
    BY <1>3, <2>1, <2>3 DEF Working
<1>7. CASE Review
  <2>1. UNCHANGED <<dag, order, at, results, run, heal>> /\ pc = "review" /\ pc' \in {"compile", "rejected"}
    BY <1>7 DEF Review
  <2>2. Typed(results') /\ Sound(results)' /\ RunFits' /\ Sound(run.results)' /\ DagShape(dag)'
    BY <2>1 DEF ExecInv, Typed, Sound, RunFits
  <2>3. NotYet' /\ ~Working' /\ CalledOk' /\ HealedOk' /\ pc' # "miscompiled"
    BY <2>1 DEF ExecInv, NotYet, Working, CalledOk, Called, HealedOk
  <2>4. QED
    BY <1>1, <2>2, <2>3 DEF ExecInv
<1>8. CASE Compile
  <2>1. UNCHANGED <<job, order, at, results, run, heal>> /\ pc = "compile"
    BY <1>8 DEF Compile
  <2>2. results = << >> /\ run = NoRun /\ DOMAIN results = {} /\ DOMAIN run.results = {}
    <3>1. results = << >> /\ run = NoRun
      BY <2>1 DEF ExecInv, NotYet
    <3>2. QED
      BY <3>1 DEF NoRun
  <2>3. DagShape(dag') /\ pc' \in {"threw", "start"}
    <3>1. CASE CompileThrows(job.plan)
      BY <1>8, <3>1 DEF Compile, ExecInv
    <3>2. CASE ~CompileThrows(job.plan)
      <4>1. Fine(job.plan)
        BY <3>2, JobsAssumption DEF Fine, Tasks, ExecInv
      <4>2. DagShape(compileAcceptedPlanToDag(job.plan)) /\ validateCompiledDag(compileAcceptedPlanToDag(job.plan))
        BY <4>1, CompiledIsValid
      <4>3. QED
        BY <1>8, <3>2, <4>2 DEF Compile
    <3>3. QED
      BY <3>1, <3>2
  <2>4. Typed(results') /\ Sound(results)' /\ RunFits' /\ Sound(run.results)'
    BY <2>1, <2>2 DEF Typed, Sound, RunFits
  <2>5. NotYet' /\ ~Working' /\ CalledOk' /\ HealedOk' /\ pc' # "miscompiled"
    BY <2>1, <2>3 DEF ExecInv, NotYet, Working, CalledOk, Called, HealedOk
  <2>6. QED
    BY <1>1, <2>3, <2>4, <2>5 DEF ExecInv
<1>9. CASE StartInvalid
  <2>1. UNCHANGED <<dag, results, heal>> /\ pc = "start" /\ pc' \in {"heal", "validate"} /\ run' = InvalidRun
    BY <1>9 DEF StartInvalid, Ended
  <2>2. DOMAIN InvalidRun.results = {WholeDag}
    BY DEF InvalidRun
  <2>3. Typed(results') /\ Sound(results)' /\ RunFits' /\ Sound(run.results)' /\ DagShape(dag)'
    BY <2>1, <2>2 DEF ExecInv, Typed, Sound, RunFits
  <2>4. NotYet' /\ ~Working' /\ CalledOk' /\ HealedOk' /\ pc' # "miscompiled"
    BY <2>1 DEF ExecInv, NotYet, Working, CalledOk, Called, HealedOk
  <2>5. QED
    BY <1>1, <2>3, <2>4 DEF ExecInv
<1>10. CASE Start
  <2>1. /\ UNCHANGED <<dag, run, heal>> /\ pc = "start" /\ pc' \in {"simulate", "node"}
        /\ results' = << >> /\ order' = topologicalNodes(dag) /\ at' = 1 /\ validateDag(dag)
    BY <1>10 DEF Start
  <2>2. DOMAIN results' = {}
    BY <2>1
  <2>3. Typed(results') /\ Sound(results)' /\ RunFits' /\ Sound(run.results)' /\ DagShape(dag)'
    BY <2>1, <2>2 DEF ExecInv, Typed, Sound, RunFits
  <2>4. OrderFits(dag, order')
    BY <2>1, ValidOrder DEF ExecInv
  <2>5. ResultsFit'
    <3>1. at' \in 1 .. Len(order') + 1 /\ 1 .. at' - 1 = {}
      BY <2>1, <2>4 DEF OrderFits
    <3>2. {order'[i] : i \in 1 .. at' - 1} = {}
      BY <3>1
    <3>3. QED
      BY <2>1, <2>2, <2>4, <3>1, <3>2 DEF ResultsFit
  <2>6. NotYet' /\ CalledOk' /\ HealedOk' /\ pc' # "miscompiled"
    BY <2>1 DEF ExecInv, NotYet, CalledOk, Called, HealedOk
  <2>7. QED
    BY <1>1, <2>3, <2>5, <2>6 DEF ExecInv
<1>11. CASE EndExecution
  <2>1. /\ UNCHANGED <<dag, heal, results>> /\ pc \in {"simulate", "node"} /\ pc' \in {"validate", "heal"}
        /\ run' = [status |-> dagStatus(results), results |-> results] /\ at > Len(order)
    BY <1>11 DEF EndExecution, Ended, AfterExecution, InLoop
  <2>2. ResultsFit
    BY <2>1 DEF ExecInv, Working
  <2>3. 1 .. at - 1 = 1 .. Len(order)
    BY <2>1, <2>2 DEF ResultsFit, OrderFits
  <2>4. DOMAIN results = Ids(dag)
    BY <2>2, <2>3 DEF ResultsFit, OrderFits
  <2>5. Typed(results') /\ Sound(results)'
    BY <2>1 DEF ExecInv, Typed, Sound
  <2>6. QED
    BY <1>5, <2>1, <2>4, <2>5
<1>12. CASE StopAborted
  <2>1. /\ UNCHANGED <<dag, heal>> /\ pc \in {"simulate", "node"} /\ pc' \in {"validate", "heal"}
        /\ run' = [status |-> dagStatus(results'), results |-> results'] /\ at <= Len(order)
        /\ results' = appendAbortedRemainder(order, at, results)
    BY <1>12 DEF StopAborted, Ended, AfterExecution, InLoop
  <2>2. ResultsFit
    BY <2>1 DEF ExecInv, Working
  <2>3. DOMAIN results' = Ids(dag) /\ Typed(results') /\ Sound(results)'
    BY <2>1, <2>2, RemainderFits DEF ExecInv
  <2>4. QED
    BY <1>5, <2>1, <2>3
<1>13. CASE SkipBlocked
  <2>1. /\ Working /\ at <= Len(order) /\ Record(Result("SKIPPED", "DEPENDENCY_FAILED"))
        /\ UNCHANGED <<dag, order, run, heal>> /\ pc' \in {"simulate", "node"}
    BY <1>13 DEF SkipBlocked, AtNode, InLoop, Working
  <2>2. Result("SKIPPED", "DEPENDENCY_FAILED").status = "SKIPPED" /\ "SKIPPED" \in Statuses
    BY NodeStatuses DEF Statuses
  <2>3. QED
    BY <1>4, <2>1, <2>2
<1>14. CASE SimulateNode \/ RunWithoutTool
  <2>1. /\ Working /\ at <= Len(order) /\ blockedBy(dag, order[at], results) = {}
        /\ UNCHANGED <<dag, order, run, heal>> /\ pc' \in {"simulate", "node"}
    BY <1>14 DEF SimulateNode, RunWithoutTool, Ready, AtNode, InLoop, Working
  <2>2. \E r : r.status \in Statuses /\ Record(r)
    BY <1>14, NodeStatuses DEF SimulateNode, RunWithoutTool
  <2>3. QED
    BY <1>4, <2>1, <2>2
<1>15. CASE CallTool
  <2>1. /\ pc = "node" /\ pc' = "tool" /\ UNCHANGED <<dag, order, at, results, run, heal>>
        /\ at <= Len(order) /\ blockedBy(dag, order[at], results) = {}
    BY <1>15 DEF CallTool, Ready, AtNode
  <2>2. ResultsFit'
    BY <2>1 DEF ExecInv, Working, ResultsFit
  <2>3. CalledOk' /\ HealedOk'
    BY <2>1 DEF ExecInv, CalledOk, HealedOk
  <2>4. QED
    BY <1>2, <2>1, <2>2, <2>3
<1>16. CASE ToolRefuses \/ EndCommand
  <2>1. /\ pc \in {"tool", "command"} /\ pc' = "node" /\ UNCHANGED <<dag, order, run, heal>>
    BY <1>16 DEF ToolRefuses, EndCommand
  <2>2. Working /\ at <= Len(order) /\ blockedBy(dag, order[at], results) = {}
    BY <2>1 DEF ExecInv, CalledOk, Called, Working
  <2>3. \E r : r.status \in Statuses /\ Record(r)
    BY <1>16, NodeStatuses DEF ToolRefuses, EndCommand
  <2>4. QED
    BY <1>4, <2>1, <2>2, <2>3
<1>17. CASE Operate
  <2>1. pc = "tool" /\ UNCHANGED <<dag, order, run, heal>>
    BY <1>17 DEF Operate
  <2>2. Working /\ at <= Len(order) /\ blockedBy(dag, order[at], results) = {}
    BY <2>1 DEF ExecInv, CalledOk, Called, Working
  <2>3. CASE pc' = "command" /\ UNCHANGED <<at, results>>
    <3>1. ResultsFit' /\ CalledOk' /\ HealedOk'
      BY <2>1, <2>2, <2>3 DEF ExecInv, ResultsFit, CalledOk, HealedOk
    <3>2. QED
      BY <1>2, <2>1, <2>3, <3>1
  <2>4. ASSUME NEW r, r.status \in Statuses, Record(r), pc' = "node" PROVE ExecInv'
    BY <1>4, <2>1, <2>2, <2>4
  <2>5. QED
    BY <1>17, <2>3, <2>4, NodeStatuses DEF Operate
<1>18. CASE Timer \/ Child \/ Abort \/ UNCHANGED vars
  <2>1. UNCHANGED execVars
    BY <1>18 DEF Timer, Child, Abort, vars
  <2>2. Typed(results') /\ Sound(results)' /\ RunFits' /\ Sound(run.results)' /\ DagShape(dag)'
    BY <2>1 DEF execVars, ExecInv, Typed, Sound, RunFits
  <2>3. NotYet' /\ (Working' => ResultsFit') /\ CalledOk' /\ HealedOk' /\ pc' # "miscompiled"
    BY <2>1 DEF execVars, ExecInv, NotYet, Working, ResultsFit, CalledOk, Called, HealedOk, Passed,
                classifyExecutionFailures
  <2>4. QED
    BY <1>1, <2>2, <2>3 DEF ExecInv
<1>19. CASE Validate
  <2>1. CASE Settle("skipped")
    BY <1>6, <2>1
  <2>2. CASE pc = "validate" /\ pc' = "heal" /\ UNCHANGED <<dag, order, at, results, run, heal>>
    <3>1. HealedOk'
      BY <2>2 DEF ExecInv, HealedOk
    <3>2. QED
      BY <1>3, <2>2, <3>1 DEF Working
  <2>3. QED
    BY <1>19, <2>1, <2>2 DEF Validate
<1>20. CASE HealPassed
  <2>1. Passed
    BY <1>20 DEF HealPassed, EarlySuccess, Passed
  <2>2. QED
    BY <1>6, <1>20, <2>1 DEF HealPassed
<1>21. CASE HealAborted \/ RequestDecision \/ GiveUp \/ OutOfIterations \/ NoProposal \/ NotApplied
  <2>1. \E s : Settle(s) /\ s \notin {"VALIDATED", "HEALED"}
    <3>1. \A s \in {"FAILED", "NEEDS_DECISION"} : s \notin {"VALIDATED", "HEALED"}
      OBVIOUS
    <3>2. QED
      BY <1>21, <3>1 DEF HealAborted, RequestDecision, GiveUp, OutOfIterations, NoProposal, NotApplied
  <2>2. QED
    BY <1>6, <2>1
<1>22. CASE Retry \/ AskRepair
  <2>1. /\ UNCHANGED <<dag, results, run>> /\ pc' \in {"start", "repair"} /\ pc = "heal"
        /\ heal' = [heal EXCEPT !.attempts = @ + 1]
    BY <1>22 DEF Retry, AskRepair, BeginAttempt, MayHeal, AtFailure
  <2>2. heal'.status = heal.status
    BY <2>1 DEF ExecInv, HealOk
  <2>3. HealedOk'
    BY <2>1, <2>2 DEF ExecInv, HealedOk
  <2>4. QED
    BY <1>3, <2>1, <2>3 DEF Working
<1>23. CASE Propose
  <2>1. /\ UNCHANGED <<dag, results, run>> /\ pc' = "apply" /\ pc = "repair"
        /\ \E t : heal' = [heal EXCEPT !.patch = t]
    BY <1>23 DEF Propose
  <2>2. heal'.status = heal.status
    BY <2>1 DEF ExecInv, HealOk
  <2>3. HealedOk'
    BY <2>1, <2>2 DEF ExecInv, HealedOk
  <2>4. QED
    BY <1>3, <2>1, <2>3 DEF Working
<1>24. CASE ApplyRepair \/ ApplyThrows
  <2>1. UNCHANGED <<dag, results, run, heal>> /\ pc' \in {"start", "threw"} /\ pc = "apply"
    BY <1>24 DEF ApplyRepair, ApplyThrows
  <2>2. HealedOk'
    BY <2>1 DEF ExecInv, HealedOk
  <2>3. QED
    BY <1>3, <2>1, <2>2 DEF Working
<1>25. QED
  BY <1>7, <1>8, <1>9, <1>10, <1>11, <1>12, <1>13, <1>14, <1>15, <1>16, <1>17, <1>18, <1>19, <1>20,
     <1>21, <1>22, <1>23, <1>24 DEF Next, Step

(***************************************************************************)
(* What is executed is the plan: the compiler's check of its own DAG never *)
(* fails (dagCompiler.ts, assertValidCompiledDag), and no node runs, in    *)
(* the sandbox or in the simulator, before everything it depends on has    *)
(* completed (sandboxExecutor.ts, executorSimulator.ts), whatever fails,   *)
(* times out or is interrupted, in the first execution and in every        *)
(* healing round.                                                          *)
(***************************************************************************)
THEOREM FollowsPlanCorrect == Spec => []ExecutionFollowsPlan
<1>1. ExecInv => ExecutionFollowsPlan
  <2> SUFFICES ASSUME ExecInv PROVE ExecutionFollowsPlan
    OBVIOUS
  <2>1. \A res : dagStatus(res) \in {"SUCCESS", "FAILED", "PARTIAL", "SKIPPED"}
    BY DEF dagStatus
  <2>2. NoRun.status = "none" /\ InvalidRun.status = "FAILED"
    BY DEF NoRun, InvalidRun
  <2>3. run.status \in {"none", "SUCCESS", "FAILED", "PARTIAL", "SKIPPED"}
    <3>1. CASE run = [status |-> dagStatus(run.results), results |-> run.results]
      <4>1. run.status = dagStatus(run.results)
        BY <3>1
      <4>2. QED
        BY <2>1, <4>1
    <3>2. QED
      BY <2>2, <3>1 DEF ExecInv, RunFits
  <2>4. QED
    BY <2>3 DEF ExecInv, Typed, HealOk, TurnOk, ExecutionFollowsPlan, TypeOK, CompilerAgreesWithItself,
                DependenciesCompleted
<1>2. QED
  BY <1>1, ExecInit, ExecNext, PTL DEF Spec

(***************************************************************************)
(* A job is reported VALIDATED or HEALED only when every node of its DAG   *)
(* has completed in the last execution (validationHealing.ts).             *)
(***************************************************************************)
THEOREM ValidatedCorrect == Spec => []ValidatedMeansDone
<1>1. ExecInv => ValidatedMeansDone
  <2> SUFFICES ASSUME ExecInv, heal.status \in {"VALIDATED", "HEALED"}
               PROVE  \A id \in Ids(dag) : id \in DOMAIN run.results /\ Completed(run.results[id])
    BY DEF ValidatedMeansDone
  <2>1. Passed /\ RunFits
    BY DEF ExecInv, HealedOk
  <2>2. run.status \in {"SUCCESS", "SKIPPED"}
    BY <2>1 DEF Passed
  <2>3. QED
    BY <2>1, <2>2, PassedIsDone
<1>2. QED
  BY <1>1, ExecInit, ExecNext, PTL DEF Spec
=============================================================================
