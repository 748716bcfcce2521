---------------------------- MODULE StoreProofs -----------------------------
(***************************************************************************)
(* Proofs about what is stored.  The two stores of a run come first, for   *)
(* every set of callers, every set of requested phases, every retry bound  *)
(* and every length of the log: RunStateMachine, then SqlRunStore, which   *)
(* needs the same lemmas on patches, logs and outcomes.  The configuration *)
(* files of Settings follow.                                               *)
(***************************************************************************)
EXTENDS RunStateMachine, SqlRunStore, Settings, SequenceTheorems, TLAPS

\* Every edge of the transition table leads to a phase.
LEMMA AllowedTargets ==
  \A p \in RunPhase : \A q : isAllowedRunPhaseTransition(p, q) => q \in RunPhase
BY DEF RunPhase, isAllowedRunPhaseTransition, ALLOWED_RUN_PHASE_TRANSITIONS, Exits

\* statusForPhase is total.
LEMMA StatusType == \A p : statusForPhase(p) \in RunStatus
BY DEF statusForPhase, RunStatus

\* The fields buildRunPatch replaces keep a run a run ...
LEMMA RunUpdateType ==
  ASSUME NEW r \in Run, NEW p \in RunPhase, NEW s \in RunStatus, NEW v \in Nat,
         NEW d \in BOOLEAN
  PROVE  [r EXCEPT !.phase = p, !.status = s, !.version = v,
                   !.decisionRequest = d] \in Run
BY DEF Run

\* ... and so does the usage updateRun replaces.
LEMMA UsageUpdateType ==
  ASSUME NEW r \in Run, NEW u \in Nat
  PROVE  [r EXCEPT !.usage = u] \in Run
BY DEF Run

\* What commitRunTransition stores is a run.
LEMMA PatchedType ==
  ASSUME TypeOK, NEW c \in Callers, NEW r \in Run
  PROVE  Patched(r, c) \in Run
<1> DEFINE d == IF request[c].target = "NEEDS_DECISION" THEN TRUE
                ELSE IF request[c].decision THEN FALSE ELSE r.decisionRequest
<1>1. request[c] \in Request /\ seen[c] \in Run
  BY DEF TypeOK
<1>2. d \in BOOLEAN
  BY <1>1 DEF Run, Request
<1>3. request[c].target \in RunPhase /\ seen[c].version + 1 \in Nat
  BY <1>1 DEF Run, Request
<1>4. statusForPhase(request[c].target) \in RunStatus
  BY StatusType
<1> HIDE DEF d
<1>5. [r EXCEPT !.phase = request[c].target,
                !.status = statusForPhase(request[c].target),
                !.version = seen[c].version + 1,
                !.decisionRequest = d] \in Run
  BY <1>1, <1>2, <1>3, <1>4, RunUpdateType
<1>6. QED
  BY <1>5 DEF d, Patched

\* Every step of a caller or of the store keeps the types.
LEMMA TypeStep == TypeOK /\ [Next]_callVars => TypeOK'
<1> SUFFICES ASSUME TypeOK, [Next]_callVars
             PROVE  TypeOK'
  OBVIOUS
<1> USE DEF TypeOK, Goto
<1>1. ASSUME NEW c \in Callers, Call(c)
      PROVE  TypeOK'
  BY <1>1, TargetsAssumption DEF Call, Request, Suspended
<1>2. ASSUME NEW c \in Callers, StartUsage(c)
      PROVE  TypeOK'
  BY <1>2 DEF StartUsage, Suspended
<1>3. ASSUME NEW c \in Callers, GetRun(c)
      PROVE  TypeOK'
  BY <1>3 DEF GetRun, Suspended
<1>4. ASSUME NEW c \in Callers, Refuse(c)
      PROVE  TypeOK'
  BY <1>4 DEF Refuse, Outcomes
<1>5. ASSUME NEW c \in Callers, CommitRunTransition(c)
      PROVE  TypeOK'
  <2>1. request[c] \in Request /\ seen[c] \in Run
    OBVIOUS
  <2>2. Patched(run, c) \in Run
    BY PatchedType
  <2>3. TransitionEvent(c) \in Event
    BY <2>1 DEF TransitionEvent, Event, Run, Request
  <2>4. QED
    BY <1>5, <2>2, <2>3 DEF CommitRunTransition, Outcomes
<1>6. ASSUME NEW c \in Callers, ConcurrentTransition(c)
      PROVE  TypeOK'
  BY <1>6 DEF ConcurrentTransition, Conflict, Suspended, Outcomes
<1>7. ASSUME NEW c \in Callers, UpdateRun(c)
      PROVE  TypeOK'
  <2>1. seen[c] \in Run /\ run \in Run
    OBVIOUS
  <2>2. seen[c].usage + 1 \in Nat
    BY <2>1 DEF Run
  <2>3. [run EXCEPT !.usage = seen[c].usage + 1] \in Run
    BY <2>1, <2>2, UsageUpdateType
  <2>4. QED
    BY <1>7, <2>3 DEF UpdateRun
<1>8. CASE UNCHANGED callVars
  BY <1>8 DEF callVars
<1>9. QED
  BY <1>1, <1>2, <1>3, <1>4, <1>5, <1>6, <1>7, <1>8 DEF Next, Resume

\* Type correctness of the stored run, its log and the callers' local state.
THEOREM TypeCorrect == Spec => []TypeOK
<1>1. Init => TypeOK
  BY StatusType DEF Init, CallInit, TypeOK, NewRun, Run, Request, RunPhase
<1>2. QED
  BY <1>1, TypeStep, PTL DEF Spec

------------------------------------------------------------------------------
(***************************************************************************)
(* EventLogIsPath is not inductive: a commit keeps it only because a       *)
(* matching version means that the phase the caller validated is the phase *)
(* the run is in.  CallProgress says that, and that a caller's loop        *)
(* counter is paid for by transitions others committed meanwhile.          *)
(***************************************************************************)
SnapshotIsCurrent(c) == seen[c].version = run.version => seen[c].phase = run.phase

CallProgress(c) ==
  /\ base[c] <= Len(events)
  /\ pc[c] \in {"getRun", "commit"} =>
       /\ base[c] + attempt[c] <= Len(events)
       /\ attempt[c] <= maxTransitionRetries
  /\ pc[c] = "commit" => /\ base[c] + attempt[c] <= seen[c].version
                         /\ seen[c].version <= Len(events)
                         /\ SnapshotIsCurrent(c)
  /\ pc[c] = "conflict" => base[c] + maxTransitionRetries < Len(events)

IndInv == /\ TypeOK
          /\ EventLogIsPath
          /\ DecisionRequestWhileWaiting
          /\ \A c \in Callers : CallProgress(c)

\* A new run satisfies the inductive invariant.
LEMMA InitInd == Init => IndInv
<1> SUFFICES ASSUME Init PROVE IndInv
  OBVIOUS
<1>1. TypeOK
  BY StatusType DEF Init, CallInit, TypeOK, NewRun, Run, Request, RunPhase
<1>2. EventLogIsPath
  BY DEF Init, CallInit, NewRun, EventLogIsPath, PathFromStart, EndsAtRun
<1>3. DecisionRequestWhileWaiting
  BY DEF Init, CallInit, NewRun, DecisionRequestWhileWaiting
<1>4. \A c \in Callers : CallProgress(c)
  BY RetriesAssumption DEF Init, CallInit, CallProgress
<1>5. QED
  BY <1>1, <1>2, <1>3, <1>4 DEF IndInv

\* What either store does with a commit whose snapshot is still current.
CommitsCurrent(c) ==
  /\ seen[c].version = run.version /\ seen[c].phase = run.phase
  /\ ValidRequest(c)
  /\ run' = Patched(run, c)
  /\ events' = Append(events, TransitionEvent(c))

\* The in-memory store commits nothing else.
LEMMA CommitIsCurrent ==
  ASSUME IndInv, NEW c \in Callers, CommitRunTransition(c)
  PROVE  TypeOK /\ CommitsCurrent(c)
BY DEF CommitRunTransition, VersionMatches, IndInv, CallProgress, SnapshotIsCurrent,
       CommitsCurrent

\* A commit appends the edge from the current phase and moves the run along it.
LEMMA CommitFacts ==
  ASSUME TypeOK, NEW c \in Callers, CommitsCurrent(c)
  PROVE  /\ TransitionEvent(c).from = run.phase
         /\ isAllowedRunPhaseTransition(run.phase, request[c].target)
         /\ run.phase = "NEEDS_DECISION" => request[c].decision
         /\ run'.phase = request[c].target
         /\ run'.version = run.version + 1
         /\ run'.status = statusForPhase(request[c].target)
         /\ run'.decisionRequest = IF request[c].target = "NEEDS_DECISION" THEN TRUE
                                   ELSE IF request[c].decision THEN FALSE
                                   ELSE run.decisionRequest
<1>1. run \in Run
  BY DEF TypeOK
<1>2. QED
  BY <1>1 DEF CommitsCurrent, ValidRequest, validateTransition, TransitionEvent, Patched, Run

\* A commit extends the path.
LEMMA CommitLog ==
  ASSUME TypeOK, EventLogIsPath, NEW c \in Callers, CommitsCurrent(c)
  PROVE  EventLogIsPath'
<1> DEFINE e == TransitionEvent(c)
<1>1. events \in Seq(Event) /\ request[c] \in Request /\ seen[c] \in Run
  BY DEF TypeOK
<1>2. e \in Event /\ e.to = request[c].target
  BY <1>1 DEF TransitionEvent, Event, Run, Request
<1>3. e.from = run.phase /\ isAllowedRunPhaseTransition(e.from, e.to)
  BY CommitFacts, <1>2
<1>4. events' = Append(events, e)
  BY DEF CommitsCurrent
<1> HIDE DEF e
<1>5. /\ Len(events') = Len(events) + 1
      /\ events'[Len(events) + 1] = e
      /\ \A i \in 1..Len(events) : events'[i] = events[i]
  BY <1>1, <1>2, <1>4
<1>6. PathFromStart'
  <2> SUFFICES ASSUME NEW i \in 1..Len(events')
               PROVE  /\ events'[i].from = IF i = 1 THEN "CHAT_RECEIVED"
                                           ELSE events'[i-1].to
                      /\ isAllowedRunPhaseTransition(events'[i].from, events'[i].to)
    BY DEF PathFromStart
  <2>1. CASE i \in 1..Len(events)
    <3>1. i - 1 \in 1..Len(events) \/ i = 1
      BY <2>1, <1>1
    <3>2. QED
      BY <2>1, <3>1, <1>5 DEF EventLogIsPath, PathFromStart
  <2>2. CASE i = Len(events) + 1
    <3>1. CASE events = << >>
      BY <2>2, <3>1, <1>3, <1>5 DEF EventLogIsPath, EndsAtRun
    <3>2. CASE events # << >>
      <4>1. Len(events) \in 1..Len(events) /\ i # 1 /\ i - 1 = Len(events)
        BY <1>1, <2>2, <3>2
      <4>2. QED
        BY <2>2, <3>2, <4>1, <1>3, <1>5 DEF EventLogIsPath, EndsAtRun
    <3>3. QED
      BY <3>1, <3>2
  <2>3. QED
    BY <2>1, <2>2, <1>5, <1>1
<1>7. EndsAtRun'
  <2>1. run'.phase = e.to
    BY CommitFacts, <1>2
  <2>2. events' # << >>
    BY <1>1, <1>5
  <2>3. QED
    BY <2>1, <2>2, <1>5 DEF EndsAtRun
<1>8. (run.version = Len(events))'
  BY CommitFacts, <1>5 DEF EventLogIsPath
<1>9. QED
  BY <1>6, <1>7, <1>8 DEF EventLogIsPath

\* A commit attaches the decision request on entering NEEDS_DECISION and clears it on leaving.
LEMMA CommitDecision ==
  ASSUME TypeOK, DecisionRequestWhileWaiting, NEW c \in Callers, CommitsCurrent(c)
  PROVE  DecisionRequestWhileWaiting'
<1>1. run.decisionRequest <=> run.phase = "NEEDS_DECISION"
  BY DEF DecisionRequestWhileWaiting
<1>2. run.decisionRequest \in BOOLEAN /\ request[c].decision \in BOOLEAN
  BY DEF TypeOK, Run, Request
<1>3. run'.decisionRequest <=> request[c].target = "NEEDS_DECISION"
  BY <1>1, <1>2, CommitFacts
<1>4. QED
  BY <1>3, CommitFacts DEF DecisionRequestWhileWaiting

\* A commit leaves every other suspended caller one version behind.
LEMMA CommitCalls ==
  ASSUME IndInv, NEW c \in Callers, CommitRunTransition(c)
  PROVE  \A d \in Callers : CallProgress(d)'
<1>1. Len(events') = Len(events) + 1 /\ Len(events) \in Nat
  BY DEF CommitRunTransition, IndInv, TypeOK
<1>2. run'.version = run.version + 1 /\ run.version = Len(events)
  BY CommitIsCurrent, CommitFacts DEF IndInv, EventLogIsPath
<1> SUFFICES ASSUME NEW d \in Callers PROVE CallProgress(d)'
  OBVIOUS
<1>3. /\ base[d] \in Nat /\ attempt[d] \in Nat /\ seen[d].version \in Nat
      /\ base' = base /\ attempt' = attempt /\ seen' = seen
  BY DEF IndInv, TypeOK, CommitRunTransition, Run
<1>4. CallProgress(d)
  BY DEF IndInv
<1>5. CASE d = c
  BY <1>1, <1>3, <1>4, <1>5 DEF CommitRunTransition, Goto, IndInv, TypeOK, CallProgress
<1>6. CASE d # c
  <2>1. pc'[d] = pc[d]
    BY <1>6 DEF CommitRunTransition, Goto, IndInv, TypeOK
  <2>2. QED
    BY <2>1, <1>1, <1>2, <1>3, <1>4, RetriesAssumption DEF CallProgress, SnapshotIsCurrent
<1>7. QED
  BY <1>5, <1>6

\* The other steps leave the log, the phase and the version alone.
Quiet == /\ events' = events
         /\ run'.phase = run.phase /\ run'.version = run.version
         /\ run'.status = run.status /\ run'.decisionRequest = run.decisionRequest

\* A step that leaves phase, version, status, decision request and log alone ...
LEMMA QuietKeepsLog ==
  ASSUME IndInv, Quiet
  PROVE  EventLogIsPath' /\ DecisionRequestWhileWaiting'
BY DEF Quiet, IndInv, EventLogIsPath, PathFromStart, EndsAtRun,
       DecisionRequestWhileWaiting

\* ... can only disturb the progress of the caller that takes it.
LEMMA QuietKeepsOthers ==
  ASSUME IndInv, Quiet, NEW c \in Callers, CallProgress(c)',
         \A d \in Callers \ {c} : /\ pc'[d] = pc[d] /\ seen'[d] = seen[d]
                                 /\ attempt'[d] = attempt[d] /\ base'[d] = base[d]
  PROVE  \A d \in Callers : CallProgress(d)'
BY DEF Quiet, IndInv, CallProgress, SnapshotIsCurrent

\* Every step preserves the inductive invariant.
LEMMA NextInd == IndInv /\ [Next]_callVars => IndInv'
<1> SUFFICES ASSUME IndInv, [Next]_callVars PROVE IndInv'
  OBVIOUS
<1>1. TypeOK'
  BY TypeStep DEF IndInv
<1>2. ASSUME NEW c \in Callers, CommitRunTransition(c)
      PROVE  IndInv'
  BY <1>1, <1>2, CommitIsCurrent, CommitLog, CommitDecision, CommitCalls DEF IndInv
<1> USE DEF IndInv, TypeOK
<1>3. ASSUME NEW c \in Callers, Quiet, CallProgress(c)',
             \A d \in Callers \ {c} : /\ pc'[d] = pc[d] /\ seen'[d] = seen[d]
                                     /\ attempt'[d] = attempt[d] /\ base'[d] = base[d]
      PROVE  IndInv'
  BY <1>1, <1>3, QuietKeepsLog, QuietKeepsOthers
<1>4. ASSUME NEW c \in Callers, Call(c)
      PROVE  IndInv'
  <2>1. Quiet
    BY <1>4 DEF Call, Quiet
  <2>2. CallProgress(c)'
    BY <1>4, RetriesAssumption DEF Call, Goto, CallProgress
  <2>3. QED
    BY <1>3, <1>4, <2>1, <2>2 DEF Call, Goto
<1>5. ASSUME NEW c \in Callers, StartUsage(c)
      PROVE  IndInv'
  <2>1. Quiet
    BY <1>5 DEF StartUsage, Quiet
  <2>2. CallProgress(c)'
    BY <1>5 DEF StartUsage, Goto, CallProgress
  <2>3. QED
    BY <1>3, <1>5, <2>1, <2>2 DEF StartUsage, Goto
<1>6. ASSUME NEW c \in Callers, GetRun(c)
      PROVE  IndInv'
  <2>1. Quiet
    BY <1>6 DEF GetRun, Quiet
  <2>2. CallProgress(c)'
    BY <1>6 DEF GetRun, Goto, CallProgress, SnapshotIsCurrent, EventLogIsPath
  <2>3. QED
    BY <1>3, <1>6, <2>1, <2>2 DEF GetRun, Goto
<1>7. ASSUME NEW c \in Callers, Refuse(c)
      PROVE  IndInv'
  <2>1. Quiet
    BY <1>7 DEF Refuse, Quiet
  <2>2. CallProgress(c)'
    BY <1>7 DEF Refuse, Goto, CallProgress
  <2>3. QED
    BY <1>3, <1>7, <2>1, <2>2 DEF Refuse, Goto
<1>8. ASSUME NEW c \in Callers, ConcurrentTransition(c)
      PROVE  IndInv'
  <2>1. Quiet
    BY <1>8 DEF ConcurrentTransition, Conflict, Quiet
  <2>2. seen[c].version < Len(events) /\ seen[c].version \in Nat
    BY <1>8 DEF ConcurrentTransition, VersionMatches, EventLogIsPath, CallProgress, Run
  <2>3. base[c] + attempt[c] + 1 <= Len(events) /\ attempt[c] <= maxTransitionRetries
    BY <1>8, <2>2 DEF ConcurrentTransition, CallProgress
  <2>4. CallProgress(c)'
    BY <1>8, <2>3, RetriesAssumption DEF ConcurrentTransition, Conflict, Goto, CallProgress
  <2>5. QED
    BY <1>3, <1>8, <2>1, <2>4 DEF ConcurrentTransition, Conflict, Goto
<1>9. ASSUME NEW c \in Callers, UpdateRun(c)
      PROVE  IndInv'
  <2>1. Quiet
    BY <1>9 DEF UpdateRun, Quiet, Run
  <2>2. CallProgress(c)'
    BY <1>9 DEF UpdateRun, Goto, CallProgress
  <2>3. QED
    BY <1>3, <1>9, <2>1, <2>2 DEF UpdateRun, Goto
<1>10. CASE UNCHANGED callVars
  BY <1>1, <1>10 DEF callVars, EventLogIsPath, PathFromStart, EndsAtRun,
     DecisionRequestWhileWaiting, CallProgress, SnapshotIsCurrent
<1>11. QED
  BY <1>2, <1>4, <1>5, <1>6, <1>7, <1>8, <1>9, <1>10 DEF Next, Resume

\* The inductive invariant holds throughout.
THEOREM Inductive == Spec => []IndInv
BY InitInd, NextInd, PTL DEF Spec

(***************************************************************************)
(* The event log is a path of allowed edges that ends at the stored phase, *)
(* and the version counts it, however transitionRun calls interleave over  *)
(* the in-memory store.                                                    *)
(***************************************************************************)
THEOREM LogCorrect == Spec => []EventLogIsPath
BY Inductive, PTL DEF IndInv

(***************************************************************************)
(* A decision request is attached exactly while the run waits for it.      *)
(***************************************************************************)
THEOREM DecisionCorrect == Spec => []DecisionRequestWhileWaiting
BY Inductive, PTL DEF IndInv

(***************************************************************************)
(* Together: the stored run is consistent with itself and with its log,    *)
(* for any callers, retry bound and requests (transitionRun over the       *)
(* in-memory store).                                                       *)
(***************************************************************************)
THEOREM ConsistencyCorrect == Spec => []RunIsConsistent
BY TypeCorrect, LogCorrect, DecisionCorrect, PTL DEF RunIsConsistent

(***************************************************************************)
(* transitionRun exhausts its retries only if that many transitions of     *)
(* others, and one more, were committed during the call.                   *)
(***************************************************************************)
THEOREM ContentionCorrect == Spec => []ConflictOnlyUnderContention
<1>1. IndInv => ConflictOnlyUnderContention
  BY RetriesAssumption DEF IndInv, TypeOK, CallProgress, ConflictOnlyUnderContention
<1>2. QED
  BY <1>1, Inductive, PTL

(***************************************************************************)
(* No transition is committed to a run in DONE, FAILED or ABORTED.         *)
(***************************************************************************)
THEOREM FinalCorrect == Spec => FinalPhaseIsFinal
<1>1. IndInv /\ [Next]_callVars =>
        [run.phase \in FinalPhases => run'.phase = run.phase /\ events' = events]_callVars
  <2> SUFFICES ASSUME IndInv, [Next]_callVars, run.phase \in FinalPhases
               PROVE  run'.phase = run.phase /\ events' = events
    OBVIOUS
  <2>1. ASSUME NEW c \in Callers, CommitRunTransition(c)
        PROVE  FALSE
    BY <2>1, CommitIsCurrent, CommitFacts DEF FinalPhases, isAllowedRunPhaseTransition
  <2>2. ASSUME NEW c \in Callers, UpdateRun(c)
        PROVE  run'.phase = run.phase /\ events' = events
    BY <2>2 DEF UpdateRun, IndInv, TypeOK, Run
  <2>3. QED
    BY <2>1, <2>2 DEF Next, Resume, Call, StartUsage, GetRun, Refuse,
       ConcurrentTransition, Conflict, callVars
<1>2. QED
  BY <1>1, Inductive, PTL DEF Spec, FinalPhaseIsFinal

\* A function on 1..n is a sequence of length n.
LEMMA FunctionIsSeq ==
  ASSUME NEW S, NEW n \in Nat, NEW f \in [1..n -> S]
  PROVE  f \in Seq(S) /\ Len(f) = n
<1>1. f \in Seq(S)
  BY SeqDef
<1>2. DOMAIN f = 1..n /\ DOMAIN f = 1..Len(f) /\ Len(f) \in Nat
  BY <1>1, LenProperties
<1>3. QED
  BY <1>1, <1>2

\* The edge of an event is a pair of phases.
LEMMA EdgesOfEvents ==
  ASSUME NEW es \in Seq(Event)
  PROVE  \A i \in 1..Len(es) :
           [from |-> es[i].from, to |-> es[i].to] \in [from : RunPhase, to : RunPhase]
<1> TAKE i \in 1..Len(es)
<1>1. es[i] \in Event
  BY ElementOfSeq
<1>2. QED
  BY <1>1 DEF Event

\* Under the refinement mapping a commit appends one edge to the abstract log.
LEMMA MappedAppend ==
  ASSUME TypeOK, NEW c \in Callers, CommitsCurrent(c)
  PROVE  LogOfEvents' = Append(LogOfEvents, [from |-> run.phase, to |-> request[c].target])
<1> DEFINE e == TransitionEvent(c)
           m == [from |-> run.phase, to |-> request[c].target]
<1>1. events \in Seq(Event) /\ request[c] \in Request /\ seen[c] \in Run
  BY DEF TypeOK
<1>2. e \in Event /\ e.from = run.phase /\ e.to = request[c].target
  BY <1>1, CommitFacts DEF TransitionEvent, Event, Run, Request
<1>3. events' = Append(events, e)
  BY DEF CommitsCurrent
<1> HIDE DEF e
<1>4. /\ Len(events) \in Nat /\ Len(events') = Len(events) + 1
      /\ events'[Len(events) + 1] = e
      /\ \A i \in 1..Len(events) : events'[i] = events[i]
  BY <1>1, <1>2, <1>3
<1> DEFINE Edge == [from : RunPhase, to : RunPhase]
<1>5. LogOfEvents \in Seq(Edge) /\ Len(LogOfEvents) = Len(events)
  <2>1. \A i \in 1..Len(events) : [from |-> events[i].from, to |-> events[i].to] \in Edge
    BY <1>1, EdgesOfEvents
  <2>2. LogOfEvents \in [1..Len(events) -> Edge]
    BY <2>1 DEF LogOfEvents
  <2>3. QED
    BY <2>2, <1>4, FunctionIsSeq
<1>6. m \in Edge
  BY <1>1, <1>2 DEF Event
<1>7. LogOfEvents' \in Seq(Edge) /\ Len(LogOfEvents') = Len(events) + 1
  <2>1. events' \in Seq(Event)
    BY <1>1, <1>2, <1>3
  <2>2. \A i \in 1..Len(events') : [from |-> events'[i].from, to |-> events'[i].to] \in Edge
    BY <2>1, EdgesOfEvents
  <2>3. LogOfEvents' \in [1..Len(events') -> Edge]
    BY <2>2 DEF LogOfEvents
  <2>4. LogOfEvents' \in Seq(Edge) /\ Len(LogOfEvents') = Len(events')
    <3>1. Len(events') \in Nat
      BY <1>4
    <3> HIDE DEF Edge
    <3>2. QED
      BY <2>3, <3>1, FunctionIsSeq
  <2>5. QED
    BY <2>4, <1>4
<1> HIDE DEF Edge
<1>8. /\ Append(LogOfEvents, m) \in Seq(Edge)
      /\ Len(Append(LogOfEvents, m)) = Len(events) + 1
      /\ \A i \in 1..(Len(events) + 1) :
           Append(LogOfEvents, m)[i] = IF i = Len(events) + 1 THEN m ELSE LogOfEvents[i]
  BY <1>4, <1>5, <1>6
<1>9. ASSUME NEW i \in 1..(Len(events) + 1)
      PROVE  LogOfEvents'[i] = Append(LogOfEvents, m)[i]
  <2>1. LogOfEvents'[i] = [from |-> events'[i].from, to |-> events'[i].to]
    BY <1>4 DEF LogOfEvents
  <2>2. CASE i = Len(events) + 1
    <3>1. LogOfEvents'[i] = [from |-> e.from, to |-> e.to]
      BY <2>1, <2>2, <1>4
    <3>2. LogOfEvents'[i] = m
      BY <3>1, <1>2
    <3>3. QED
      BY <2>2, <3>2, <1>8
  <2>3. CASE i \in 1..Len(events)
    BY <2>1, <2>3, <1>4, <1>8 DEF LogOfEvents
  <2>4. i = Len(events) + 1 \/ i \in 1..Len(events)
    BY <1>4
  <2>5. QED
    BY <2>2, <2>3, <2>4
<1> HIDE DEF m
<1>10. LogOfEvents' = Append(LogOfEvents, m)
  BY <1>7, <1>8, <1>9, SeqEqual
<1>11. QED
  BY <1>10 DEF m

\* Such a commit is one step of the lifecycle.
LEMMA CommitTakes ==
  ASSUME TypeOK, NEW c \in Callers, CommitsCurrent(c)
  PROVE  Lifecycle!LifecycleNext
<1>1. request[c].target \in RunPhase
  BY DEF TypeOK, Request
<1>2. Lifecycle!Take(request[c].target)
  BY CommitFacts, MappedAppend DEF Lifecycle!Take,
     Lifecycle!isAllowedRunPhaseTransition, isAllowedRunPhaseTransition,
     Lifecycle!ALLOWED_RUN_PHASE_TRANSITIONS, ALLOWED_RUN_PHASE_TRANSITIONS,
     Lifecycle!Exits, Exits
<1>3. QED
  BY <1>1, <1>2 DEF Lifecycle!LifecycleNext, Lifecycle!RunPhase, RunPhase

(***************************************************************************)
(* transitionRun's read / validate / commit / retry protocol over          *)
(* versions implements the atomic lifecycle of a run.                      *)
(***************************************************************************)
THEOREM Refinement == Spec => ImplementsLifecycle
<1>1. Init => Lifecycle!LifecycleInit
  BY DEF Init, CallInit, NewRun, Lifecycle!LifecycleInit, LogOfEvents
<1>2. IndInv /\ [Next]_callVars => [Lifecycle!LifecycleNext]_(Lifecycle!lifecycleVars)
  <2> SUFFICES ASSUME IndInv, [Next]_callVars
               PROVE  [Lifecycle!LifecycleNext]_(Lifecycle!lifecycleVars)
    OBVIOUS
  <2>1. ASSUME NEW c \in Callers, CommitRunTransition(c)
        PROVE  Lifecycle!LifecycleNext
    BY <2>1, CommitIsCurrent, CommitTakes
  <2>2. ASSUME NEW c \in Callers, UpdateRun(c)
        PROVE  UNCHANGED Lifecycle!lifecycleVars
    BY <2>2 DEF UpdateRun, IndInv, TypeOK, Run, Lifecycle!lifecycleVars, LogOfEvents
  <2>3. ASSUME UNCHANGED <<run, events>>
        PROVE  UNCHANGED Lifecycle!lifecycleVars
    BY <2>3 DEF Lifecycle!lifecycleVars, LogOfEvents
  <2>4. QED
    BY <2>1, <2>2, <2>3 DEF Next, Resume, Call, StartUsage, GetRun, Refuse,
       ConcurrentTransition, Conflict, callVars
<1>3. QED
  BY <1>1, <1>2, Inductive, PTL DEF Spec, ImplementsLifecycle, Lifecycle!LifecycleSpec

\* A step that commits nothing changes no caller's own events.
LEMMA OutcomeOfQuiet ==
  ASSUME NEW d \in Callers, OutcomeIsTrue(d), events' = events,
         base'[d] = base[d], request'[d] = request[d],
         \/ pc'[d] = pc[d]
         \/ /\ pc[d] \in {"getRun", "commit"} \/ OwnEvents(d) = {}
            /\ pc'[d] # "committed"
         \/ pc'[d] \in {"idle", "addUsage", "updateRun"}
  PROVE  OutcomeIsTrue(d)'
BY DEF OutcomeIsTrue, OwnEvents

\* The committer gains its one event, nobody else gains any.
LEMMA OutcomeOfCommit ==
  ASSUME TypeOK, TruthfulOutcome, \A d \in Callers : base[d] <= Len(events),
         NEW c \in Callers, OwnEvents(c) = {}, Goto(c, "committed"),
         events' = Append(events, TransitionEvent(c)), base' = base, request' = request
  PROVE  TruthfulOutcome'
<1>1. events \in Seq(Event) /\ request[c] \in Request /\ seen[c] \in Run
  BY DEF TypeOK
<1>2. TransitionEvent(c) \in Event /\ TransitionEvent(c).by = c
      /\ TransitionEvent(c).to = request[c].target
  BY <1>1 DEF TransitionEvent, Event, Run, Request
<1>3. events' = Append(events, TransitionEvent(c)) /\ base' = base /\ request' = request
  OBVIOUS
<1>4. /\ Len(events) \in Nat /\ Len(events') = Len(events) + 1
      /\ events'[Len(events) + 1] = TransitionEvent(c)
      /\ \A i \in 1..Len(events) : events'[i] = events[i]
  BY <1>1, <1>2, <1>3
<1> SUFFICES ASSUME NEW d \in Callers PROVE OutcomeIsTrue(d)'
  BY DEF TruthfulOutcome
<1>5. OutcomeIsTrue(d) /\ base[d] \in Nat /\ base[d] <= Len(events)
  BY DEF TruthfulOutcome, TypeOK
<1>6. CASE d = c
  <2>1. pc'[d] = "committed"
    BY <1>6 DEF Goto, TypeOK
  <2>2. OwnEvents(d) = {}
    BY <1>6
  <2>3. \A i \in (base[d]+1)..Len(events) : events'[i].by # d
    BY <2>2, <1>4, <1>5 DEF OwnEvents
  <2>4. OwnEvents(d)' = {Len(events) + 1}
    <3>1. OwnEvents(d)' = {i \in (base[d]+1)..(Len(events)+1) : events'[i].by = d}
      BY <1>3, <1>4 DEF OwnEvents
    <3>2. QED
      BY <3>1, <2>3, <1>2, <1>4, <1>5, <1>6
  <2>5. QED
    BY <1>2, <1>3, <1>4, <1>6, <2>1, <2>4 DEF OutcomeIsTrue
<1>7. CASE d # c
  <2>1. pc'[d] = pc[d]
    BY <1>7 DEF Goto, TypeOK
  <2>2. OwnEvents(d)' = OwnEvents(d)
    <3>1. OwnEvents(d)' = {i \in (base[d]+1)..(Len(events)+1) : events'[i].by = d}
      BY <1>3, <1>4 DEF OwnEvents
    <3>2. \A i \in (base[d]+1)..Len(events) : events'[i] = events[i]
      BY <1>4, <1>5
    <3>3. events'[Len(events)+1].by # d
      BY <1>2, <1>4, <1>7
    <3>4. QED
      BY <3>1, <3>2, <3>3, <1>4, <1>5 DEF OwnEvents
  <2>3. \A i \in OwnEvents(d) : events'[i] = events[i]
    BY <1>4, <1>5 DEF OwnEvents
  <2>4. QED
    BY <1>3, <1>5, <2>1, <2>2, <2>3 DEF OutcomeIsTrue
<1>8. QED
  BY <1>6, <1>7

(***************************************************************************)
(* transitionRun answers truthfully: committed means exactly one event of  *)
(* the caller since its call began, for the phase it asked; an error means *)
(* none.                                                                   *)
(***************************************************************************)
THEOREM OutcomeCorrect == Spec => []TruthfulOutcome
<1>1. Init => TruthfulOutcome
  BY DEF Init, CallInit, TruthfulOutcome, OutcomeIsTrue, OwnEvents
<1>2. IndInv /\ TruthfulOutcome /\ [Next]_callVars => TruthfulOutcome'
  <2> SUFFICES ASSUME IndInv, TruthfulOutcome, [Next]_callVars PROVE TruthfulOutcome'
    OBVIOUS
  <2> USE DEF TruthfulOutcome, Goto
  <2>1. ASSUME NEW c \in Callers, CommitRunTransition(c)
        PROVE  TruthfulOutcome'
    <3>1. OwnEvents(c) = {}
      BY <2>1 DEF CommitRunTransition, OutcomeIsTrue
    <3>2. \A d \in Callers : base[d] <= Len(events)
      BY DEF IndInv, CallProgress
    <3>3. QED
      BY <2>1, <3>1, <3>2, OutcomeOfCommit DEF CommitRunTransition, IndInv
  <2>2. ASSUME NEW c \in Callers, Call(c)
        PROVE  TruthfulOutcome'
    <3> SUFFICES ASSUME NEW d \in Callers PROVE OutcomeIsTrue(d)'
      OBVIOUS
    <3>1. CASE d = c
      <4>1. pc'[d] = "getRun" /\ base'[d] = Len(events) /\ events' = events
        BY <2>2, <3>1 DEF Call, IndInv, TypeOK
      <4>2. OwnEvents(d)' = {}
        <5>1. Len(events) \in Nat
          BY DEF IndInv, TypeOK
        <5>2. QED
          BY <4>1, <5>1 DEF OwnEvents
      <4>3. QED
        BY <4>1, <4>2 DEF OutcomeIsTrue
    <3>2. CASE d # c
      BY <2>2, <3>2, OutcomeOfQuiet DEF Call, IndInv, TypeOK
    <3>3. QED
      BY <3>1, <3>2
  <2>3. ASSUME NEW c \in Callers, StartUsage(c) \/ UpdateRun(c)
        PROVE  TruthfulOutcome'
    BY <2>3, OutcomeOfQuiet DEF StartUsage, UpdateRun, IndInv, TypeOK
  <2>4. ASSUME NEW c \in Callers, GetRun(c) \/ Refuse(c)
        PROVE  TruthfulOutcome'
    BY <2>4, OutcomeOfQuiet DEF GetRun, Refuse, IndInv, TypeOK
  <2>5. ASSUME NEW c \in Callers, ConcurrentTransition(c)
        PROVE  TruthfulOutcome'
    BY <2>5, OutcomeOfQuiet DEF ConcurrentTransition, Conflict, IndInv, TypeOK
  <2>6. CASE UNCHANGED callVars
    BY <2>6, OutcomeOfQuiet DEF callVars
  <2>7. QED
    BY <2>1, <2>2, <2>3, <2>4, <2>5, <2>6 DEF Next, Resume
<1>3. QED
  BY <1>1, <1>2, Inductive, PTL DEF Spec

(***************************************************************************)
(* The SQL store.                                                          *)
(***************************************************************************)
SqlNext == \E c \in Callers : SqlStart(c) \/ SqlResume(c)

(***************************************************************************)
(* Whatever the interleaving: each run record in the system, the row and   *)
(* the copies the callers hold, is one the log accounts for.               *)
(***************************************************************************)
SqlTypeOK ==
  /\ TypeOK
  /\ column \in Nat
  /\ current \in [Callers -> Run]
  /\ overlap \in BOOLEAN

Known(r) ==
  /\ r.phase = "CHAT_RECEIVED" \/ \E i \in 1..Len(events) : events[i].to = r.phase
  /\ r.version <= Len(events)

CallIsKnown(c) ==
  /\ Known(current[c])
  /\ seen[c].version <= Len(events)
  /\ base[c] <= Len(events)
  /\ pc[c] = "update" => OwnEvents(c) = {}

KnownInv ==
  /\ SqlTypeOK
  /\ Known(run)
  /\ column <= Len(events)
  /\ TruthfulOutcome
  /\ \A c \in Callers : CallIsKnown(c)

(***************************************************************************)
(* As long as no calls overlapped: there is one call at most, and what it  *)
(* read is still what is stored.                                           *)
(***************************************************************************)
ReadIsCurrent(c) ==
  /\ pc[c] \in {"commit", "update", "addUsage", "updateRun"} => seen[c] = run
  /\ pc[c] \in {"update", "updateRun"} => current[c] = run
  /\ pc[c] = "update" => ValidRequest(c)

OneAtATime == \A c, d \in Callers : ~Free(c) /\ ~Free(d) => c = d

AloneInv ==
  ~overlap => /\ EventLogIsPath
              /\ DecisionRequestWhileWaiting
              /\ VersionCountsTransitions
              /\ OneAtATime
              /\ \A c \in Callers : ReadIsCurrent(c)

------------------------------------------------------------------------------
\* Every step of a caller or of the SQL store keeps the types.
LEMMA SqlTypeStep == SqlTypeOK /\ [SqlNext]_sqlVars => SqlTypeOK'
<1> SUFFICES ASSUME SqlTypeOK, [SqlNext]_sqlVars PROVE SqlTypeOK'
  OBVIOUS
<1> USE DEF SqlTypeOK, TypeOK, Goto
<1>1. ASSUME NEW c \in Callers, Call(c), UNCHANGED <<column, current>>, overlap' \in BOOLEAN
      PROVE  SqlTypeOK'
  BY <1>1, TargetsAssumption DEF Call, Request, Suspended
<1>2. ASSUME NEW c \in Callers, StartUsage(c), UNCHANGED <<column, current>>,
             overlap' \in BOOLEAN
      PROVE  SqlTypeOK'
  BY <1>2 DEF StartUsage, Suspended
<1>3. ASSUME NEW c \in Callers, SqlStart(c) PROVE SqlTypeOK'
  <2>1. overlap' \in BOOLEAN
    BY <1>3 DEF SqlStart
  <2>2. QED
    BY <1>1, <1>2, <1>3, <2>1 DEF SqlStart
<1>4. ASSUME NEW c \in Callers, GetRun(c) \/ Refuse(c), UNCHANGED <<column, current, overlap>>
      PROVE  SqlTypeOK'
  BY <1>4 DEF GetRun, Refuse, Suspended, Outcomes
<1>5. ASSUME NEW c \in Callers, CommitRead(c) \/ UpdateRead(c) PROVE SqlTypeOK'
  BY <1>5 DEF CommitRead, UpdateRead, Suspended
<1>6. ASSUME NEW c \in Callers, CommitTransaction(c) PROVE SqlTypeOK'
  <2>1. request[c] \in Request /\ seen[c] \in Run /\ current[c] \in Run
    OBVIOUS
  <2>2. Patched(current[c], c) \in Run
    BY <2>1, PatchedType
  <2>3. TransitionEvent(c) \in Event
    BY <2>1 DEF TransitionEvent, Event, Run, Request
  <2>4. ColumnAfterUpdate(c) \in Nat
    BY <2>1 DEF ColumnAfterUpdate, NewVersion, Run
  <2>5. QED
    BY <1>6, <2>2, <2>3, <2>4 DEF CommitTransaction, Outcomes
<1>7. ASSUME NEW c \in Callers, RollbackTransaction(c) PROVE SqlTypeOK'
  BY <1>7 DEF RollbackTransaction, Conflict, Suspended, Outcomes
<1>8. ASSUME NEW c \in Callers, UpdateRow(c) PROVE SqlTypeOK'
  <2>1. seen[c].usage + 1 \in Nat /\ current[c] \in Run
    BY DEF Run
  <2>2. [current[c] EXCEPT !.usage = seen[c].usage + 1] \in Run
    BY <2>1, UsageUpdateType
  <2>3. QED
    BY <1>8, <2>2 DEF UpdateRow
<1>9. CASE UNCHANGED sqlVars
  BY <1>9 DEF sqlVars
<1>10. QED
  BY <1>3, <1>4, <1>5, <1>6, <1>7, <1>8, <1>9 DEF SqlNext, SqlResume

\* A new run satisfies both invariants.
LEMMA SqlInitInd == SqlInit => KnownInv /\ AloneInv
<1> SUFFICES ASSUME SqlInit PROVE KnownInv /\ AloneInv
  OBVIOUS
<1> USE DEF SqlInit, CallInit
<1>1. NewRun \in Run /\ NewRun.phase = "CHAT_RECEIVED" /\ NewRun.version = 0
      /\ NewRun.decisionRequest = FALSE /\ NewRun.status = statusForPhase("CHAT_RECEIVED")
  BY StatusType DEF NewRun, Run, RunPhase
<1>2. SqlTypeOK
  <2>1. [target |-> "TRIAGE", decision |-> FALSE] \in Request
    BY DEF Request, RunPhase
  <2>2. events \in Seq(Event)
    OBVIOUS
  <2>3. QED
    BY <1>1, <2>1, <2>2 DEF SqlTypeOK, TypeOK
<1>3. Len(events) = 0
  OBVIOUS
<1>4. TruthfulOutcome
  BY DEF TruthfulOutcome, OutcomeIsTrue, OwnEvents
<1>5. Known(run) /\ column <= Len(events) /\ \A c \in Callers : CallIsKnown(c)
  BY <1>1, <1>3 DEF Known, CallIsKnown, OwnEvents
<1>6. EventLogIsPath /\ DecisionRequestWhileWaiting /\ VersionCountsTransitions
  BY <1>1, <1>3 DEF EventLogIsPath, PathFromStart, EndsAtRun, DecisionRequestWhileWaiting,
     VersionCountsTransitions
<1>7. OneAtATime /\ \A c \in Callers : ReadIsCurrent(c)
  BY DEF OneAtATime, ReadIsCurrent, Free
<1>8. QED
  BY <1>2, <1>4, <1>5, <1>6, <1>7 DEF KnownInv, AloneInv

------------------------------------------------------------------------------
(***************************************************************************)
(* Any interleaving.                                                       *)
(***************************************************************************)
\* What the log accounts for it accounts for when it has grown.
LEMMA KnownGrows ==
  ASSUME events \in Seq(Event), NEW e \in Event, events' = Append(events, e),
         NEW r \in Run, Known(r)
  PROVE  Known(r)'
<1>1. /\ Len(events) \in Nat /\ Len(events') = Len(events) + 1
      /\ \A i \in 1..Len(events) : events'[i] = events[i]
  OBVIOUS
<1>2. r.version <= Len(events')
  BY <1>1 DEF Known, Run
<1>3. CASE r.phase = "CHAT_RECEIVED"
  BY <1>2, <1>3 DEF Known
<1>4. CASE \E i \in 1..Len(events) : events[i].to = r.phase
  <2>1. PICK i \in 1..Len(events) : events[i].to = r.phase
    BY <1>4
  <2>2. i \in 1..Len(events') /\ events'[i].to = r.phase
    BY <1>1, <2>1
  <2>3. QED
    BY <1>2, <2>2 DEF Known
<1>5. QED
  BY <1>3, <1>4 DEF Known

\* The event of a commit accounts for the row it writes, if it writes one.
LEMMA CommitKnown ==
  ASSUME KnownInv, SqlTypeOK', NEW c \in Callers, CommitTransaction(c)
  PROVE  KnownInv'
<1> DEFINE e == TransitionEvent(c)
<1> USE DEF KnownInv
<1>1. /\ events \in Seq(Event) /\ request[c] \in Request /\ seen[c] \in Run
      /\ current[c] \in Run /\ run \in Run /\ run' \in Run /\ column \in Nat
  BY DEF SqlTypeOK, TypeOK
<1>2. e \in Event /\ e.to = request[c].target
  BY <1>1 DEF TransitionEvent, Event, Run, Request
<1>3. /\ events' = Append(events, e) /\ pc[c] = "update" /\ Goto(c, "committed")
      /\ request' = request /\ seen' = seen /\ attempt' = attempt /\ base' = base
      /\ current' = current
      /\ column' = ColumnAfterUpdate(c)
      /\ run' = IF RowMatches(c) THEN Patched(current[c], c) ELSE run
  BY DEF CommitTransaction
<1> HIDE DEF e
<1>4. /\ Len(events) \in Nat /\ Len(events') = Len(events) + 1
      /\ events'[Len(events) + 1] = e /\ Len(events) + 1 \in 1..Len(events')
  BY <1>1, <1>2, <1>3
<1>5. seen[c].version \in Nat /\ seen[c].version <= Len(events)
  BY <1>1 DEF CallIsKnown, Run
<1>6. Known(run)'
  <2>1. CASE RowMatches(c)
    <3>1. run'.phase = request[c].target /\ run'.version = seen[c].version + 1
      BY <1>1, <1>3, <2>1 DEF Patched, Run
    <3>2. QED
      BY <1>2, <1>4, <1>5, <3>1 DEF Known
  <2>2. CASE ~RowMatches(c)
    <3>1. run' = run
      BY <1>3, <2>2
    <3>2. QED
      BY <1>1, <1>2, <1>3, <3>1, KnownGrows DEF Known
  <2>3. QED
    BY <2>1, <2>2
<1>7. (column <= Len(events))'
  BY <1>1, <1>3, <1>4, <1>5 DEF ColumnAfterUpdate, NewVersion
<1>8. TruthfulOutcome'
  <2>1. OwnEvents(c) = {} /\ \A d \in Callers : base[d] <= Len(events)
    BY <1>3 DEF CallIsKnown
  <2>2. QED
    BY <1>3, <2>1, OutcomeOfCommit DEF SqlTypeOK, e
<1>9. ASSUME NEW d \in Callers PROVE CallIsKnown(d)'
  <2>1. CallIsKnown(d) /\ current[d] \in Run /\ seen[d] \in Run /\ base[d] \in Nat
    BY DEF SqlTypeOK, TypeOK
  <2>2. Known(current[d])'
    BY <1>1, <1>2, <1>3, <2>1, KnownGrows DEF CallIsKnown, Known
  <2>3. seen'[d].version <= Len(events') /\ base'[d] <= Len(events')
    BY <1>3, <1>4, <2>1 DEF CallIsKnown, Run
  <2>4. ASSUME pc'[d] = "update" PROVE OwnEvents(d)' = {}
    <3>1. d # c /\ pc[d] = "update"
      BY <1>3, <2>4 DEF Goto, SqlTypeOK, TypeOK
    <3>2. OwnEvents(d) = {}
      BY <2>1, <3>1 DEF CallIsKnown
    <3>3. e.by # d
      BY <3>1 DEF e, TransitionEvent
    <3>4. \A i \in 1..Len(events) : events'[i] = events[i]
      BY <1>1, <1>2, <1>3
    <3>5. \A i \in (base[d]+1)..Len(events') : events'[i].by # d
      <4> TAKE i \in (base[d]+1)..Len(events')
      <4>1. CASE i = Len(events) + 1
        BY <1>4, <3>3, <4>1
      <4>2. CASE i # Len(events) + 1
        <5>1. i \in (base[d]+1)..Len(events) /\ i \in 1..Len(events)
          BY <1>4, <2>1, <4>2
        <5>2. events[i].by # d
          BY <3>2, <5>1 DEF OwnEvents
        <5>3. QED
          BY <3>4, <5>1, <5>2
      <4>3. QED
        BY <4>1, <4>2
    <3>6. QED
      BY <1>3, <3>5 DEF OwnEvents
  <2>5. QED
    BY <2>2, <2>3, <2>4 DEF CallIsKnown
<1>10. QED
  BY <1>6, <1>7, <1>8, <1>9

\* Steps that append no event disturb only what their own caller holds.
LEMMA QuietKnown ==
  ASSUME KnownInv, SqlTypeOK', events' = events, column' = column, Known(run)',
         NEW c \in Callers, CallIsKnown(c)', OutcomeIsTrue(c)',
         \A d \in Callers \ {c} : /\ pc'[d] = pc[d] /\ seen'[d] = seen[d]
                                 /\ base'[d] = base[d] /\ request'[d] = request[d]
                                 /\ current'[d] = current[d]
  PROVE  KnownInv'
<1> USE DEF KnownInv
<1>1. ASSUME NEW d \in Callers \ {c} PROVE CallIsKnown(d)' /\ OutcomeIsTrue(d)'
  <2>1. OutcomeIsTrue(d) /\ CallIsKnown(d)
    BY DEF TruthfulOutcome
  <2>2. OutcomeIsTrue(d)'
    BY <2>1, OutcomeOfQuiet
  <2>3. CallIsKnown(d)'
    BY <2>1 DEF CallIsKnown, Known, OwnEvents
  <2>4. QED
    BY <2>2, <2>3
<1>2. QED
  BY <1>1 DEF TruthfulOutcome

\* Every step keeps the records accounted for.
LEMMA KnownStep == KnownInv /\ [SqlNext]_sqlVars => KnownInv'
<1> SUFFICES ASSUME KnownInv, [SqlNext]_sqlVars PROVE KnownInv'
  OBVIOUS
<1>1. SqlTypeOK'
  BY SqlTypeStep DEF KnownInv
<1>2. /\ pc \in [Callers -> {"idle"} \cup Outcomes \cup Suspended]
      /\ request \in [Callers -> Request] /\ seen \in [Callers -> Run]
      /\ base \in [Callers -> Nat] /\ current \in [Callers -> Run] /\ run \in Run
      /\ Len(events) \in Nat
  BY DEF KnownInv, SqlTypeOK, TypeOK
<1>3. ASSUME NEW c \in Callers PROVE CallIsKnown(c) /\ OutcomeIsTrue(c) /\ Known(run)
  BY DEF KnownInv, TruthfulOutcome
<1>4. ASSUME NEW c \in Callers, Call(c), UNCHANGED <<column, current>> PROVE KnownInv'
  <2>1. /\ pc'[c] = "getRun" /\ base'[c] = Len(events) /\ events' = events /\ run' = run
        /\ seen' = seen /\ current' = current /\ column' = column
    BY <1>2, <1>4 DEF Call, Goto
  <2>2. OwnEvents(c)' = {}
    BY <1>2, <2>1 DEF OwnEvents
  <2>3. OutcomeIsTrue(c)' /\ CallIsKnown(c)' /\ Known(run)'
    BY <1>2, <1>3, <2>1, <2>2 DEF OutcomeIsTrue, CallIsKnown, Known
  <2>4. QED
    BY <1>1, <1>2, <1>4, <2>1, <2>3, QuietKnown DEF Call, Goto
<1>5. ASSUME NEW c \in Callers, StartUsage(c), UNCHANGED <<column, current>> PROVE KnownInv'
  <2>1. /\ pc'[c] = "addUsage" /\ base' = base /\ events' = events /\ run' = run
        /\ seen'[c] = run /\ current' = current /\ column' = column /\ request' = request
    BY <1>2, <1>5 DEF StartUsage, Goto
  <2>2. OutcomeIsTrue(c)' /\ CallIsKnown(c)' /\ Known(run)'
    BY <1>3, <2>1 DEF OutcomeIsTrue, CallIsKnown, Known
  <2>3. QED
    BY <1>1, <1>2, <1>5, <2>1, <2>2, QuietKnown DEF StartUsage, Goto
<1>6. ASSUME NEW c \in Callers, GetRun(c), UNCHANGED <<column, current>> PROVE KnownInv'
  <2>1. /\ pc[c] = "getRun" /\ pc'[c] = "commit" /\ base' = base /\ events' = events
        /\ run' = run /\ seen'[c] = run /\ current' = current /\ column' = column
        /\ request' = request
    BY <1>2, <1>6 DEF GetRun, Goto
  <2>2. OutcomeIsTrue(c)'
    BY <1>3, <2>1, OutcomeOfQuiet
  <2>3. CallIsKnown(c)' /\ Known(run)'
    BY <1>3, <2>1 DEF CallIsKnown, Known
  <2>4. QED
    BY <1>1, <1>2, <1>6, <2>1, <2>2, <2>3, QuietKnown DEF GetRun, Goto
<1>7. ASSUME NEW c \in Callers, Refuse(c), UNCHANGED <<column, current>> PROVE KnownInv'
  <2>1. /\ pc[c] = "commit" /\ pc'[c] = "invalid" /\ base' = base /\ events' = events
        /\ run' = run /\ seen' = seen /\ current' = current /\ column' = column
        /\ request' = request
    BY <1>2, <1>7 DEF Refuse, Goto
  <2>2. OutcomeIsTrue(c)'
    BY <1>3, <2>1, OutcomeOfQuiet
  <2>3. CallIsKnown(c)' /\ Known(run)'
    BY <1>3, <2>1 DEF CallIsKnown, Known
  <2>4. QED
    BY <1>1, <1>2, <1>7, <2>1, <2>2, <2>3, QuietKnown DEF Refuse, Goto
<1>8. ASSUME NEW c \in Callers, CommitRead(c) PROVE KnownInv'
  <2>1. /\ pc[c] = "commit" /\ pc'[c] = "update" /\ base' = base /\ events' = events
        /\ run' = run /\ seen' = seen /\ current'[c] = run /\ column' = column
        /\ request' = request
    BY <1>2, <1>8 DEF CommitRead, Goto
  <2>2. OutcomeIsTrue(c)'
    BY <1>3, <2>1, OutcomeOfQuiet
  <2>3. OwnEvents(c)' = {}
    BY <1>3, <2>1 DEF OutcomeIsTrue, OwnEvents
  <2>4. CallIsKnown(c)' /\ Known(run)'
    BY <1>3, <2>1, <2>3 DEF CallIsKnown, Known
  <2>5. QED
    BY <1>1, <1>2, <1>8, <2>1, <2>2, <2>4, QuietKnown DEF CommitRead, Goto
<1>9. ASSUME NEW c \in Callers, RollbackTransaction(c) PROVE KnownInv'
  <2>1. /\ pc[c] = "update" /\ pc'[c] \in {"getRun", "conflict"} /\ base' = base
        /\ events' = events /\ run' = run /\ seen' = seen /\ current' = current
        /\ column' = column /\ request' = request
    BY <1>2, <1>9 DEF RollbackTransaction, Conflict, Goto
  <2>2. OwnEvents(c) = {}
    BY <1>3, <2>1 DEF CallIsKnown
  <2>3. OutcomeIsTrue(c)'
    BY <1>3, <2>1, <2>2, OutcomeOfQuiet
  <2>4. CallIsKnown(c)' /\ Known(run)'
    BY <1>3, <2>1 DEF CallIsKnown, Known
  <2>5. QED
    BY <1>1, <1>2, <1>9, <2>1, <2>3, <2>4, QuietKnown DEF RollbackTransaction, Conflict, Goto
<1>10. ASSUME NEW c \in Callers, UpdateRead(c) PROVE KnownInv'
  <2>1. /\ pc'[c] = "updateRun" /\ base' = base /\ events' = events
        /\ run' = run /\ seen' = seen /\ current'[c] = run /\ column' = column
        /\ request' = request
    BY <1>2, <1>10 DEF UpdateRead, Goto
  <2>2. OutcomeIsTrue(c)'
    BY <1>3, <2>1, OutcomeOfQuiet
  <2>3. CallIsKnown(c)' /\ Known(run)'
    BY <1>3, <2>1 DEF CallIsKnown, Known
  <2>4. QED
    BY <1>1, <1>2, <1>10, <2>1, <2>2, <2>3, QuietKnown DEF UpdateRead, Goto
<1>11. ASSUME NEW c \in Callers, UpdateRow(c) PROVE KnownInv'
  <2>1. /\ pc'[c] = "idle" /\ base' = base /\ events' = events /\ seen' = seen
        /\ current' = current /\ column' = column /\ request' = request
        /\ run' = [current[c] EXCEPT !.usage = seen[c].usage + 1]
    BY <1>2, <1>11 DEF UpdateRow, Goto
  <2>2. run'.phase = current[c].phase /\ run'.version = current[c].version
    BY <1>2, <2>1 DEF Run
  <2>3. OutcomeIsTrue(c)'
    BY <1>3, <2>1, OutcomeOfQuiet
  <2>4. CallIsKnown(c)' /\ Known(run)'
    BY <1>3, <2>1, <2>2 DEF CallIsKnown, Known
  <2>5. QED
    BY <1>1, <1>2, <1>11, <2>1, <2>3, <2>4, QuietKnown DEF UpdateRow, Goto
<1>12. CASE UNCHANGED sqlVars
  <2>1. TruthfulOutcome'
    BY <1>12, <1>3, OutcomeOfQuiet DEF sqlVars, TruthfulOutcome
  <2>2. QED
    BY <1>1, <1>12, <2>1 DEF sqlVars, KnownInv, CallIsKnown, Known, OwnEvents
<1>13. QED
  BY <1>1, <1>4, <1>5, <1>6, <1>7, <1>8, <1>9, <1>10, <1>11, <1>12, CommitKnown
     DEF SqlNext, SqlStart, SqlResume

(***************************************************************************)
(* Under any interleaving the SQL store invents nothing: the phase of the  *)
(* run is one some event led to, no version runs ahead of the log, and     *)
(* every caller's answer is true of the log (commitRunTransition and       *)
(* updateRun of sqlRectorStore.ts).                                        *)
(***************************************************************************)
THEOREM SqlInventsNothing == SqlSpec => []NothingInvented
<1>1. KnownInv => NothingInvented
  BY DEF KnownInv, Known, NothingInvented
<1>2. QED
  BY <1>1, SqlInitInd, KnownStep, PTL DEF SqlSpec, SqlNext

------------------------------------------------------------------------------
(***************************************************************************)
(* No overlap so far.                                                      *)
(***************************************************************************)
\* With everybody else free, only the caller at work can hold a stale copy.
LEMMA AloneOf ==
  ASSUME NEW c \in Callers, \A d \in Callers \ {c} : Free(d)', ReadIsCurrent(c)',
         EventLogIsPath', DecisionRequestWhileWaiting', VersionCountsTransitions'
  PROVE  AloneInv'
<1>1. \A d \in Callers \ {c} : ReadIsCurrent(d)'
  BY DEF ReadIsCurrent, Free, Outcomes
<1>2. OneAtATime'
  BY DEF OneAtATime
<1>3. QED
  BY <1>1, <1>2 DEF AloneInv

\* The log and the run's place in it, when neither is touched.
LEMMA QuietLog ==
  ASSUME EventLogIsPath, DecisionRequestWhileWaiting, VersionCountsTransitions,
         Quiet, column' = column
  PROVE  EventLogIsPath' /\ DecisionRequestWhileWaiting' /\ VersionCountsTransitions'
BY DEF Quiet, EventLogIsPath, PathFromStart, EndsAtRun, DecisionRequestWhileWaiting,
       VersionCountsTransitions

\* Without overlap a transaction finds the row as the caller saw it, and commits on it.
LEMMA AloneCommit ==
  ASSUME SqlTypeOK, AloneInv, ~overlap, NEW c \in Callers, CommitTransaction(c)
  PROVE  CommitsCurrent(c) /\ column' = column + 1
<1>1. /\ pc[c] = "update" /\ column' = ColumnAfterUpdate(c)
      /\ run' = IF RowMatches(c) THEN Patched(current[c], c) ELSE run
      /\ events' = Append(events, TransitionEvent(c))
  BY DEF CommitTransaction
<1>2. seen[c] = run /\ current[c] = run /\ ValidRequest(c)
  BY <1>1 DEF AloneInv, ReadIsCurrent
<1>3. column = run.version
  BY DEF AloneInv, VersionCountsTransitions
<1>4. RowMatches(c)
  BY <1>2, <1>3 DEF RowMatches
<1>5. QED
  BY <1>1, <1>2, <1>3, <1>4 DEF CommitsCurrent, ColumnAfterUpdate, NewVersion

\* Every step keeps the store exact until calls overlap.
LEMMA AloneStep == SqlTypeOK /\ AloneInv /\ [SqlNext]_sqlVars => AloneInv'
<1> SUFFICES ASSUME SqlTypeOK, AloneInv, [SqlNext]_sqlVars, ~overlap' PROVE AloneInv'
  BY DEF AloneInv
<1>1. /\ pc \in [Callers -> {"idle"} \cup Outcomes \cup Suspended]
      /\ request \in [Callers -> Request] /\ seen \in [Callers -> Run]
      /\ current \in [Callers -> Run] /\ run \in Run /\ TypeOK
  BY DEF SqlTypeOK, TypeOK
<1>2. ASSUME NEW c \in Callers, SqlStart(c) PROVE AloneInv'
  <2>1. ~overlap /\ \A d \in Callers : Free(d)
    BY <1>2 DEF SqlStart
  <2>2. /\ pc' \in {[pc EXCEPT ![c] = "getRun"], [pc EXCEPT ![c] = "addUsage"]}
        /\ run' = run /\ events' = events /\ column' = column
        /\ pc' = [pc EXCEPT ![c] = "addUsage"] => seen' = [seen EXCEPT ![c] = run]
    BY <1>1, <1>2 DEF SqlStart, Call, StartUsage, Goto
  <2>3. Quiet
    BY <2>2 DEF Quiet
  <2>4. EventLogIsPath' /\ DecisionRequestWhileWaiting' /\ VersionCountsTransitions'
    BY <2>1, <2>2, <2>3, QuietLog DEF AloneInv
  <2>5. ReadIsCurrent(c)'
    BY <1>1, <2>2 DEF ReadIsCurrent
  <2>6. \A d \in Callers \ {c} : Free(d)'
    BY <1>1, <2>1, <2>2 DEF Free
  <2>7. QED
    BY <2>4, <2>5, <2>6, AloneOf
<1>3. ASSUME NEW c \in Callers, SqlResume(c) PROVE AloneInv'
  <2>1. /\ ~overlap /\ pc[c] \in Suspended
        /\ \E label : pc' = [pc EXCEPT ![c] = label]
    BY <1>3 DEF SqlResume, CommitRead, CommitTransaction, RollbackTransaction, UpdateRead,
       UpdateRow, GetRun, Refuse, Conflict, Goto, Suspended
  <2>2. /\ EventLogIsPath /\ DecisionRequestWhileWaiting /\ VersionCountsTransitions
        /\ OneAtATime /\ ReadIsCurrent(c)
    BY <2>1 DEF AloneInv
  <2>3. ~Free(c)
    BY <2>1 DEF Free, Suspended, Outcomes
  <2>4. \A d \in Callers \ {c} : Free(d)'
    BY <1>1, <2>1, <2>2, <2>3 DEF OneAtATime, Free
  <2>5. CASE Quiet /\ column' = column /\ ReadIsCurrent(c)'
    BY <2>2, <2>4, <2>5, QuietLog, AloneOf
  <2>6. CASE CommitRead(c)
    <3>1. pc' = [pc EXCEPT ![c] = "update"] /\ current' = [current EXCEPT ![c] = run]
          /\ run' = run /\ events' = events /\ column' = column /\ seen' = seen
          /\ request' = request /\ ValidRequest(c) /\ pc[c] = "commit"
      BY <2>6 DEF CommitRead, Goto
    <3>2. ReadIsCurrent(c)'
      BY <1>1, <2>2, <3>1 DEF ReadIsCurrent, ValidRequest
    <3>3. QED
      BY <2>5, <3>1, <3>2 DEF Quiet
  <2>7. CASE UpdateRead(c)
    <3>1. pc' = [pc EXCEPT ![c] = "updateRun"] /\ current' = [current EXCEPT ![c] = run]
          /\ run' = run /\ events' = events /\ column' = column /\ seen' = seen
          /\ pc[c] = "addUsage"
      BY <2>7 DEF UpdateRead, Goto
    <3>2. ReadIsCurrent(c)'
      BY <1>1, <2>2, <3>1 DEF ReadIsCurrent
    <3>3. QED
      BY <2>5, <3>1, <3>2 DEF Quiet
  <2>8. CASE GetRun(c) /\ column' = column
    <3>1. pc' = [pc EXCEPT ![c] = "commit"] /\ seen' = [seen EXCEPT ![c] = run]
          /\ run' = run /\ events' = events
      BY <2>8 DEF GetRun, Goto
    <3>2. ReadIsCurrent(c)'
      BY <1>1, <3>1 DEF ReadIsCurrent
    <3>3. QED
      BY <2>5, <2>8, <3>1, <3>2 DEF Quiet
  <2>9. CASE (Refuse(c) /\ column' = column) \/ RollbackTransaction(c)
    <3>1. pc'[c] \in {"invalid", "getRun", "conflict"} /\ run' = run /\ events' = events
          /\ column' = column
      BY <1>1, <2>9 DEF Refuse, RollbackTransaction, Conflict, Goto
    <3>2. ReadIsCurrent(c)'
      BY <3>1 DEF ReadIsCurrent
    <3>3. QED
      BY <2>5, <3>1, <3>2 DEF Quiet
  <2>10. CASE UpdateRow(c)
    <3>1. pc'[c] = "idle" /\ run' = [current[c] EXCEPT !.usage = seen[c].usage + 1]
          /\ events' = events /\ column' = column /\ pc[c] = "updateRun"
      BY <1>1, <2>10 DEF UpdateRow, Goto
    <3>2. current[c] = run
      BY <2>2, <3>1 DEF ReadIsCurrent
    <3>3. Quiet
      BY <1>1, <3>1, <3>2 DEF Quiet, Run
    <3>4. ReadIsCurrent(c)'
      BY <3>1 DEF ReadIsCurrent
    <3>5. QED
      BY <2>5, <3>1, <3>3, <3>4
  <2>11. CASE CommitTransaction(c)
    <3>1. CommitsCurrent(c) /\ column' = column + 1
      BY <2>1, <2>11, AloneCommit
    <3>2. EventLogIsPath' /\ DecisionRequestWhileWaiting'
      BY <1>1, <2>2, <3>1, CommitLog, CommitDecision
    <3>3. run'.version = run.version + 1
      BY <1>1, <3>1, CommitFacts
    <3>4. VersionCountsTransitions'
      BY <2>2, <3>1, <3>2, <3>3 DEF VersionCountsTransitions, EventLogIsPath
    <3>5. pc'[c] = "committed"
      BY <1>1, <2>11 DEF CommitTransaction, Goto
    <3>6. ReadIsCurrent(c)'
      BY <3>5 DEF ReadIsCurrent
    <3>7. QED
      BY <2>4, <3>2, <3>4, <3>6, AloneOf
  <2>12. QED
    BY <1>3, <2>6, <2>7, <2>8, <2>9, <2>10, <2>11 DEF SqlResume
<1>4. CASE UNCHANGED sqlVars
  BY <1>4 DEF sqlVars, AloneInv, EventLogIsPath, PathFromStart, EndsAtRun, OneAtATime, Free,
     DecisionRequestWhileWaiting, VersionCountsTransitions, ReadIsCurrent, ValidRequest
<1>5. QED
  BY <1>2, <1>3, <1>4 DEF SqlNext

\* Both invariants hold in every reachable state.
LEMMA SqlInductive == SqlSpec => [](KnownInv /\ AloneInv)
<1>1. KnownInv => SqlTypeOK
  BY DEF KnownInv
<1>2. QED
  BY <1>1, SqlInitInd, KnownStep, AloneStep, PTL DEF SqlSpec, SqlNext

(***************************************************************************)
(* As long as no two calls overlapped, the SQL store keeps every promise   *)
(* of the in-memory one: log, version, phase and decision request agree.   *)
(***************************************************************************)
THEOREM SqlExactUntilOverlap == SqlSpec => []ExactUntilOverlap
<1>1. KnownInv /\ AloneInv => ExactUntilOverlap
  BY DEF KnownInv, SqlTypeOK, AloneInv, ExactUntilOverlap, RunIsConsistent
<1>2. QED
  BY <1>1, SqlInductive, PTL

(***************************************************************************)
(* A behaviour without overlapping calls implements the atomic lifecycle   *)
(* of a run: the SQL store's re-read, UPDATE and check are one step of it. *)
(***************************************************************************)
THEOREM SqlRefinement == SqlSpec /\ []~overlap => ImplementsLifecycle
<1>1. SqlInit => Lifecycle!LifecycleInit
  BY DEF SqlInit, CallInit, NewRun, Lifecycle!LifecycleInit, LogOfEvents
<1>2. KnownInv /\ AloneInv /\ ~overlap /\ [SqlNext]_sqlVars
        => [Lifecycle!LifecycleNext]_(Lifecycle!lifecycleVars)
  <2> SUFFICES ASSUME SqlTypeOK, AloneInv, ~overlap, [SqlNext]_sqlVars
               PROVE  [Lifecycle!LifecycleNext]_(Lifecycle!lifecycleVars)
    BY DEF KnownInv
  <2>1. ASSUME NEW c \in Callers, CommitTransaction(c)
        PROVE  Lifecycle!LifecycleNext
    BY <2>1, AloneCommit, CommitTakes DEF SqlTypeOK
  <2>2. ASSUME NEW c \in Callers, UpdateRow(c)
        PROVE  UNCHANGED Lifecycle!lifecycleVars
    <3>1. current[c] = run /\ run \in Run
      BY <2>2 DEF UpdateRow, AloneInv, ReadIsCurrent, SqlTypeOK, TypeOK
    <3>2. run'.phase = run.phase /\ events' = events
      BY <2>2, <3>1 DEF UpdateRow, Run
    <3>3. QED
      BY <3>2 DEF Lifecycle!lifecycleVars, LogOfEvents
  <2>3. ASSUME UNCHANGED <<run, events>>
        PROVE  UNCHANGED Lifecycle!lifecycleVars
    BY <2>3 DEF Lifecycle!lifecycleVars, LogOfEvents
  <2>4. QED
    BY <2>1, <2>2, <2>3 DEF SqlNext, SqlStart, SqlResume, Call, StartUsage, GetRun, Refuse,
       CommitRead, UpdateRead, RollbackTransaction, Conflict, sqlVars
<1>3. QED
  BY <1>1, <1>2, SqlInductive, PTL
     DEF SqlSpec, SqlNext, ImplementsLifecycle, Lifecycle!LifecycleSpec

(***************************************************************************)
(* Settings, for every set of mixes, ids and slots and any number of       *)
(* requests and mishaps.  First the programs of the routes, as far as the  *)
(* invariant needs them.                                                   *)
(***************************************************************************)
Refusals == {400, 403, 404, 409, 503}
StoreNames == {"providers", "memory", "secrets", "assignments", "memoryAssignments", "modules", "runtime"}
WriteKinds ==
    {"upsertProvider", "removeProvider", "setActiveRoute", "upsertMemoryProvider", "removeMemoryProvider",
     "setActiveMemoryProvider", "setSecret", "deleteSecret", "upsertAssignment", "resetAssignments",
     "upsertMemoryAssignment", "resetMemoryAssignments", "setModuleEnabled", "putRuntime"}
OwnSteps ==
    {"clearCaches", "lookup", "call", "remember", "choose", "candidates", "pick", "build", "slots", "route",
     "registry", "saveDraft"}
Tests ==
    {"maySetSecret", "known", "external", "noBlockers", "primaryKnown", "fallbackKnown", "moduleKnown", "mayDisable",
     "templateValid", "noSecretFound", "confirmed", "patchGiven", "ready"}
WriteArgs(op) ==
    {None, op.assignment, op.scope, op.template.assignment, op.template.memory, op.patch,
     [field |-> "profile", value |-> "configured"], [id |-> op.id, on |-> op.on],
     [id |-> op.template.toggle, on |-> "off"]}

\* The instructions a route of that request is made of.
Steps(op) ==
    [do : {"read"}, store : StoreNames]
      \cup [do : {"need"}, test : Tests, code : Refusals]
      \cup [do : {"write"}, store : StoreNames, what : WriteKinds, arg : WriteArgs(op),
            when : {"always", "roleMissing", "memoryRoleMissing", "toggleMissing"}]
      \cup [do : OwnSteps]

WritingSteps == {"write", "registry", "saveDraft"}
Upserts == {"upsertProvider", "upsertMemoryProvider"}
Sets(i) == i.do = "write" /\ i.what = "setSecret"

\* Which method writes which store, and for which requests; and which requests build a memory provider.
MemoryServing == {"resolveMemory", "putMemoryAssignment", "planMemoryMigration"}
StepFits(i, op) ==
    /\ i.do = "write" =>
        /\ i.store = "providers" => /\ i.what \in {"upsertProvider", "removeProvider", "setActiveRoute"}
                                    /\ op.do \in ProviderRoutes
        /\ i.store = "memory" => /\ i.what \in {"upsertMemoryProvider", "removeMemoryProvider",
                                                "setActiveMemoryProvider"}
                                 /\ op.do \in MemoryRoutes
        /\ i.store = "secrets" => /\ i.what \in {"setSecret", "deleteSecret"}
                                  /\ op.do \in ProviderRoutes \cup MemoryRoutes
        /\ i.what \in {"setSecret", "deleteSecret"} => i.store = "secrets"
        /\ i.what = "setSecret" => i.when = "always"
    /\ i.do = "build" => op.do \in MemoryServing

\* No check follows a change.
NoNeeds(p) == \A n \in 1 .. Len(p) : p[n].do # "need"
NoWrites(p) == \A n \in 1 .. Len(p) : p[n].do \notin WritingSteps
NeedsFirst(p) == \A m, n \in 1 .. Len(p) : m < n /\ p[m].do \in WritingSteps => p[n].do # "need"

\* A record that comes with a key is written after the key.
KeyAhead(p, n) == \E m \in 1 .. n - 1 : Sets(p[m])
KeysFirst(p, op) ==
    \A n \in 1 .. Len(p) : (p[n].do = "write" /\ p[n].what \in Upserts /\ op.keyed) => KeyAhead(p, n)

\* A memory provider is picked from a read of the memory store and built right after.
NoMemorySteps(p) == \A n \in 1 .. Len(p) : p[n].do \notin {"pick", "build"}
Picked(p) ==
    \A n \in 1 .. Len(p) : p[n].do = "pick" => \E m \in 1 .. n - 1 : p[m] = Read("memory")
BuiltLast(p) ==
    \A n \in 1 .. Len(p) : p[n].do = "build" =>
        n = Len(p) /\ n > 2 /\ p[n - 1] = Read("secrets") /\ p[n - 2].do = "pick"

StepsFit(p, op) == \A n \in 1 .. Len(p) : StepFits(p[n], op)

Part(p, op) ==
    /\ p \in Seq(Steps(op))
    /\ StepsFit(p, op) /\ NeedsFirst(p)
    /\ Picked(p) /\ BuiltLast(p)
Good(p, op) == Part(p, op) /\ KeysFirst(p, op)

\* The elements of one sequence after another.
LEMMA ConcatIndex ==
  ASSUME NEW S, NEW a \in Seq(S), NEW b \in Seq(S)
  PROVE  /\ a \o b \in Seq(S)
         /\ Len(a \o b) = Len(a) + Len(b)
         /\ \A n \in 1 .. Len(a) : (a \o b)[n] = a[n]
         /\ \A n \in 1 .. Len(b) : (a \o b)[Len(a) + n] = b[n]
         /\ \A n \in Len(a) + 1 .. Len(a) + Len(b) : n - Len(a) \in 1 .. Len(b) /\ (a \o b)[n] = b[n - Len(a)]
BY ConcatProperties

\* One part of a route after another.
LEMMA GoodConcat ==
  ASSUME NEW op, NEW a, NEW b, Good(a, op), Part(b, op), NoMemorySteps(a), NoWrites(a) \/ NoNeeds(b),
         KeysFirst(b, op) \/ \E m \in 1 .. Len(a) : Sets(a[m])
  PROVE  Good(a \o b, op)
<1> DEFINE c == a \o b
<1>1. a \in Seq(Steps(op)) /\ b \in Seq(Steps(op))
  BY DEF Good, Part
<1>2. /\ c \in Seq(Steps(op)) /\ Len(c) = Len(a) + Len(b)
      /\ \A n \in 1 .. Len(a) : c[n] = a[n]
      /\ \A n \in 1 .. Len(b) : c[Len(a) + n] = b[n]
      /\ \A n \in 1 .. Len(c) : n \in 1 .. Len(a) \/ (n - Len(a) \in 1 .. Len(b) /\ c[n] = b[n - Len(a)])
  <2>1. Len(a) \in Nat /\ Len(b) \in Nat
    BY <1>1
  <2>2. QED
    BY <1>1, <2>1, ConcatIndex
<1>3. Len(a) \in Nat /\ Len(b) \in Nat
  BY <1>1
<1> HIDE DEF c
<1>4. StepsFit(c, op)
  <2>1. \A n \in 1 .. Len(a) : StepFits(a[n], op)
    BY DEF Good, Part, StepsFit
  <2>2. \A n \in 1 .. Len(b) : StepFits(b[n], op)
    BY DEF Good, Part, StepsFit
  <2>3. QED
    BY <1>2, <2>1, <2>2, Zenon DEF StepsFit
<1>5. NeedsFirst(c)
  <2> SUFFICES ASSUME NEW m \in 1 .. Len(c), NEW n \in 1 .. Len(c), m < n, c[m].do \in WritingSteps
               PROVE  c[n].do # "need"
    BY DEF NeedsFirst
  <2>1. CASE n \in 1 .. Len(a)
    BY <1>2, <1>3, <2>1 DEF Good, Part, NeedsFirst
  <2>2. CASE n \notin 1 .. Len(a) /\ NoNeeds(b)
    BY <1>2, <2>2 DEF NoNeeds
  <2>3. CASE n \notin 1 .. Len(a) /\ NoWrites(a)
    <3>1. n - Len(a) \in 1 .. Len(b) /\ c[n] = b[n - Len(a)]
      BY <1>2, <2>3
    <3>2. m - Len(a) \in 1 .. Len(b) /\ c[m] = b[m - Len(a)]
      BY <1>2, <2>3 DEF NoWrites
    <3>3. m - Len(a) < n - Len(a)
      BY <1>2, <1>3
    <3>4. QED
      BY <3>1, <3>2, <3>3 DEF Good, Part, NeedsFirst
  <2>4. QED
    BY <2>1, <2>2, <2>3
<1>6. KeysFirst(c, op)
  <2> SUFFICES ASSUME NEW n \in 1 .. Len(c), c[n].do = "write", c[n].what \in Upserts, op.keyed
               PROVE  \E m \in 1 .. n - 1 : Sets(c[m])
    BY DEF KeysFirst, KeyAhead
  <2>1. CASE n \in 1 .. Len(a)
    <3>1. PICK m \in 1 .. n - 1 : Sets(a[m])
      BY <1>2, <2>1 DEF Good, Part, KeysFirst, KeyAhead
    <3>2. m \in 1 .. Len(a) /\ c[m] = a[m]
      BY <1>2, <1>3, <2>1
    <3>3. QED
      BY <3>1, <3>2
  <2>2. CASE n \notin 1 .. Len(a)
    <3>1. n - Len(a) \in 1 .. Len(b) /\ c[n] = b[n - Len(a)]
      BY <1>2, <2>2
    <3>. SUFFICES ASSUME ~ \E m \in 1 .. Len(a) : Sets(a[m])
                 PROVE  \E m \in 1 .. n - 1 : Sets(c[m])
      BY <1>2, <1>3, <2>2
    <3>2. PICK m \in 1 .. n - Len(a) - 1 : Sets(b[m])
      BY <3>1 DEF KeysFirst, KeyAhead
    <3>3. m \in 1 .. Len(b) /\ c[Len(a) + m] = b[m] /\ Len(a) + m \in 1 .. n - 1
      BY <1>2, <1>3, <3>1
    <3>4. QED
      BY <3>2, <3>3
  <2>3. QED
    BY <2>1, <2>2
<1>7. Picked(c)
  <2> SUFFICES ASSUME NEW n \in 1 .. Len(c), c[n].do = "pick"
               PROVE  \E m \in 1 .. n - 1 : c[m] = Read("memory")
    BY DEF Picked
  <2>1. n - Len(a) \in 1 .. Len(b) /\ c[n] = b[n - Len(a)]
    BY <1>2 DEF NoMemorySteps
  <2>2. PICK m \in 1 .. n - Len(a) - 1 : b[m] = Read("memory")
    BY <2>1 DEF Good, Part, Picked
  <2>3. m \in 1 .. Len(b) /\ c[Len(a) + m] = b[m] /\ Len(a) + m \in 1 .. n - 1
    BY <1>2, <1>3, <2>1
  <2>4. QED
    BY <2>2, <2>3
<1>8. BuiltLast(c)
  <2> SUFFICES ASSUME NEW n \in 1 .. Len(c), c[n].do = "build"
               PROVE  n = Len(c) /\ n > 2 /\ c[n - 1] = Read("secrets") /\ c[n - 2].do = "pick"
    BY DEF BuiltLast
  <2>1. n - Len(a) \in 1 .. Len(b) /\ c[n] = b[n - Len(a)]
    BY <1>2 DEF NoMemorySteps
  <2> DEFINE k == n - Len(a)
  <2>2. k = Len(b) /\ k > 2 /\ b[k - 1] = Read("secrets") /\ b[k - 2].do = "pick"
    BY <2>1 DEF Good, Part, BuiltLast
  <2>3. /\ k - 1 \in 1 .. Len(b) /\ k - 2 \in 1 .. Len(b)
        /\ Len(a) + (k - 1) = n - 1 /\ Len(a) + (k - 2) = n - 2
    BY <1>2, <1>3, <2>1, <2>2
  <2>4. c[n - 1] = b[k - 1] /\ c[n - 2] = b[k - 2]
    BY <1>2, <2>3
  <2>5. n = Len(c) /\ n > 2
    BY <1>2, <1>3, <2>1, <2>2
  <2> HIDE DEF k
  <2>6. QED
    BY <2>2, <2>4, <2>5
<1>9. QED
  BY <1>2, <1>4, <1>5, <1>6, <1>7, <1>8 DEF Good, Part, c

\* A part of a route that neither names a provider's store nor uses one.
Simple(i, op) ==
    /\ i \in Steps(op) /\ StepFits(i, op)
    /\ i.do \notin {"pick", "build"}
    /\ i.do = "write" /\ op.keyed => i.what \notin Upserts

\* The empty part.
LEMMA GoodNone ==
  ASSUME NEW op
  PROVE  Good(<< >>, op) /\ NoMemorySteps(<< >>) /\ NoNeeds(<< >>) /\ NoWrites(<< >>)
BY DEF Good, Part, StepsFit, NeedsFirst, KeysFirst, Picked, BuiltLast, NoMemorySteps, NoNeeds, NoWrites

\* What only reads and checks, and what only changes.
Front(p, op) == Good(p, op) /\ NoMemorySteps(p) /\ NoWrites(p)
Back(p, op) == Good(p, op) /\ NoMemorySteps(p) /\ NoNeeds(p)

\* Reads and checks after reads and checks.
LEMMA FrontConcat ==
  ASSUME NEW op, NEW a, NEW b, Front(a, op), Front(b, op)
  PROVE  Front(a \o b, op)
<1>1. a \in Seq(Steps(op)) /\ b \in Seq(Steps(op))
  BY DEF Front, Good, Part
<1>2. Good(a \o b, op)
  BY GoodConcat DEF Front, Good
<1>3. NoMemorySteps(a \o b) /\ NoWrites(a \o b)
  BY <1>1, ConcatIndex DEF Front, NoMemorySteps, NoWrites
<1>4. QED
  BY <1>2, <1>3 DEF Front

\* Changes after changes.
LEMMA BackConcat ==
  ASSUME NEW op, NEW a, NEW b, Back(a, op), Back(b, op)
  PROVE  Back(a \o b, op)
<1>1. a \in Seq(Steps(op)) /\ b \in Seq(Steps(op))
  BY DEF Back, Good, Part
<1>2. Good(a \o b, op)
  BY GoodConcat DEF Back, Good
<1>3. NoMemorySteps(a \o b) /\ NoNeeds(a \o b)
  BY <1>1, ConcatIndex DEF Back, NoMemorySteps, NoNeeds
<1>4. QED
  BY <1>2, <1>3 DEF Back

FrontStep(i, op) == Simple(i, op) /\ i.do \notin WritingSteps
BackStep(i, op) == Simple(i, op) /\ i.do # "need"

\* A list of single reads and checks.
LEMMA FrontList ==
  ASSUME NEW op, NEW p \in Seq(Steps(op)),
         \A n \in 1 .. Len(p) : FrontStep(p[n], op)
  PROVE  Front(p, op)
BY DEF Front, FrontStep, Simple, Good, Part, StepsFit, NeedsFirst, KeysFirst, Picked, BuiltLast, NoMemorySteps,
   NoWrites

\* A list of single changes and reads.
LEMMA BackList ==
  ASSUME NEW op, NEW p \in Seq(Steps(op)),
         \A n \in 1 .. Len(p) : BackStep(p[n], op)
  PROVE  Back(p, op)
BY DEF Back, BackStep, Simple, Good, Part, StepsFit, NeedsFirst, KeysFirst, Picked, BuiltLast, NoMemorySteps, NoNeeds

\* A good part after reads and checks.
LEMMA FrontBack ==
  ASSUME NEW op, NEW a, NEW b, Front(a, op), Good(b, op)
  PROVE  Good(a \o b, op)
BY GoodConcat DEF Front, Good

\* A read may stand on either side.
LEMMA ReadSteps ==
  ASSUME NEW op
  PROVE  /\ FrontStep(Read("providers"), op) /\ FrontStep(Read("memory"), op)
         /\ FrontStep(Read("secrets"), op) /\ FrontStep(Read("assignments"), op)
         /\ FrontStep(Read("memoryAssignments"), op) /\ FrontStep(Read("modules"), op)
         /\ FrontStep(Read("runtime"), op)
         /\ BackStep(Read("providers"), op) /\ BackStep(Read("memory"), op)
         /\ BackStep(Read("secrets"), op) /\ BackStep(Read("assignments"), op)
         /\ BackStep(Read("memoryAssignments"), op) /\ BackStep(Read("modules"), op)
         /\ BackStep(Read("runtime"), op)
BY DEF FrontStep, BackStep, Simple, Read, Steps, StoreNames, StepFits, WritingSteps

\* A check stands in front.
LEMMA NeedSteps ==
  ASSUME NEW op
  PROVE  /\ FrontStep(Need("maySetSecret", 403), op) /\ FrontStep(Need("known", 404), op)
         /\ FrontStep(Need("known", 400), op) /\ FrontStep(Need("external", 503), op)
         /\ FrontStep(Need("noBlockers", 400), op) /\ FrontStep(Need("primaryKnown", 400), op)
         /\ FrontStep(Need("fallbackKnown", 400), op) /\ FrontStep(Need("moduleKnown", 404), op)
         /\ FrontStep(Need("mayDisable", 400), op) /\ FrontStep(Need("templateValid", 400), op)
         /\ FrontStep(Need("noSecretFound", 400), op) /\ FrontStep(Need("confirmed", 400), op)
         /\ FrontStep(Need("patchGiven", 400), op) /\ FrontStep(Need("ready", 409), op)
BY DEF FrontStep, Simple, Need, Steps, Tests, Refusals, StepFits, WritingSteps

\* The steps of single routes, except those that pick and build a memory provider.
LEMMA DoSteps ==
  ASSUME NEW op
  PROVE  /\ FrontStep(Do("clearCaches"), op) /\ FrontStep(Do("lookup"), op)
         /\ FrontStep(Do("call"), op) /\ FrontStep(Do("remember"), op)
         /\ FrontStep(Do("choose"), op) /\ FrontStep(Do("candidates"), op)
         /\ FrontStep(Do("slots"), op) /\ FrontStep(Do("route"), op)
         /\ BackStep(Do("clearCaches"), op) /\ BackStep(Do("lookup"), op)
         /\ BackStep(Do("call"), op) /\ BackStep(Do("remember"), op)
         /\ BackStep(Do("choose"), op) /\ BackStep(Do("candidates"), op)
         /\ BackStep(Do("slots"), op) /\ BackStep(Do("route"), op)
         /\ BackStep(Do("registry"), op) /\ BackStep(Do("saveDraft"), op)
BY DEF FrontStep, BackStep, Simple, Do, Steps, OwnSteps, StepFits, WritingSteps

\* Checks first, then changes.
LEMMA MixedList ==
  ASSUME NEW op, NEW p \in Seq(Steps(op)), NEW k \in Nat,
         \A n \in 1 .. Len(p) : IF n <= k THEN FrontStep(p[n], op) ELSE BackStep(p[n], op)
  PROVE  Good(p, op) /\ NoMemorySteps(p)
<1>1. \A n \in 1 .. Len(p) : Simple(p[n], op)
  BY DEF FrontStep, BackStep
<1>2. NeedsFirst(p)
  BY DEF NeedsFirst, FrontStep, BackStep
<1>3. QED
  BY <1>1, <1>2 DEF Simple, Good, Part, StepsFit, KeysFirst, Picked, BuiltLast, NoMemorySteps

\* The same for short lists, element by element: reads and checks only ...
LEMMA Front1 ==
  ASSUME NEW op, NEW a,
         FrontStep(a, op)
  PROVE  Front(<<a>>, op)
<1>1. <<a>> \in Seq(Steps(op)) /\ Len(<<a>>) = 1
  BY DEF FrontStep, Simple
<1>2. \A n \in 1 .. Len(<<a>>) : FrontStep(<<a>>[n], op)
  BY <1>1
<1>3. QED
  BY <1>1, <1>2, FrontList

\* Two reads or checks.
LEMMA Front2 ==
  ASSUME NEW op, NEW a, NEW b,
         FrontStep(a, op), FrontStep(b, op)
  PROVE  Front(<<a, b>>, op)
<1>1. <<a, b>> \in Seq(Steps(op)) /\ Len(<<a, b>>) = 2
  BY DEF FrontStep, Simple
<1>2. \A n \in 1 .. Len(<<a, b>>) : FrontStep(<<a, b>>[n], op)
  BY <1>1
<1>3. QED
  BY <1>1, <1>2, FrontList

\* Three reads or checks.
LEMMA Front3 ==
  ASSUME NEW op, NEW a, NEW b, NEW c,
         FrontStep(a, op), FrontStep(b, op), FrontStep(c, op)
  PROVE  Front(<<a, b, c>>, op)
<1>1. <<a, b, c>> \in Seq(Steps(op)) /\ Len(<<a, b, c>>) = 3
  BY DEF FrontStep, Simple
<1>2. \A n \in 1 .. Len(<<a, b, c>>) : FrontStep(<<a, b, c>>[n], op)
  BY <1>1
<1>3. QED
  BY <1>1, <1>2, FrontList

\* Four reads or checks.
LEMMA Front4 ==
  ASSUME NEW op, NEW a, NEW b, NEW c, NEW d,
         FrontStep(a, op), FrontStep(b, op), FrontStep(c, op), FrontStep(d, op)
  PROVE  Front(<<a, b, c, d>>, op)
<1>1. <<a, b, c, d>> \in Seq(Steps(op)) /\ Len(<<a, b, c, d>>) = 4
  BY DEF FrontStep, Simple
<1>2. \A n \in 1 .. Len(<<a, b, c, d>>) : FrontStep(<<a, b, c, d>>[n], op)
  BY <1>1
<1>3. QED
  BY <1>1, <1>2, FrontList

\* Five reads or checks.
LEMMA Front5 ==
  ASSUME NEW op, NEW a, NEW b, NEW c, NEW d, NEW e,
         FrontStep(a, op), FrontStep(b, op), FrontStep(c, op), FrontStep(d, op), FrontStep(e, op)
  PROVE  Front(<<a, b, c, d, e>>, op)
<1>1. <<a, b, c, d, e>> \in Seq(Steps(op)) /\ Len(<<a, b, c, d, e>>) = 5
  BY DEF FrontStep, Simple
<1>2. \A n \in 1 .. Len(<<a, b, c, d, e>>) : FrontStep(<<a, b, c, d, e>>[n], op)
  BY <1>1
<1>3. QED
  BY <1>1, <1>2, FrontList

\* Six reads or checks.
LEMMA Front6 ==
  ASSUME NEW op, NEW a, NEW b, NEW c, NEW d, NEW e, NEW f,
         FrontStep(a, op), FrontStep(b, op), FrontStep(c, op), FrontStep(d, op), FrontStep(e, op), FrontStep(f, op)
  PROVE  Front(<<a, b, c, d, e, f>>, op)
<1>1. <<a, b, c, d, e, f>> \in Seq(Steps(op)) /\ Len(<<a, b, c, d, e, f>>) = 6
  BY DEF FrontStep, Simple
<1>2. \A n \in 1 .. Len(<<a, b, c, d, e, f>>) : FrontStep(<<a, b, c, d, e, f>>[n], op)
  BY <1>1
<1>3. QED
  BY <1>1, <1>2, FrontList

\* Seven reads or checks.
LEMMA Front7 ==
  ASSUME NEW op, NEW a, NEW b, NEW c, NEW d, NEW e, NEW f, NEW g,
         FrontStep(a, op), FrontStep(b, op), FrontStep(c, op), FrontStep(d, op), FrontStep(e, op),
         FrontStep(f, op), FrontStep(g, op)
  PROVE  Front(<<a, b, c, d, e, f, g>>, op)
<1>1. <<a, b, c, d, e, f, g>> \in Seq(Steps(op)) /\ Len(<<a, b, c, d, e, f, g>>) = 7
  BY DEF FrontStep, Simple
<1>2. \A n \in 1 .. Len(<<a, b, c, d, e, f, g>>) : FrontStep(<<a, b, c, d, e, f, g>>[n], op)
  BY <1>1
<1>3. QED
  BY <1>1, <1>2, FrontList

\* ... changes and reads only ...
LEMMA Back1 ==
  ASSUME NEW op, NEW a,
         BackStep(a, op)
  PROVE  Back(<<a>>, op)
<1>1. <<a>> \in Seq(Steps(op)) /\ Len(<<a>>) = 1
  BY DEF BackStep, Simple
<1>2. \A n \in 1 .. Len(<<a>>) : BackStep(<<a>>[n], op)
  BY <1>1
<1>3. QED
  BY <1>1, <1>2, BackList

\* Two changes or reads.
LEMMA Back2 ==
  ASSUME NEW op, NEW a, NEW b,
         BackStep(a, op), BackStep(b, op)
  PROVE  Back(<<a, b>>, op)
<1>1. <<a, b>> \in Seq(Steps(op)) /\ Len(<<a, b>>) = 2
  BY DEF BackStep, Simple
<1>2. \A n \in 1 .. Len(<<a, b>>) : BackStep(<<a, b>>[n], op)
  BY <1>1
<1>3. QED
  BY <1>1, <1>2, BackList

\* Three changes or reads.
LEMMA Back3 ==
  ASSUME NEW op, NEW a, NEW b, NEW c,
         BackStep(a, op), BackStep(b, op), BackStep(c, op)
  PROVE  Back(<<a, b, c>>, op)
<1>1. <<a, b, c>> \in Seq(Steps(op)) /\ Len(<<a, b, c>>) = 3
  BY DEF BackStep, Simple
<1>2. \A n \in 1 .. Len(<<a, b, c>>) : BackStep(<<a, b, c>>[n], op)
  BY <1>1
<1>3. QED
  BY <1>1, <1>2, BackList

\* Four changes or reads.
LEMMA Back4 ==
  ASSUME NEW op, NEW a, NEW b, NEW c, NEW d,
         BackStep(a, op), BackStep(b, op), BackStep(c, op), BackStep(d, op)
  PROVE  Back(<<a, b, c, d>>, op)
<1>1. <<a, b, c, d>> \in Seq(Steps(op)) /\ Len(<<a, b, c, d>>) = 4
  BY DEF BackStep, Simple
<1>2. \A n \in 1 .. Len(<<a, b, c, d>>) : BackStep(<<a, b, c, d>>[n], op)
  BY <1>1
<1>3. QED
  BY <1>1, <1>2, BackList

\* Six changes or reads.
LEMMA Back6 ==
  ASSUME NEW op, NEW a, NEW b, NEW c, NEW d, NEW e, NEW f,
         BackStep(a, op), BackStep(b, op), BackStep(c, op), BackStep(d, op), BackStep(e, op), BackStep(f, op)
  PROVE  Back(<<a, b, c, d, e, f>>, op)
<1>1. <<a, b, c, d, e, f>> \in Seq(Steps(op)) /\ Len(<<a, b, c, d, e, f>>) = 6
  BY DEF BackStep, Simple
<1>2. \A n \in 1 .. Len(<<a, b, c, d, e, f>>) : BackStep(<<a, b, c, d, e, f>>[n], op)
  BY <1>1
<1>3. QED
  BY <1>1, <1>2, BackList

\* ... and so many of the first followed by so many of the second.
LEMMA Mixed11 ==
  ASSUME NEW op, NEW a, NEW b,
         FrontStep(a, op), BackStep(b, op)
  PROVE  Good(<<a, b>>, op) /\ NoMemorySteps(<<a, b>>)
<1>1. <<a, b>> \in Seq(Steps(op)) /\ Len(<<a, b>>) = 2
  BY DEF FrontStep, BackStep, Simple
<1>2. \A n \in 1 .. Len(<<a, b>>) : IF n <= 1 THEN FrontStep(<<a, b>>[n], op) ELSE BackStep(<<a, b>>[n], op)
  BY <1>1
<1>3. QED
  BY <1>1, <1>2, MixedList

\* Two in front, one behind.
LEMMA Mixed21 ==
  ASSUME NEW op, NEW a, NEW b, NEW c,
         FrontStep(a, op), FrontStep(b, op), BackStep(c, op)
  PROVE  Good(<<a, b, c>>, op) /\ NoMemorySteps(<<a, b, c>>)
<1>1. <<a, b, c>> \in Seq(Steps(op)) /\ Len(<<a, b, c>>) = 3
  BY DEF FrontStep, BackStep, Simple
<1>2. \A n \in 1 .. Len(<<a, b, c>>) : IF n <= 2 THEN FrontStep(<<a, b, c>>[n], op) ELSE BackStep(<<a, b, c>>[n], op)
  BY <1>1
<1>3. QED
  BY <1>1, <1>2, MixedList

\* Three in front, one behind.
LEMMA Mixed31 ==
  ASSUME NEW op, NEW a, NEW b, NEW c, NEW d,
         FrontStep(a, op), FrontStep(b, op), FrontStep(c, op), BackStep(d, op)
  PROVE  Good(<<a, b, c, d>>, op) /\ NoMemorySteps(<<a, b, c, d>>)
<1>1. <<a, b, c, d>> \in Seq(Steps(op)) /\ Len(<<a, b, c, d>>) = 4
  BY DEF FrontStep, BackStep, Simple
<1>2. \A n \in 1 .. Len(<<a, b, c, d>>) : IF n <= 3 THEN FrontStep(<<a, b, c, d>>[n], op)
      ELSE BackStep(<<a, b, c, d>>[n], op)
  BY <1>1
<1>3. QED
  BY <1>1, <1>2, MixedList

\* Two in front, two behind.
LEMMA Mixed22 ==
  ASSUME NEW op, NEW a, NEW b, NEW c, NEW d,
         FrontStep(a, op), FrontStep(b, op), BackStep(c, op), BackStep(d, op)
  PROVE  Good(<<a, b, c, d>>, op) /\ NoMemorySteps(<<a, b, c, d>>)
<1>1. <<a, b, c, d>> \in Seq(Steps(op)) /\ Len(<<a, b, c, d>>) = 4
  BY DEF FrontStep, BackStep, Simple
<1>2. \A n \in 1 .. Len(<<a, b, c, d>>) : IF n <= 2 THEN FrontStep(<<a, b, c, d>>[n], op)
      ELSE BackStep(<<a, b, c, d>>[n], op)
  BY <1>1
<1>3. QED
  BY <1>1, <1>2, MixedList

\* Two in front, three behind.
LEMMA Mixed23 ==
  ASSUME NEW op, NEW a, NEW b, NEW c, NEW d, NEW e,
         FrontStep(a, op), FrontStep(b, op), BackStep(c, op), BackStep(d, op), BackStep(e, op)
  PROVE  Good(<<a, b, c, d, e>>, op) /\ NoMemorySteps(<<a, b, c, d, e>>)
<1>1. <<a, b, c, d, e>> \in Seq(Steps(op)) /\ Len(<<a, b, c, d, e>>) = 5
  BY DEF FrontStep, BackStep, Simple
<1>2. \A n \in 1 .. Len(<<a, b, c, d, e>>) : IF n <= 2 THEN FrontStep(<<a, b, c, d, e>>[n], op)
      ELSE BackStep(<<a, b, c, d, e>>[n], op)
  BY <1>1
<1>3. QED
  BY <1>1, <1>2, MixedList

(***************************************************************************)
(* The routes, one by one.                                                 *)
(***************************************************************************)
\* Writes to the stores that hold no provider and no key.
LEMMA WriteSteps ==
  ASSUME NEW op
  PROVE  /\ BackStep(WriteArg("assignments", "upsertAssignment", op.assignment), op)
         /\ BackStep(WriteArg("assignments", "upsertAssignment", op.template.assignment), op)
         /\ BackStep(WriteArg("assignments", "resetAssignments", op.scope), op)
         /\ BackStep(WriteArg("memoryAssignments", "upsertMemoryAssignment", op.assignment), op)
         /\ BackStep(WriteArg("memoryAssignments", "upsertMemoryAssignment", op.template.memory), op)
         /\ BackStep(WriteArg("memoryAssignments", "resetMemoryAssignments", op.scope), op)
         /\ BackStep(WriteArg("runtime", "putRuntime", op.patch), op)
         /\ BackStep(WriteArg("runtime", "putRuntime", [field |-> "profile", value |-> "configured"]), op)
BY DEF BackStep, Simple, WriteArg, Steps, StoreNames, WriteKinds, WriteArgs, StepFits, Upserts

\* What a template adds where it is missing.
LEMMA MissingSteps ==
  ASSUME NEW op
  PROVE  /\ BackStep([WriteArg("assignments", "upsertAssignment", op.template.assignment)
                        EXCEPT !.when = "roleMissing"], op)
         /\ BackStep([WriteArg("memoryAssignments", "upsertMemoryAssignment", op.template.memory)
                        EXCEPT !.when = "memoryRoleMissing"], op)
BY DEF BackStep, Simple, WriteArg, Steps, StoreNames, WriteKinds, WriteArgs, StepFits, Upserts

\* The switch of one module.
LEMMA ModuleSteps ==
  ASSUME NEW op, NEW when \in {"always", "toggleMissing"}
  PROVE  /\ Back(ModuleWrite(op.id, op.on, when), op)
         /\ Back(ModuleWrite(op.template.toggle, "off", when), op)
<1> DEFINE W(id, on) == [do |-> "write", store |-> "modules", what |-> "setModuleEnabled",
                         arg |-> [id |-> id, on |-> on], when |-> when]
<1>1. BackStep(W(op.id, op.on), op) /\ BackStep(W(op.template.toggle, "off"), op)
  BY DEF BackStep, Simple, Steps, StoreNames, WriteKinds, WriteArgs, StepFits, Upserts
<1>2. Back(<<W(op.id, op.on)>>, op) /\ Back(<<W(op.template.toggle, "off")>>, op)
  <2> HIDE DEF W
  <2>1. QED
    BY <1>1, Back1
<1>3. QED
  BY <1>2 DEF ModuleWrite

\* Writes to the stores of the providers and of the keys.
LEMMA ProviderSteps ==
  ASSUME NEW op, op.do \in ProviderRoutes
  PROVE  /\ BackStep(Write("providers", "removeProvider"), op)
         /\ BackStep(Write("providers", "setActiveRoute"), op)
         /\ ~op.keyed => BackStep(Write("providers", "upsertProvider"), op)
BY DEF BackStep, Simple, Write, WriteArg, Steps, StoreNames, WriteKinds, WriteArgs, StepFits, Upserts

\* The same for memory providers.
LEMMA MemorySteps ==
  ASSUME NEW op, op.do \in MemoryRoutes
  PROVE  /\ BackStep(Write("memory", "removeMemoryProvider"), op)
         /\ BackStep(Write("memory", "setActiveMemoryProvider"), op)
         /\ ~op.keyed => BackStep(Write("memory", "upsertMemoryProvider"), op)
BY DEF BackStep, Simple, Write, WriteArg, Steps, StoreNames, WriteKinds, WriteArgs, StepFits, Upserts

\* Both kinds of provider may have a key.
LEMMA SecretSteps ==
  ASSUME NEW op, op.do \in ProviderRoutes \cup MemoryRoutes
  PROVE  BackStep(Write("secrets", "setSecret"), op) /\ BackStep(Write("secrets", "deleteSecret"), op)
BY DEF BackStep, Simple, Write, WriteArg, Steps, StoreNames, WriteKinds, WriteArgs, StepFits, Upserts

\* The key of a record that comes with one is written before the record.
LEMMA KeyedRoutes ==
  ASSUME NEW op, op.do \in ProviderRoutes \cup MemoryRoutes, op.keyed,
         NEW first, FrontStep(first, op), NEW b, Part(b, op), NoNeeds(b)
  PROVE  Good((<<first>> \o KeyFirst(op)) \o b, op)
<1> DEFINE need == Need("maySetSecret", 403)
           set == Write("secrets", "setSecret")
           k == <<need, set>>
           a == <<first>> \o k
<1>1. FrontStep(need, op) /\ BackStep(set, op) /\ Sets(set)
  BY NeedSteps, SecretSteps DEF Sets, Write, WriteArg
<1>2. KeyFirst(op) = k
  BY DEF KeyFirst
<1> HIDE DEF need, set
<1>3. Good(k, op) /\ NoMemorySteps(k)
  <2>1. k \in Seq(Steps(op)) /\ Len(k) = 2
    BY <1>1 DEF FrontStep, BackStep, Simple
  <2>2. \A n \in 1 .. Len(k) : IF n <= 1 THEN FrontStep(k[n], op) ELSE BackStep(k[n], op)
    BY <1>1, <2>1
  <2>3. QED
    BY <2>1, <2>2, MixedList
<1>4. Front(<<first>>, op)
  BY Front1
<1>5. Good(a, op)
  BY <1>3, <1>4, FrontBack
<1>6. <<first>> \in Seq(Steps(op)) /\ k \in Seq(Steps(op)) /\ Len(<<first>>) = 1 /\ Len(k) = 2
  BY <1>3, <1>4 DEF Front, Good, Part
<1>7. Len(a) = 3 /\ a[3] = k[2] /\ a[1] = first /\ a[2] = k[1]
  BY <1>6, ConcatIndex
<1>8. \E m \in 1 .. Len(a) : Sets(a[m])
  BY <1>1, <1>7
<1>9. NoMemorySteps(a)
  <2>1. first.do \notin {"pick", "build"} /\ need.do \notin {"pick", "build"} /\ set.do \notin {"pick", "build"}
    BY <1>1 DEF FrontStep, BackStep, Simple
  <2>2. QED
    BY <1>7, <2>1 DEF NoMemorySteps
<1> HIDE DEF a
<1>10. QED
  BY <1>2, <1>5, <1>8, <1>9, GoodConcat DEF a

\* Changes and reads after what is good already.
LEMMA GoodThen ==
  ASSUME NEW op, NEW a, NEW b, Good(a, op), NoMemorySteps(a), Good(b, op), NoNeeds(b)
  PROVE  Good(a \o b, op)
BY GoodConcat DEF Good

\* postProvider and postMemoryProvider, with and without a key.
LEMMA PostRoutes ==
  ASSUME NEW op
  PROVE  /\ op.do \in ProviderRoutes => Good(postProvider(op), op)
         /\ op.do \in MemoryRoutes => Good(postMemoryProvider(op), op)
<1>1. ASSUME op.do \in ProviderRoutes, op.keyed PROVE Good(postProvider(op), op)
  <2> DEFINE w == Write("providers", "upsertProvider")
  <2>1. w \in Steps(op) /\ StepFits(w, op) /\ w.do = "write"
    BY <1>1 DEF Write, WriteArg, Steps, StoreNames, WriteKinds, WriteArgs, StepFits
  <2> HIDE DEF w
  <2>2. Part(<<w>>, op) /\ NoNeeds(<<w>>)
    BY <2>1 DEF Part, StepsFit, NeedsFirst, Picked, BuiltLast, NoNeeds
  <2>3. FrontStep(Read("providers"), op)
    BY ReadSteps
  <2>4. Good((<<Read("providers")>> \o KeyFirst(op)) \o <<w>>, op)
    BY <1>1, <2>2, <2>3, KeyedRoutes
  <2>5. QED
    BY <2>4 DEF postProvider, w
<1>2. ASSUME op.do \in ProviderRoutes, ~op.keyed PROVE Good(postProvider(op), op)
  <2>1. Front(<<Read("providers")>>, op)
    BY ReadSteps, Front1
  <2>2. Front(KeyFirst(op), op)
    BY <1>2, GoodNone DEF KeyFirst, Front
  <2>3. Back(<<Write("providers", "upsertProvider")>>, op)
    BY <1>2, ProviderSteps, Back1
  <2>4. QED
    BY <2>1, <2>2, <2>3, FrontConcat, FrontBack DEF postProvider, Back
<1>3. ASSUME op.do \in MemoryRoutes, op.keyed PROVE Good(postMemoryProvider(op), op)
  <2> DEFINE w == Write("memory", "upsertMemoryProvider")
             d == Do("clearCaches")
  <2>1. w \in Steps(op) /\ StepFits(w, op) /\ w.do = "write"
    BY <1>3 DEF Write, WriteArg, Steps, StoreNames, WriteKinds, WriteArgs, StepFits
  <2>2. d \in Steps(op) /\ StepFits(d, op) /\ d.do = "clearCaches"
    BY DEF Do, Steps, OwnSteps, StepFits
  <2> HIDE DEF w, d
  <2>3. Part(<<w, d>>, op) /\ NoNeeds(<<w, d>>)
    BY <2>1, <2>2 DEF Part, StepsFit, NeedsFirst, Picked, BuiltLast, NoNeeds
  <2>4. FrontStep(Read("memory"), op)
    BY ReadSteps
  <2>5. Good((<<Read("memory")>> \o KeyFirst(op)) \o <<w, d>>, op)
    BY <1>3, <2>3, <2>4, KeyedRoutes
  <2>6. QED
    BY <2>5 DEF postMemoryProvider, w, d
<1>4. ASSUME op.do \in MemoryRoutes, ~op.keyed PROVE Good(postMemoryProvider(op), op)
  <2>1. Front(<<Read("memory")>>, op)
    BY ReadSteps, Front1
  <2>2. Front(KeyFirst(op), op)
    BY <1>4, GoodNone DEF KeyFirst, Front
  <2>3. BackStep(Write("memory", "upsertMemoryProvider"), op) /\ BackStep(Do("clearCaches"), op)
    BY <1>4, MemorySteps, DoSteps
  <2>4. Back(<<Write("memory", "upsertMemoryProvider"), Do("clearCaches")>>, op)
    BY <2>3, Back2
  <2>5. QED
    BY <2>1, <2>2, <2>4, FrontConcat, FrontBack DEF postMemoryProvider, Back
<1>5. QED
  BY <1>1, <1>2, <1>3, <1>4

\* The other routes of the model providers.
LEMMA ProviderRoutesGood ==
  ASSUME NEW op, op.do \in ProviderRoutes
  PROVE  Good(postProvidersActive(op), op) /\ Good(postProviderSecret(op), op) /\ Good(deleteProvider(op), op)
<1>1. /\ FrontStep(Read("providers"), op) /\ FrontStep(Need("known", 404), op)
      /\ BackStep(Write("providers", "setActiveRoute"), op) /\ BackStep(Write("providers", "removeProvider"), op)
      /\ BackStep(Write("secrets", "setSecret"), op) /\ BackStep(Write("secrets", "deleteSecret"), op)
  BY ReadSteps, NeedSteps, ProviderSteps, SecretSteps
<1>2. Good(postProvidersActive(op), op)
  BY <1>1, Back1 DEF postProvidersActive, Back
<1>3. Good(postProviderSecret(op), op)
  BY <1>1, Mixed21 DEF postProviderSecret
<1>4. Good(deleteProvider(op), op)
  BY <1>1, Mixed22 DEF deleteProvider
<1>5. QED
  BY <1>2, <1>3, <1>4

\* The other routes of the memory providers.
LEMMA MemoryRoutesGood ==
  ASSUME NEW op, op.do \in MemoryRoutes
  PROVE  /\ Good(postMemoryProvidersActive(op), op) /\ Good(postMemoryProviderSecret(op), op)
         /\ Good(deleteMemoryProvider(op), op)
<1>1. /\ FrontStep(Read("memory"), op) /\ FrontStep(Need("known", 404), op)
      /\ BackStep(Write("memory", "setActiveMemoryProvider"), op)
      /\ BackStep(Write("memory", "removeMemoryProvider"), op)
      /\ BackStep(Write("secrets", "setSecret"), op) /\ BackStep(Write("secrets", "deleteSecret"), op)
      /\ BackStep(Do("clearCaches"), op)
  BY ReadSteps, NeedSteps, MemorySteps, SecretSteps, DoSteps
<1>2. Good(postMemoryProvidersActive(op), op)
  BY <1>1, Back2 DEF postMemoryProvidersActive, Back
<1>3. Good(postMemoryProviderSecret(op), op)
  BY <1>1, Mixed22 DEF postMemoryProviderSecret
<1>4. Good(deleteMemoryProvider(op), op)
  BY <1>1, Mixed23 DEF deleteMemoryProvider
<1>5. QED
  BY <1>2, <1>3, <1>4

\* Discovery and connection tests.
LEMMA DiscoveryRoutesGood ==
  ASSUME NEW op
  PROVE  Good(discover(op), op) /\ Good(runSettingsDiscovery(op), op) /\ Good(runConnectionTest(op), op)
<1>1. /\ FrontStep(Read("providers"), op) /\ FrontStep(Need("known", 404), op) /\ FrontStep(Need("known", 400), op)
      /\ FrontStep(Do("lookup"), op) /\ FrontStep(Read("secrets"), op) /\ FrontStep(Do("call"), op)
      /\ FrontStep(Do("remember"), op) /\ FrontStep(Need("external", 503), op)
  BY ReadSteps, NeedSteps, DoSteps
<1>2. Front(<<Read("providers"), Need("known", 404)>>, op)
  BY <1>1, Front2
<1>3. Front(IF op.refresh THEN << >> ELSE <<Do("lookup")>>, op)
  BY <1>1, Front1, GoodNone DEF Front
<1>4. Front(<<Read("secrets"), Do("call"), Do("remember")>>, op)
  BY <1>1, Front3
<1>5. Front(discover(op), op)
  BY <1>2, <1>3, <1>4, FrontConcat DEF discover
<1>6. Front(runSettingsDiscovery(op), op)
  BY <1>1, <1>5, Front1, FrontConcat DEF runSettingsDiscovery
<1>7. Front(runConnectionTest(op), op)
  <2>1. Front(resolveTestProvider(op), op)
    BY <1>1, Front3 DEF resolveTestProvider
  <2>2. QED
    BY <1>1, <2>1, Front1, FrontConcat DEF runConnectionTest
<1>8. QED
  BY <1>5, <1>6, <1>7 DEF Front

\* The resolution of a memory role: picked from a read of the records, built after one of the keys.
LEMMA ResolveMemoryGood ==
  ASSUME NEW op, op.do \in MemoryServing
  PROVE  Good(resolveMemoryProvider(op), op) /\ NoNeeds(resolveMemoryProvider(op))
<1> DEFINE a == Read("memoryAssignments")
           b == Read("memory")
           c == Do("candidates")
           d == Do("pick")
           e == Read("secrets")
           f == Do("build")
           p == <<a, b, c, d, e, f>>
<1>1. /\ {a, b, c, d, e, f} \subseteq Steps(op)
      /\ a.do = "read" /\ b.do = "read" /\ c.do = "candidates" /\ d.do = "pick" /\ e.do = "read" /\ f.do = "build"
  BY DEF Read, Do, Steps, StoreNames, OwnSteps
<1>2. b = Read("memory") /\ e = Read("secrets")
  OBVIOUS
<1> HIDE DEF a, b, c, d, e, f
<1>3. p \in Seq(Steps(op)) /\ Len(p) = 6
  BY <1>1
<1>4. p[1] = a /\ p[2] = b /\ p[3] = c /\ p[4] = d /\ p[5] = e /\ p[6] = f
  OBVIOUS
<1>5. \A n \in 1 .. Len(p) : n = 1 \/ n = 2 \/ n = 3 \/ n = 4 \/ n = 5 \/ n = 6
  BY <1>3
<1> HIDE DEF p
<1>6. \A n \in 1 .. Len(p) : p[n].do \notin {"write", "need"}
  BY <1>1, <1>4, <1>5
<1>7. StepsFit(p, op) /\ NeedsFirst(p) /\ KeysFirst(p, op)
  BY <1>6 DEF StepsFit, StepFits, NeedsFirst, KeysFirst
<1>8. Picked(p) /\ BuiltLast(p)
  BY <1>1, <1>2, <1>3, <1>4, <1>5 DEF Picked, BuiltLast
<1>9. Good(p, op) /\ NoNeeds(p)
  BY <1>3, <1>6, <1>7, <1>8 DEF Good, Part, NoNeeds
<1>10. QED
  BY <1>9 DEF p, a, b, c, d, e, f, resolveMemoryProvider

\* Assignments of roles to models and to memory providers.
LEMMA AssignmentRoutesGood ==
  ASSUME NEW op
  PROVE  /\ Good(putAssignment(op), op) /\ Good(testAssignment(op), op) /\ Good(postAssignmentsReset(op), op)
         /\ Good(postMemoryAssignmentsReset(op), op)
         /\ op.do \in MemoryServing => Good(putMemoryAssignment(op), op) /\ Good(planMemoryMigration(op), op)
<1>1. /\ FrontStep(Read("assignments"), op) /\ FrontStep(Read("providers"), op) /\ FrontStep(Read("secrets"), op)
      /\ FrontStep(Read("memory"), op) /\ BackStep(Read("memoryAssignments"), op)
      /\ FrontStep(Need("noBlockers", 400), op) /\ FrontStep(Need("known", 400), op)
      /\ FrontStep(Need("primaryKnown", 400), op) /\ FrontStep(Need("fallbackKnown", 400), op)
      /\ FrontStep(Do("choose"), op) /\ FrontStep(Do("call"), op) /\ BackStep(Do("clearCaches"), op)
  BY ReadSteps, NeedSteps, DoSteps
<1>2. Good(putAssignment(op), op)
  BY <1>1, WriteSteps, Mixed31 DEF putAssignment
<1>3. Good(testAssignment(op), op)
  BY <1>1, Front7 DEF testAssignment, Front
<1>4. Good(postAssignmentsReset(op), op)
  BY WriteSteps, Back1 DEF postAssignmentsReset, Back
<1>5. ASSUME op.do \in MemoryServing PROVE Good(putMemoryAssignment(op), op)
  <2> DEFINE b == <<Read("memoryAssignments"),
                    WriteArg("memoryAssignments", "upsertMemoryAssignment", op.assignment), Do("clearCaches")>>
             a == ensureMemoryProviderRefExists(op)
  <2>1. Front(a, op)
    BY <1>1, Front4 DEF ensureMemoryProviderRefExists
  <2>2. Back(b, op)
    BY <1>1, WriteSteps, Back3
  <2> HIDE DEF a, b
  <2>3. a \in Seq(Steps(op)) /\ b \in Seq(Steps(op)) /\ NoMemorySteps(a) /\ NoMemorySteps(b)
    BY <2>1, <2>2 DEF Front, Back, Good, Part
  <2>4. NoMemorySteps(a \o b)
    BY <2>3, ConcatIndex DEF NoMemorySteps
  <2>5. Good(a \o b, op)
    BY <2>1, <2>2, FrontBack DEF Back
  <2>6. Good((a \o b) \o resolveMemoryProvider(op), op)
    BY <1>5, <2>4, <2>5, ResolveMemoryGood, GoodThen
  <2>7. QED
    BY <2>6 DEF putMemoryAssignment, a, b
<1>6. Good(postMemoryAssignmentsReset(op), op)
  BY <1>1, WriteSteps, Back2 DEF postMemoryAssignmentsReset, Back
<1>7. ASSUME op.do \in MemoryServing PROVE Good(planMemoryMigration(op), op)
  BY <1>1, <1>7, Front2, FrontBack, ResolveMemoryGood DEF planMemoryMigration
<1>8. QED
  BY <1>2, <1>3, <1>4, <1>5, <1>6, <1>7

\* The model router.
LEMMA RouterGood ==
  ASSUME NEW op
  PROVE  Good(buildConfiguredAssignmentAwareRouter(op), op) /\ NoNeeds(buildConfiguredAssignmentAwareRouter(op))
<1>1. /\ BackStep(Read("assignments"), op) /\ BackStep(Read("providers"), op) /\ BackStep(Read("secrets"), op)
      /\ BackStep(Do("slots"), op) /\ BackStep(Do("route"), op)
  BY ReadSteps, DoSteps
<1>2. QED
  BY <1>1, Back6 DEF buildConfiguredAssignmentAwareRouter, Back

\* Switching a module.
LEMMA ModuleRouteGood ==
  ASSUME NEW op
  PROVE  Good(postModules(op), op)
<1>1. FrontStep(Need("moduleKnown", 404), op) /\ FrontStep(Need("mayDisable", 400), op)
      /\ BackStep(Do("registry"), op)
  BY NeedSteps, DoSteps
<1>2. Good(<<Need("moduleKnown", 404), Need("mayDisable", 400), Do("registry")>>, op)
      /\ NoMemorySteps(<<Need("moduleKnown", 404), Need("mayDisable", 400), Do("registry")>>)
  BY <1>1, Mixed21
<1>3. Back(ModuleWrite(op.id, op.on, "always"), op)
  BY ModuleSteps
<1>4. QED
  BY <1>2, <1>3, GoodThen DEF postModules, Back

\* Applying and saving a template.
LEMMA TemplateRoutesGood ==
  ASSUME NEW op, op.mode \in ApplyModes
  PROVE  Good(applyTemplate(op), op)
<1> DEFINE front == currentConfig(op) \o <<Need("templateValid", 400)>>
<1>1. /\ FrontStep(Read("providers"), op) /\ FrontStep(Read("memory"), op) /\ FrontStep(Read("modules"), op)
      /\ FrontStep(Read("assignments"), op) /\ FrontStep(Read("memoryAssignments"), op)
      /\ FrontStep(Need("templateValid", 400), op) /\ FrontStep(Need("confirmed", 400), op)
      /\ BackStep(Do("saveDraft"), op)
  BY ReadSteps, NeedSteps, DoSteps
<1>2. Front(currentConfig(op), op)
  BY <1>1, Front5 DEF currentConfig
<1>3. Front(front, op)
  BY <1>1, <1>2, Front1, FrontConcat
<1>4. \A when \in {"always", "toggleMissing"} : Back(applyModuleToggles(op, when), op)
  BY ModuleSteps, GoodNone DEF applyModuleToggles, Back
<1>5. CASE op.mode = "previewOnly"
  <2>1. Good(front \o << >>, op)
    BY <1>3, GoodNone, FrontBack
  <2>2. QED
    BY <1>5, <2>1 DEF applyTemplate
<1>6. CASE op.mode = "saveAsDraft"
  <2>1. Good(front \o <<Do("saveDraft")>>, op)
    BY <1>1, <1>3, Back1, FrontBack DEF Back
  <2>2. QED
    BY <1>6, <2>1 DEF applyTemplate
<1>7. CASE op.mode = "replaceAssignments"
  <2> DEFINE a == <<Need("confirmed", 400)>>
             b == replaceAssignments(op)
             c == applyModuleToggles(op, "always")
  <2>1. Front(a, op) /\ Back(b, op) /\ Back(c, op)
    BY <1>1, <1>4, Front1, WriteSteps, Back4 DEF replaceAssignments
  <2> HIDE DEF a, b, c, front
  <2>2. Good(a \o b, op) /\ NoMemorySteps(a \o b)
    <3>1. a \in Seq(Steps(op)) /\ b \in Seq(Steps(op)) /\ NoMemorySteps(a) /\ NoMemorySteps(b)
      BY <2>1 DEF Front, Back, Good, Part
    <3>2. NoMemorySteps(a \o b)
      BY <3>1, ConcatIndex DEF NoMemorySteps
    <3>3. QED
      BY <2>1, <3>2, FrontBack DEF Back
  <2>3. Good((a \o b) \o c, op)
    BY <2>1, <2>2, GoodThen DEF Back
  <2>4. Good(front \o ((a \o b) \o c), op)
    BY <1>3, <2>3, FrontBack
  <2>5. QED
    BY <1>7, <2>4 DEF applyTemplate, a, b, c, front
<1>8. CASE op.mode = "mergeMissing"
  <2> DEFINE c == applyModuleToggles(op, "toggleMissing")
             a == [WriteArg("assignments", "upsertAssignment", op.template.assignment) EXCEPT !.when = "roleMissing"]
             b == [WriteArg("memoryAssignments", "upsertMemoryAssignment", op.template.memory)
                     EXCEPT !.when = "memoryRoleMissing"]
  <2>1. Back(<<a, b>>, op) /\ Back(c, op)
    BY <1>4, MissingSteps, Back2
  <2>2. mergeMissing(op) = currentConfig(op) \o <<a, b>>
    BY DEF mergeMissing
  <2> HIDE DEF a, b, c, front
  <2>3. Good(mergeMissing(op), op) /\ NoMemorySteps(mergeMissing(op))
    <3>1. /\ currentConfig(op) \in Seq(Steps(op)) /\ <<a, b>> \in Seq(Steps(op))
          /\ NoMemorySteps(currentConfig(op)) /\ NoMemorySteps(<<a, b>>)
      BY <1>2, <2>1 DEF Front, Back, Good, Part
    <3>2. NoMemorySteps(currentConfig(op) \o <<a, b>>)
      BY <3>1, ConcatIndex DEF NoMemorySteps
    <3>3. QED
      BY <1>2, <2>1, <2>2, <3>2, FrontBack DEF Back
  <2>4. Good(mergeMissing(op) \o c, op)
    BY <2>1, <2>3, GoodThen DEF Back
  <2>5. Good(front \o (mergeMissing(op) \o c), op)
    BY <1>3, <2>4, FrontBack
  <2>6. QED
    BY <1>8, <2>5 DEF applyTemplate, c, front
<1>9. QED
  BY <1>5, <1>6, <1>7, <1>8 DEF ApplyModes

\* Runtime settings and activation.
LEMMA SetupRoutesGood ==
  ASSUME NEW op
  PROVE  Good(saveCurrentConfig(op), op) /\ Good(patchRuntimeSettings(op), op) /\ Good(postSetupActivate(op), op)
<1>1. /\ FrontStep(Read("providers"), op) /\ FrontStep(Read("memory"), op) /\ FrontStep(Read("modules"), op)
      /\ FrontStep(Read("assignments"), op) /\ FrontStep(Read("memoryAssignments"), op)
      /\ FrontStep(Read("runtime"), op) /\ BackStep(Read("runtime"), op) /\ FrontStep(Read("secrets"), op)
      /\ FrontStep(Need("noSecretFound", 400), op) /\ FrontStep(Need("patchGiven", 400), op)
      /\ FrontStep(Need("ready", 409), op) /\ BackStep(Do("saveDraft"), op)
  BY ReadSteps, NeedSteps, DoSteps
<1>2. Good(saveCurrentConfig(op), op)
  <2>1. Front(currentConfig(op), op)
    BY <1>1, Front5 DEF currentConfig
  <2>2. Good(<<Need("noSecretFound", 400), Do("saveDraft")>>, op)
    BY <1>1, Mixed11
  <2>3. QED
    BY <2>1, <2>2, FrontBack DEF saveCurrentConfig
<1>3. Good(patchRuntimeSettings(op), op)
  BY <1>1, WriteSteps, Mixed21 DEF patchRuntimeSettings
<1>4. Good(postSetupActivate(op), op)
  <2> DEFINE a == computeActivationReadiness(op)
             b == <<Read("runtime"), WriteArg("runtime", "putRuntime", [field |-> "profile", value |-> "configured"])>>
  <2>1. Front(a, op)
    BY <1>1, Front6 DEF computeActivationReadiness
  <2>2. Back(b, op)
    <3>1. BackStep(WriteArg("runtime", "putRuntime", [field |-> "profile", value |-> "configured"]), op)
      BY WriteSteps
    <3>2. QED
      BY <1>1, <3>1, Back2
  <2> HIDE DEF a, b
  <2>3. Good(a \o b, op) /\ NoMemorySteps(a \o b)
    <3>1. a \in Seq(Steps(op)) /\ b \in Seq(Steps(op)) /\ NoMemorySteps(a) /\ NoMemorySteps(b)
      BY <2>1, <2>2 DEF Front, Back, Good, Part
    <3>2. NoMemorySteps(a \o b)
      BY <3>1, ConcatIndex DEF NoMemorySteps
    <3>3. QED
      BY <2>1, <2>2, <3>2, FrontBack DEF Back
  <2>4. Good((a \o b) \o buildConfiguredAssignmentAwareRouter(op), op)
    BY <2>3, RouterGood, GoodThen
  <2>5. QED
    BY <2>4 DEF postSetupActivate, a, b
<1>5. QED
  BY <1>2, <1>3, <1>4

\* Every program of a route is of that shape.
LEMMA ProgramGood ==
  ASSUME NEW m \in DOMAIN Mixes, NEW op \in Mixes[m]
  PROVE  Good(Program(op), op)
<1>1. /\ op.do \in ProviderRoutes \cup MemoryRoutes \cup OtherRoutes
      /\ op.do = "applyTemplate" => op.mode \in ApplyModes
  BY MixesAssumption
<1>2. CASE op.do \in ProviderRoutes
  BY <1>2, PostRoutes, ProviderRoutesGood DEF Program, ProviderRoutes
<1>3. CASE op.do \in MemoryRoutes
  BY <1>3, PostRoutes, MemoryRoutesGood DEF Program, MemoryRoutes
<1>4. CASE op.do \in OtherRoutes
  BY <1>1, <1>4, DiscoveryRoutesGood, AssignmentRoutesGood, ResolveMemoryGood, RouterGood, ModuleRouteGood,
     TemplateRoutesGood, SetupRoutesGood DEF Program, OtherRoutes, MemoryServing
<1>5. QED
  BY <1>1, <1>2, <1>3, <1>4
(***************************************************************************)
(* What is left of a program after its first step.                         *)
(***************************************************************************)
\* The elements that are left.
LEMMA TailFacts ==
  ASSUME NEW S, NEW p \in Seq(S), p # << >>
  PROVE  /\ Tail(p) \in Seq(S) /\ Len(p) \in Nat /\ Len(p) > 0 /\ Len(Tail(p)) = Len(p) - 1
         /\ Head(p) = p[1] /\ Head(p) \in S
         /\ \A n \in 1 .. Len(p) - 1 : Tail(p)[n] = p[n + 1] /\ n + 1 \in 1 .. Len(p)
         /\ Len(p) = 1 => Tail(p) = << >>
<1>1. /\ Tail(p) \in Seq(S) /\ Len(p) \in Nat /\ Len(p) > 0 /\ Len(Tail(p)) = Len(p) - 1
      /\ Head(p) = p[1] /\ Head(p) \in S
  BY HeadTailProperties, EmptySeq
<1>2. \A n \in 1 .. Len(p) - 1 : Tail(p)[n] = p[n + 1] /\ n + 1 \in 1 .. Len(p)
  BY <1>1, HeadTailProperties
<1>3. Len(p) = 1 => Tail(p) = << >>
  <2>1. Tail(p) # << >> => Len(Tail(p)) \in Nat \ {0}
    BY <1>1, EmptySeq
  <2>2. QED
    BY <1>1, <2>1
<1>4. QED
  BY <1>1, <1>2, <1>3

\* It is still made of fitting steps.
LEMMA TailKeeps ==
  ASSUME NEW op, NEW p \in Seq(Steps(op)), p # << >>, StepsFit(p, op)
  PROVE  Tail(p) \in Seq(Steps(op)) /\ StepsFit(Tail(p), op)
BY TailFacts DEF StepsFit

(***************************************************************************)
(* The invariant.  A file, and what a request has read of one, holds no    *)
(* record, route or key of an id that is gone, and no record whose key was *)
(* never published; a request does its checks before its changes, its key  *)
(* before its record, and is what is left of its route.                    *)
(***************************************************************************)
ProvidersOK(f, ops, pub, gn) ==
    /\ DOMAIN f = {"recs", "active"}
    /\ \A r \in f.recs : r.id \in Naming(ops, ProviderRoutes) \ gn /\ (r.keyed => r.at \in pub)
    /\ f.active \in [ModelRoles -> (Naming(ops, ProviderRoutes) \ gn) \cup {None}]
MemoryOK(f, ops, pub, gn) ==
    /\ DOMAIN f = {"recs", "active"}
    /\ \A r \in f.recs : r.id \in Naming(ops, MemoryRoutes) \ gn /\ (r.keyed => r.at \in pub)
    /\ f.active \in (Naming(ops, MemoryRoutes) \ gn) \cup {None}
SecretsOK(f, gn) == f \in [Ids -> Nat] /\ \A x \in gn : f[x] = 0

FileOK(store, f, ops, pub, gn) ==
    /\ store = "providers" => ProvidersOK(f, ops, pub, gn)
    /\ store = "memory" => MemoryOK(f, ops, pub, gn)
    /\ store = "secrets" => SecretsOK(f, gn)

ReqFields ==
    {"op", "at", "todo", "seen", "snap", "inode", "cands", "first", "served", "code", "answer", "wrote", "alone",
     "failed"}

\* Checks before changes.
AnswerOK(q) ==
    /\ NeedsFirst(q.todo) /\ q.code \in {200, 502}
    /\ q.answer \notin {0, 504} => q.todo = << >>
    /\ q.wrote # {} => NoNeeds(q.todo)
    /\ q.answer \in Refusals /\ ~q.failed => q.wrote = {}

\* Keys before records.
KeyOK(q, pub) ==
    \A n \in 1 .. Len(q.todo) :
        (q.todo[n].do = "write" /\ q.todo[n].what \in Upserts /\ q.op.keyed) => q.at \in pub \/ KeyAhead(q.todo, n)

\* A file is replaced by what was made of a sound one.
SnapOK(q, ops, pub, gn) ==
    /\ q.inode # 0 =>
            q.todo # << >> /\ Head(q.todo).do = "write" /\ Head(q.todo).store = "modules" /\ q.snap # None
    /\ (q.snap # None /\ q.todo # << >> /\ Head(q.todo).do = "write") =>
            FileOK(Head(q.todo).store, q.snap, ops, pub, gn)

\* A memory provider is built from a record of a sound file.
Buildable(q, ops, pub, gn) ==
    MemoryOK(q.seen.memory, ops, pub, gn) /\ Rec(q.seen.memory.recs, Head(q.cands)) # None
PickOK(q, ops, pub, gn) ==
    \A n \in 1 .. Len(q.todo) : q.todo[n].do = "pick" =>
        MemoryOK(q.seen.memory, ops, pub, gn) \/ \E m \in 1 .. n - 1 : q.todo[m] = Read("memory")
BuildOK(q, ops, pub, gn) ==
    \A n \in 1 .. Len(q.todo) : q.todo[n].do = "build" =>
        /\ n = Len(q.todo)
        /\ n > 1 => q.todo[n - 1] = Read("secrets")
        /\ n > 2 => q.todo[n - 2].do = "pick"
        /\ n < 3 => Buildable(q, ops, pub, gn)

\* What is left of a delete.
LeftOf(p, route) ==
    Len(p) <= Len(route) /\ \A n \in 1 .. Len(p) : p[n] = route[n + Len(route) - Len(p)]
DeleteOK(q) ==
    /\ q.op.do = "deleteProvider" => LeftOf(q.todo, deleteProvider(q.op))
    /\ q.op.do = "deleteMemoryProvider" => LeftOf(q.todo, deleteMemoryProvider(q.op))

RequestOK(q, ops, pub, gn) ==
    /\ ReqFields \subseteq DOMAIN q
    /\ q.op \in ops /\ q.at \in Nat /\ DOMAIN q.seen = StoreNames
    /\ q.todo \in Seq(Steps(q.op)) /\ StepsFit(q.todo, q.op)
    /\ q.todo # << >> => q.op.id \notin gn
    /\ AnswerOK(q) /\ KeyOK(q, pub) /\ SnapOK(q, ops, pub, gn)
    /\ PickOK(q, ops, pub, gn) /\ BuildOK(q, ops, pub, gn) /\ DeleteOK(q)

\* How far a delete that runs alone has come.
Without(f, id) == \A r \in f.recs : r.id # id
StageOK(q, files) ==
    q.alone =>
        /\ q.op.do = "deleteProvider" /\ Len(q.todo) = 1 =>
                Without(files.providers, q.op.id) /\ \A m \in ModelRoles : files.providers.active[m] # q.op.id
        /\ q.op.do = "deleteMemoryProvider" /\ Len(q.todo) \in {1, 2} =>
                Without(files.memory, q.op.id) /\ files.memory.active # q.op.id
        /\ q.op.do = "deleteMemoryProvider" /\ Len(q.todo) = 1 => files.secrets[q.op.id] = 0

FilesOK ==
    /\ {"providers", "memory", "secrets"} \subseteq DOMAIN disk
    /\ \A store \in {"providers", "memory", "secrets"} : FileOK(store, disk[store], Mixes[mix], published, gone)
    /\ \A p \in built : p.id \in Naming(Mixes[mix], MemoryRoutes) \ gone

SettingsInv ==
    /\ mix \in DOMAIN Mixes /\ issued \in Nat /\ gone \subseteq Ids /\ DOMAIN req = Slots
    /\ FilesOK
    /\ \A s \in Slots : req[s] = Idle \/ RequestOK(req[s], Mixes[mix], published, gone)
    /\ \A s, t \in Slots : s # t /\ Busy(req[s]) /\ req[s].alone => ~Busy(req[t])
    /\ \A s \in Slots : Busy(req[s]) => StageOK(req[s], disk)

(***************************************************************************)
(* The first step of a program is taken.                                   *)
(***************************************************************************)
\* What taking a step changes of a request ...
LEMMA AdvanceFields ==
  ASSUME NEW r, ReqFields \subseteq DOMAIN r
  PROVE  /\ ReqFields \subseteq DOMAIN Advance(r)
         /\ Advance(r).todo = Tail(r.todo) /\ Advance(r).snap = None
         /\ Advance(r).answer = IF r.answer = 0 /\ Len(r.todo) = 1 THEN r.code ELSE r.answer
         /\ Advance(r).op = r.op /\ Advance(r).at = r.at /\ Advance(r).seen = r.seen /\ Advance(r).inode = r.inode
         /\ Advance(r).cands = r.cands /\ Advance(r).code = r.code /\ Advance(r).wrote = r.wrote
         /\ Advance(r).alone = r.alone /\ Advance(r).failed = r.failed
BY DEF Advance, ReqFields

\* ... and what ending it does.
LEMMA EndFields ==
  ASSUME NEW r, NEW code, ReqFields \subseteq DOMAIN r
  PROVE  /\ ReqFields \subseteq DOMAIN End(r, code)
         /\ End(r, code).todo = << >> /\ End(r, code).snap = None
         /\ End(r, code).answer = IF r.answer = 0 THEN code ELSE r.answer
         /\ End(r, code).op = r.op /\ End(r, code).at = r.at /\ End(r, code).seen = r.seen
         /\ End(r, code).inode = r.inode /\ End(r, code).cands = r.cands /\ End(r, code).code = r.code
         /\ End(r, code).wrote = r.wrote /\ End(r, code).alone = r.alone /\ End(r, code).failed = r.failed
BY DEF End, ReqFields

\* The fields a step may change before it is taken.
Like(r, q) ==
    /\ ReqFields \subseteq DOMAIN r
    /\ r.op = q.op /\ r.at = q.at /\ r.todo = q.todo /\ r.answer = q.answer
    /\ DOMAIN r.seen = StoreNames /\ r.code \in {200, 502} /\ r.inode = 0

\* What a step has to leave for the building of a memory provider.
MemoryKept(r, q, ops, pub, gn) ==
    /\ IF Head(q.todo) = Read("memory") THEN MemoryOK(r.seen.memory, ops, pub, gn)
       ELSE r.seen.memory = q.seen.memory
    /\ Head(q.todo).do # "candidates" => r.cands = q.cands
    /\ Head(q.todo).do = "pick" => Buildable(r, ops, pub, gn)

\* Checks stay before changes.
LEMMA AdvanceAnswer ==
  ASSUME NEW q, NEW S, q.todo \in Seq(S), q.todo # << >>, AnswerOK(q), NEW r, Like(r, q), r.failed = q.failed,
         r.wrote = q.wrote \/ Head(q.todo).do \in WritingSteps
  PROVE  AnswerOK(Advance(r))
<1> DEFINE p == q.todo
           t == Tail(q.todo)
<1>1. /\ Len(p) \in Nat /\ Len(p) > 0 /\ Len(t) = Len(p) - 1 /\ Head(p) = p[1]
      /\ \A n \in 1 .. Len(t) : t[n] = p[n + 1] /\ n + 1 \in 1 .. Len(p)
      /\ Len(p) = 1 => t = << >>
  BY TailFacts
<1>2. NeedsFirst(p) /\ q.answer \in {0, 504} /\ (q.wrote # {} => NoNeeds(p))
  BY DEF AnswerOK
<1>3. /\ Advance(r).todo = t
      /\ Advance(r).answer = IF q.answer = 0 /\ Len(p) = 1 THEN r.code ELSE q.answer
      /\ Advance(r).code = r.code /\ Advance(r).wrote = r.wrote
  BY AdvanceFields DEF Like
<1> HIDE DEF p, t
<1>4. NeedsFirst(t)
  <2> SUFFICES ASSUME NEW m \in 1 .. Len(t), NEW n \in 1 .. Len(t), m < n, t[m].do \in WritingSteps
               PROVE  t[n].do # "need"
    BY DEF NeedsFirst
  <2>1. m + 1 \in 1 .. Len(p) /\ n + 1 \in 1 .. Len(p) /\ m + 1 < n + 1 /\ t[m] = p[m + 1] /\ t[n] = p[n + 1]
    BY <1>1
  <2>2. QED
    BY <1>2, <2>1 DEF NeedsFirst
<1>5. NoNeeds(p) \/ Head(p).do \in WritingSteps => NoNeeds(t)
  BY <1>1, <1>2 DEF NeedsFirst, NoNeeds
<1>6. Advance(r).answer \notin Refusals /\ (Advance(r).answer \notin {0, 504} => t = << >>)
  BY <1>1, <1>2, <1>3 DEF Refusals, Like
<1>7. r.wrote # {} => NoNeeds(t)
  BY <1>2, <1>5 DEF p
<1>8. QED
  BY <1>3, <1>4, <1>6, <1>7 DEF AnswerOK, Like

\* Keys stay before records.
LEMMA AdvanceKey ==
  ASSUME NEW q, NEW S, q.todo \in Seq(S), q.todo # << >>, NEW pub, KeyOK(q, pub), NEW r, Like(r, q),
         Sets(Head(q.todo)) => q.at \in pub
  PROVE  KeyOK(Advance(r), pub)
<1> DEFINE p == q.todo
           t == Tail(q.todo)
<1>1. /\ Len(p) \in Nat /\ Len(p) > 0 /\ Len(t) = Len(p) - 1 /\ Head(p) = p[1]
      /\ \A n \in 1 .. Len(t) : t[n] = p[n + 1] /\ n + 1 \in 1 .. Len(p)
  BY TailFacts
<1>2. Advance(r).todo = t /\ Advance(r).op = q.op /\ Advance(r).at = q.at
  BY AdvanceFields DEF Like
<1>3. \A n \in 1 .. Len(p) :
        (p[n].do = "write" /\ p[n].what \in Upserts /\ q.op.keyed) => q.at \in pub \/ KeyAhead(p, n)
  BY DEF KeyOK
<1> HIDE DEF p, t
<1> SUFFICES ASSUME NEW n \in 1 .. Len(t), t[n].do = "write", t[n].what \in Upserts, q.op.keyed, q.at \notin pub
             PROVE  \E m \in 1 .. n - 1 : Sets(t[m])
  BY <1>2 DEF KeyOK, KeyAhead
<1>4. PICK m \in 1 .. n : Sets(p[m])
  <2>1. n + 1 \in 1 .. Len(p) /\ t[n] = p[n + 1] /\ (n + 1) - 1 = n
    BY <1>1
  <2>2. KeyAhead(p, n + 1)
    BY <1>3, <2>1
  <2>3. QED
    BY <2>1, <2>2 DEF KeyAhead
<1>5. m # 1
  BY <1>1, <1>4 DEF p
<1>6. m - 1 \in 1 .. n - 1 /\ t[m - 1] = p[m]
  BY <1>1, <1>5
<1>7. QED
  BY <1>4, <1>6

\* A memory provider is still built from what was picked.
LEMMA AdvanceMemory ==
  ASSUME NEW q, NEW S, q.todo \in Seq(S), q.todo # << >>, NEW ops, NEW pub, NEW gn,
         PickOK(q, ops, pub, gn), BuildOK(q, ops, pub, gn), NEW r, Like(r, q), MemoryKept(r, q, ops, pub, gn)
  PROVE  PickOK(Advance(r), ops, pub, gn) /\ BuildOK(Advance(r), ops, pub, gn)
<1> DEFINE p == q.todo
           t == Tail(q.todo)
           a == Advance(r)
<1>1. /\ Len(p) \in Nat /\ Len(p) > 0 /\ Len(t) = Len(p) - 1 /\ Head(p) = p[1]
      /\ \A n \in 1 .. Len(t) : t[n] = p[n + 1] /\ n + 1 \in 1 .. Len(p)
  BY TailFacts
<1>2. a.todo = t /\ a.seen = r.seen /\ a.cands = r.cands
  BY AdvanceFields DEF Like
<1>3. Buildable(r, ops, pub, gn) => Buildable(a, ops, pub, gn)
  BY <1>2 DEF Buildable
<1> HIDE DEF p, t, a
<1>4. ASSUME NEW n \in 1 .. Len(t), t[n].do = "pick", ~MemoryOK(r.seen.memory, ops, pub, gn)
      PROVE  \E m \in 1 .. n - 1 : t[m] = Read("memory")
  <2>1. r.seen.memory = q.seen.memory /\ p[1] # Read("memory")
    BY <1>1, <1>4 DEF MemoryKept, p
  <2>2. PICK m \in 1 .. n : p[m] = Read("memory")
    BY <1>1, <1>4, <2>1 DEF PickOK, p
  <2>3. m - 1 \in 1 .. n - 1 /\ t[m - 1] = p[m]
    BY <1>1, <2>1, <2>2
  <2>4. QED
    BY <2>2, <2>3
<1>5. PickOK(a, ops, pub, gn)
  BY <1>2, <1>4 DEF PickOK
<1>6. ASSUME NEW n \in 1 .. Len(t), t[n].do = "build"
      PROVE  /\ n = Len(t)
             /\ n > 1 => t[n - 1] = Read("secrets")
             /\ n > 2 => t[n - 2].do = "pick"
             /\ n < 3 => Buildable(a, ops, pub, gn)
  <2> DEFINE k == n + 1
  <2>1. /\ k \in 1 .. Len(p) /\ k = Len(p) /\ p[k].do = "build"
        /\ k > 1 => p[k - 1] = Read("secrets")
        /\ k > 2 => p[k - 2].do = "pick"
        /\ k < 3 => Buildable(q, ops, pub, gn)
    BY <1>1, <1>6 DEF BuildOK, p
  <2>2. n = Len(t) /\ (n > 1 => t[n - 1] = p[k - 1]) /\ (n > 2 => t[n - 2] = p[k - 2])
    BY <1>1, <2>1
  <2>3. CASE n = 1
    <3>1. p[1] = Read("secrets") /\ Buildable(q, ops, pub, gn)
      BY <2>1, <2>3
    <3>2. Head(p).do # "candidates" /\ Head(p) # Read("memory")
      BY <1>1, <3>1 DEF Read
    <3>3. r.seen.memory = q.seen.memory /\ r.cands = q.cands
      BY <3>2 DEF MemoryKept, p
    <3>4. Buildable(r, ops, pub, gn)
      BY <3>1, <3>3 DEF Buildable
    <3>5. QED
      BY <1>3, <2>2, <2>3, <3>4
  <2>4. CASE n = 2
    <3>1. Head(p).do = "pick"
      BY <1>1, <2>1, <2>4
    <3>2. Buildable(a, ops, pub, gn)
      BY <1>3, <3>1 DEF MemoryKept, p
    <3>3. QED
      BY <2>1, <2>2, <2>4, <3>2
  <2>5. CASE n > 2
    BY <2>1, <2>2, <2>5
  <2>6. QED
    BY <1>1, <2>3, <2>4, <2>5
<1>7. BuildOK(a, ops, pub, gn)
  BY <1>2, <1>6 DEF BuildOK
<1>8. QED
  BY <1>5, <1>7 DEF a

\* A delete still has the end of its route ahead.
LEMMA AdvanceDelete ==
  ASSUME NEW q, NEW S, q.todo \in Seq(S), q.todo # << >>, DeleteOK(q), NEW r, Like(r, q)
  PROVE  DeleteOK(Advance(r))
<1> DEFINE p == q.todo
           t == Tail(q.todo)
<1>1. /\ Len(p) \in Nat /\ Len(p) > 0 /\ Len(t) = Len(p) - 1
      /\ \A n \in 1 .. Len(t) : t[n] = p[n + 1] /\ n + 1 \in 1 .. Len(p)
  BY TailFacts
<1>2. Advance(r).todo = t /\ Advance(r).op = q.op
  BY AdvanceFields DEF Like
<1> HIDE DEF p, t
<1>3. ASSUME NEW route, Len(route) \in Nat, LeftOf(p, route) PROVE LeftOf(t, route)
  BY <1>1, <1>3 DEF LeftOf
<1>4. Len(deleteProvider(q.op)) \in Nat /\ Len(deleteMemoryProvider(q.op)) \in Nat
  BY DEF deleteProvider, deleteMemoryProvider
<1>5. QED
  BY <1>2, <1>3, <1>4 DEF DeleteOK, p

\* A step that changes the request as Like and MemoryKept allow leaves it sound.
LEMMA AdvanceOK ==
  ASSUME NEW ops, NEW pub, NEW gn, NEW q, RequestOK(q, ops, pub, gn), q.todo # << >>, NEW r, Like(r, q),
         r.failed = q.failed, r.wrote = q.wrote \/ Head(q.todo).do \in WritingSteps,
         MemoryKept(r, q, ops, pub, gn), NEW pub2, pub \subseteq pub2, Sets(Head(q.todo)) => q.at \in pub2
  PROVE  RequestOK(Advance(r), ops, pub2, gn)
<1>1. /\ q.todo \in Seq(Steps(q.op)) /\ StepsFit(q.todo, q.op) /\ AnswerOK(q) /\ KeyOK(q, pub2)
      /\ PickOK(q, ops, pub, gn) /\ BuildOK(q, ops, pub, gn) /\ DeleteOK(q)
  BY DEF RequestOK, KeyOK
<1>2. AnswerOK(Advance(r)) /\ KeyOK(Advance(r), pub2) /\ DeleteOK(Advance(r))
  BY <1>1, AdvanceAnswer, AdvanceKey, AdvanceDelete
<1>3. PickOK(Advance(r), ops, pub, gn) /\ BuildOK(Advance(r), ops, pub, gn)
  BY <1>1, AdvanceMemory
<1>4. PickOK(Advance(r), ops, pub2, gn) /\ BuildOK(Advance(r), ops, pub2, gn)
  <2>1. \A f : MemoryOK(f, ops, pub, gn) => MemoryOK(f, ops, pub2, gn)
    BY DEF MemoryOK
  <2>2. QED
    BY <1>3, <2>1 DEF PickOK, BuildOK, Buildable
<1>5. Tail(q.todo) \in Seq(Steps(q.op)) /\ StepsFit(Tail(q.todo), q.op)
  BY <1>1, TailKeeps
<1>6. /\ ReqFields \subseteq DOMAIN Advance(r) /\ Advance(r).todo = Tail(q.todo) /\ Advance(r).op = q.op
      /\ Advance(r).at = q.at /\ Advance(r).seen = r.seen /\ Advance(r).snap = None /\ Advance(r).inode = 0
  BY AdvanceFields DEF Like
<1>7. SnapOK(Advance(r), ops, pub2, gn)
  BY <1>6 DEF SnapOK
<1>8. QED
  BY <1>2, <1>4, <1>5, <1>6, <1>7 DEF RequestOK, Like

\* So does ending it, with a refusal only if a write failed or nothing was written.
LEMMA EndOK ==
  ASSUME NEW ops, NEW pub, NEW gn, NEW q, RequestOK(q, ops, pub, gn), q.todo # << >>, NEW r, Like(r, q),
         NEW code \in Nat, code \in Refusals => r.failed \/ r.wrote = {}
  PROVE  RequestOK(End(r, code), ops, pub, gn)
<1> DEFINE e == End(r, code)
<1>1. q.answer \in {0, 504} /\ 504 \notin Refusals
  BY DEF RequestOK, AnswerOK, Refusals
<1>2. << >> \in Seq(Steps(q.op)) /\ StepsFit(<< >>, q.op) /\ NeedsFirst(<< >>) /\ NoNeeds(<< >>)
  BY GoodNone DEF Good, Part
<1>3. /\ ReqFields \subseteq DOMAIN e /\ e.todo = << >> /\ e.op = q.op /\ e.at = q.at /\ e.seen = r.seen
      /\ e.code = r.code /\ e.wrote = r.wrote /\ e.failed = r.failed /\ e.inode = 0
      /\ e.answer = IF q.answer = 0 THEN code ELSE q.answer
  BY EndFields DEF Like
<1> HIDE DEF e
<1>4. AnswerOK(e)
  BY <1>1, <1>2, <1>3 DEF AnswerOK, Like
<1>5. Len(e.todo) = 0
  BY <1>3
<1>6. KeyOK(e, pub) /\ SnapOK(e, ops, pub, gn) /\ PickOK(e, ops, pub, gn) /\ BuildOK(e, ops, pub, gn)
  BY <1>3, <1>5 DEF KeyOK, SnapOK, PickOK, BuildOK
<1>7. DeleteOK(e)
  BY <1>5 DEF DeleteOK, LeftOf, deleteProvider, deleteMemoryProvider
<1>8. QED
  BY <1>2, <1>3, <1>4, <1>6, <1>7 DEF RequestOK, Like, e

\* A step that leaves the program where it is.
LEMMA SameOK ==
  ASSUME NEW ops, NEW pub, NEW gn, NEW q, RequestOK(q, ops, pub, gn), q.todo # << >>, NEW r,
         ReqFields \subseteq DOMAIN r, r.op = q.op, r.at = q.at, r.todo = q.todo, r.answer \in {q.answer, 504},
         r.seen = q.seen, r.code = q.code, r.wrote = q.wrote \/ Head(q.todo).do \in WritingSteps,
         Head(q.todo).do \in {"build", "read"} => r.cands = q.cands, SnapOK(r, ops, pub, gn)
  PROVE  RequestOK(r, ops, pub, gn)
<1>1. q.answer \in {0, 504} /\ 0 \notin Refusals /\ 504 \notin Refusals
  BY DEF RequestOK, AnswerOK, Refusals
<1>2. Head(q.todo) = q.todo[1] /\ 1 \in 1 .. Len(q.todo) /\ Len(q.todo) \in Nat
  BY TailFacts DEF RequestOK
<1>3. Head(q.todo).do \in WritingSteps => NoNeeds(q.todo)
  <2> SUFFICES ASSUME Head(q.todo).do \in WritingSteps, NEW n \in 1 .. Len(q.todo)
               PROVE  q.todo[n].do # "need"
    BY DEF NoNeeds
  <2>1. CASE n = 1
    BY <1>2, <2>1 DEF WritingSteps
  <2>2. CASE n # 1
    BY <1>2, <2>2 DEF RequestOK, AnswerOK, NeedsFirst
  <2>3. QED
    BY <2>1, <2>2
<1>4. AnswerOK(r)
  BY <1>1, <1>3 DEF RequestOK, AnswerOK
<1>5. KeyOK(r, pub) /\ PickOK(r, ops, pub, gn) /\ DeleteOK(r)
  BY DEF RequestOK, KeyOK, PickOK, DeleteOK
<1>6. BuildOK(r, ops, pub, gn)
  <2> SUFFICES ASSUME NEW n \in 1 .. Len(q.todo), q.todo[n].do = "build"
               PROVE  /\ n = Len(q.todo)
                      /\ n > 1 => q.todo[n - 1] = Read("secrets")
                      /\ n > 2 => q.todo[n - 2].do = "pick"
                      /\ n < 3 => Buildable(r, ops, pub, gn)
    BY DEF BuildOK
  <2>1. /\ n = Len(q.todo)
        /\ n > 1 => q.todo[n - 1] = Read("secrets")
        /\ n > 2 => q.todo[n - 2].do = "pick"
        /\ n < 3 => Buildable(q, ops, pub, gn)
    BY DEF RequestOK, BuildOK
  <2>2. CASE n < 3
    <3>1. Head(q.todo).do \in {"build", "read"}
      BY <1>2, <2>1, <2>2 DEF Read
    <3>2. Buildable(r, ops, pub, gn)
      BY <2>1, <2>2, <3>1 DEF Buildable
    <3>3. QED
      BY <2>1, <3>2
  <2>3. QED
    BY <2>1, <2>2
<1>7. QED
  BY <1>4, <1>5, <1>6 DEF RequestOK

\* Other requests publish keys; ids go when nothing else is under way.
LEMMA OtherOK ==
  ASSUME NEW ops, NEW pub, NEW gn, NEW q, RequestOK(q, ops, pub, gn),
         NEW pub2, pub \subseteq pub2, NEW gn2, gn2 \subseteq gn \/ q.todo = << >>
  PROVE  RequestOK(q, ops, pub2, gn2)
<1>1. CASE q.todo = << >>
  <2>1. Len(q.todo) = 0
    BY <1>1
  <2>2. KeyOK(q, pub2) /\ SnapOK(q, ops, pub2, gn2) /\ PickOK(q, ops, pub2, gn2) /\ BuildOK(q, ops, pub2, gn2)
    BY <1>1, <2>1 DEF KeyOK, SnapOK, PickOK, BuildOK, RequestOK
  <2>3. QED
    BY <1>1, <2>2 DEF RequestOK
<1>2. CASE gn2 \subseteq gn
  <2>1. /\ \A f : ProvidersOK(f, ops, pub, gn) => ProvidersOK(f, ops, pub2, gn2)
        /\ \A f : MemoryOK(f, ops, pub, gn) => MemoryOK(f, ops, pub2, gn2)
        /\ \A f : SecretsOK(f, gn) => SecretsOK(f, gn2)
    BY <1>2 DEF ProvidersOK, MemoryOK, SecretsOK
  <2>2. KeyOK(q, pub2) /\ SnapOK(q, ops, pub2, gn2) /\ PickOK(q, ops, pub2, gn2) /\ BuildOK(q, ops, pub2, gn2)
    BY <2>1 DEF RequestOK, KeyOK, SnapOK, FileOK, PickOK, BuildOK, Buildable
  <2>3. QED
    BY <1>2, <2>2 DEF RequestOK
<1>3. QED
  BY <1>1, <1>2

(***************************************************************************)
(* The step of one request.                                                *)
(***************************************************************************)
\* What the invariant says of a request under way.
LEMMA BusyFacts ==
  ASSUME SettingsInv, NEW s \in Slots, Busy(req[s])
  PROVE  /\ RequestOK(req[s], Mixes[mix], published, gone) /\ StageOK(req[s], disk)
         /\ req[s].op # None /\ req[s].todo # << >> /\ Instruction(req[s]) = Head(req[s].todo)
         /\ Head(req[s].todo) = req[s].todo[1] /\ 1 \in 1 .. Len(req[s].todo)
         /\ Head(req[s].todo) \in Steps(req[s].op) /\ StepFits(Head(req[s].todo), req[s].op)
         /\ Head(req[s].todo).do # "write" => Like(req[s], req[s])
<1> DEFINE q == req[s]
<1>1. q # Idle /\ q.op # None /\ q.todo # << >> /\ Instruction(q) = Head(q.todo)
  BY DEF Busy, Idle, Instruction
<1>2. RequestOK(q, Mixes[mix], published, gone) /\ StageOK(q, disk)
  BY <1>1 DEF SettingsInv
<1> HIDE DEF q
<1>3. q.todo \in Seq(Steps(q.op)) /\ StepsFit(q.todo, q.op)
  BY <1>2 DEF RequestOK
<1>4. Head(q.todo) = q.todo[1] /\ 1 \in 1 .. Len(q.todo) /\ Head(q.todo) \in Steps(q.op)
  BY <1>1, <1>3, TailFacts
<1>5. StepFits(Head(q.todo), q.op)
  BY <1>3, <1>4 DEF StepsFit
<1>6. Head(q.todo).do # "write" => Like(q, q)
  BY <1>2 DEF RequestOK, AnswerOK, SnapOK, Like
<1>7. QED
  BY <1>1, <1>2, <1>4, <1>5, <1>6 DEF q

\* A delete is only ever at its own steps.
LEMMA DeleteSteps ==
  ASSUME NEW q, NEW S, q.todo \in Seq(S), q.todo # << >>, DeleteOK(q)
  PROVE  /\ q.op.do = "deleteProvider" =>
              /\ Len(q.todo) \in 1 .. 4
              /\ Len(q.todo) = 4 => Head(q.todo) = Read("providers")
              /\ Len(q.todo) = 3 => Head(q.todo) = Need("known", 404)
              /\ Len(q.todo) = 2 => Head(q.todo) = Write("providers", "removeProvider")
              /\ Len(q.todo) = 1 => Head(q.todo) = Write("secrets", "deleteSecret")
         /\ q.op.do = "deleteMemoryProvider" =>
              /\ Len(q.todo) \in 1 .. 5
              /\ Len(q.todo) = 5 => Head(q.todo) = Read("memory")
              /\ Len(q.todo) = 4 => Head(q.todo) = Need("known", 404)
              /\ Len(q.todo) = 3 => Head(q.todo) = Write("memory", "removeMemoryProvider")
              /\ Len(q.todo) = 2 => Head(q.todo) = Write("secrets", "deleteSecret")
              /\ Len(q.todo) = 1 => Head(q.todo) = Do("clearCaches")
<1> DEFINE p == q.todo
           k == Len(p)
<1>1. k \in Nat /\ k > 0 /\ Head(p) = p[1]
  BY TailFacts
<1>2. ASSUME q.op.do = "deleteProvider"
      PROVE  /\ k \in 1 .. 4
             /\ k = 4 => Head(p) = Read("providers")
             /\ k = 3 => Head(p) = Need("known", 404)
             /\ k = 2 => Head(p) = Write("providers", "removeProvider")
             /\ k = 1 => Head(p) = Write("secrets", "deleteSecret")
  <2> DEFINE d == deleteProvider(q.op)
  <2>1. /\ Len(d) = 4 /\ d[1] = Read("providers") /\ d[2] = Need("known", 404)
        /\ d[3] = Write("providers", "removeProvider") /\ d[4] = Write("secrets", "deleteSecret")
    BY DEF deleteProvider
  <2>2. LeftOf(p, d)
    BY <1>2 DEF DeleteOK
  <2> HIDE DEF d, p
  <2>3. k <= 4 /\ 1 \in 1 .. k /\ p[1] = d[1 + 4 - k]
    BY <1>1, <2>1, <2>2 DEF LeftOf
  <2> HIDE DEF k
  <2>4. QED
    BY <1>1, <2>1, <2>3
<1>3. ASSUME q.op.do = "deleteMemoryProvider"
      PROVE  /\ k \in 1 .. 5
             /\ k = 5 => Head(p) = Read("memory")
             /\ k = 4 => Head(p) = Need("known", 404)
             /\ k = 3 => Head(p) = Write("memory", "removeMemoryProvider")
             /\ k = 2 => Head(p) = Write("secrets", "deleteSecret")
             /\ k = 1 => Head(p) = Do("clearCaches")
  <2> DEFINE d == deleteMemoryProvider(q.op)
  <2>1. /\ Len(d) = 5 /\ d[1] = Read("memory") /\ d[2] = Need("known", 404)
        /\ d[3] = Write("memory", "removeMemoryProvider") /\ d[4] = Write("secrets", "deleteSecret")
        /\ d[5] = Do("clearCaches")
    BY DEF deleteMemoryProvider
  <2>2. LeftOf(p, d)
    BY <1>3 DEF DeleteOK
  <2> HIDE DEF d, p
  <2>3. k <= 5 /\ 1 \in 1 .. k /\ p[1] = d[1 + 5 - k]
    BY <1>1, <2>1, <2>2 DEF LeftOf
  <2> HIDE DEF k
  <2>4. QED
    BY <1>1, <2>1, <2>3
<1>4. QED
  BY <1>2, <1>3

\* The stages of a delete are reached by its writes only.
LEMMA StageSkip ==
  ASSUME NEW q, NEW S, q.todo \in Seq(S), q.todo # << >>, DeleteOK(q), Head(q.todo).do # "write",
         NEW r, r.op = q.op, r.todo \in {Tail(q.todo), << >>}, NEW files
  PROVE  StageOK(r, files)
<1>1. Write("providers", "removeProvider").do = "write" /\ Write("memory", "removeMemoryProvider").do = "write"
      /\ Write("secrets", "deleteSecret").do = "write"
  BY DEF Write, WriteArg
<1>2. /\ q.op.do = "deleteProvider" => Len(q.todo) \in {3, 4}
      /\ q.op.do = "deleteMemoryProvider" => Len(q.todo) \in {1, 4, 5}
  BY <1>1, DeleteSteps
<1> DEFINE k == Len(q.todo)
           n == Len(r.todo)
<1>3. k \in Nat /\ (n = k - 1 \/ n = 0)
  BY TailFacts
<1>4. /\ q.op.do = "deleteProvider" => k \in {3, 4}
      /\ q.op.do = "deleteMemoryProvider" => k \in {1, 4, 5}
  BY <1>2
<1> HIDE DEF k, n
<1>5. /\ q.op.do = "deleteProvider" => n # 1
      /\ q.op.do = "deleteMemoryProvider" => n \notin {1, 2}
  BY <1>3, <1>4
<1>6. QED
  BY <1>5 DEF StageOK, n

\* One request moves, and only a delete that runs alone makes an id go.
LEMMA MoveStep ==
  ASSUME SettingsInv, NEW s \in Slots, Busy(req[s]), NEW r, RequestOK(r, Mixes[mix], published', gone),
         r.alone = req[s].alone, published \subseteq published',
         gone' = gone \/ (gone' \subseteq Ids /\ req[s].alone /\ r.todo = << >>),
         FilesOK', r.todo # << >> => StageOK(r, disk'), req' = [req EXCEPT ![s] = r], UNCHANGED <<mix, issued>>
  PROVE  SettingsInv'
<1>1. DOMAIN req' = Slots /\ req'[s] = r /\ \A t \in Slots \ {s} : req'[t] = req[t]
  BY DEF SettingsInv
<1>2. gone' \subseteq Ids
  BY DEF SettingsInv
<1>3. \A t \in Slots \ {s} : req[s].alone \/ req[t].alone => ~Busy(req[t])
  BY DEF SettingsInv
<1>4. ASSUME NEW t \in Slots PROVE req'[t] = Idle \/ RequestOK(req'[t], Mixes[mix'], published', gone')
  <2>1. CASE t = s
    BY <1>1, <2>1, OtherOK
  <2>2. CASE t # s /\ req[t] # Idle
    <3>1. RequestOK(req[t], Mixes[mix], published, gone)
      BY <2>2 DEF SettingsInv
    <3>2. gone' \subseteq gone \/ req[t].todo = << >>
      <4>1. CASE gone' = gone
        BY <4>1
      <4>2. CASE gone' # gone
        <5>1. ~Busy(req[t])
          BY <1>3, <2>2, <4>2
        <5>2. req[t].op # None
          BY <3>1, MixesAssumption DEF RequestOK, SettingsInv
        <5>3. QED
          BY <5>1, <5>2 DEF Busy
      <4>3. QED
        BY <4>1, <4>2
    <3>3. QED
      BY <1>1, <2>2, <3>1, <3>2, OtherOK
  <2>3. CASE t # s /\ req[t] = Idle
    BY <1>1, <2>3
  <2>4. QED
    BY <2>1, <2>2, <2>3
<1>5. ASSUME NEW t \in Slots, NEW u \in Slots, t # u, Busy(req'[t]), req'[t].alone, Busy(req'[u])
      PROVE  FALSE
  <2>1. Busy(req[t]) /\ req[t].alone /\ Busy(req[u])
    BY <1>1, <1>5
  <2>2. QED
    BY <1>5, <2>1 DEF SettingsInv
<1>6. ASSUME NEW t \in Slots, Busy(req'[t]) PROVE StageOK(req'[t], disk')
  <2>1. CASE t = s
    BY <1>1, <1>6, <2>1 DEF Busy
  <2>2. CASE t # s
    <3>1. ~req[t].alone
      BY <1>1, <1>3, <1>6, <2>2
    <3>2. QED
      BY <1>1, <2>2, <3>1 DEF StageOK
  <2>3. QED
    BY <2>1, <2>2
<1>7. QED
  BY <1>1, <1>2, <1>4, <1>5, <1>6 DEF SettingsInv

\* One request moves; files, keys and ids stay.
LEMMA QuietStep ==
  ASSUME SettingsInv, NEW s \in Slots, Busy(req[s]), NEW r, RequestOK(r, Mixes[mix], published, gone),
         r.alone = req[s].alone, r.todo # << >> => StageOK(r, disk), req' = [req EXCEPT ![s] = r],
         UNCHANGED <<disk, mix, issued, published, gone>>,
         \A p \in built' : p.id \in Naming(Mixes[mix], MemoryRoutes) \ gone
  PROVE  SettingsInv'
<1>1. FilesOK'
  BY DEF SettingsInv, FilesOK
<1>2. QED
  BY <1>1, MoveStep

Untouched == UNCHANGED <<disk, mix, issued, published, gone>>
BuiltOK == \A p \in built' : p.id \in Naming(Mixes[mix], MemoryRoutes) \ gone

\* A step that is no write, of one request.
LEMMA AdvanceStep ==
  ASSUME SettingsInv, NEW s \in Slots, Busy(req[s]), Head(req[s].todo).do # "write",
         NEW r, Like(r, req[s]), MemoryKept(r, req[s], Mixes[mix], published, gone),
         r.failed = req[s].failed, r.alone = req[s].alone,
         r.wrote = req[s].wrote \/ Head(req[s].todo).do \in WritingSteps,
         req' = [req EXCEPT ![s] = Advance(r)], Untouched, BuiltOK
  PROVE  SettingsInv'
<1> DEFINE q == req[s]
<1>1. RequestOK(q, Mixes[mix], published, gone) /\ q.todo # << >> /\ Head(q.todo).do # "write"
  BY BusyFacts
<1>2. RequestOK(Advance(r), Mixes[mix], published, gone)
  <2>1. ~Sets(Head(q.todo))
    BY <1>1 DEF Sets
  <2>2. QED
    BY <1>1, <2>1, AdvanceOK
<1>3. Advance(r).op = q.op /\ Advance(r).alone = q.alone /\ Advance(r).todo = Tail(q.todo)
  BY AdvanceFields DEF Like
<1>4. StageOK(Advance(r), disk)
  BY <1>1, <1>3, StageSkip DEF RequestOK
<1>5. QED
  BY <1>2, <1>3, <1>4, QuietStep DEF Untouched, BuiltOK

\* One request ends.
LEMMA EndStep ==
  ASSUME SettingsInv, NEW s \in Slots, Busy(req[s]),
         NEW r, Like(r, req[s]), r.alone = req[s].alone, NEW code \in Nat, code \in Refusals => r.failed
         \/ r.wrote = {},
         req' = [req EXCEPT ![s] = End(r, code)], Untouched, BuiltOK
  PROVE  SettingsInv'
<1>1. RequestOK(req[s], Mixes[mix], published, gone) /\ req[s].todo # << >>
  BY BusyFacts
<1>2. RequestOK(End(r, code), Mixes[mix], published, gone)
  BY <1>1, EndOK
<1>3. End(r, code).alone = req[s].alone /\ End(r, code).todo = << >>
  BY EndFields DEF Like
<1>4. QED
  BY <1>2, <1>3, QuietStep DEF Untouched, BuiltOK

\* One request changes without taking a step.
LEMMA SameStep ==
  ASSUME SettingsInv, NEW s \in Slots, Busy(req[s]), NEW r,
         ReqFields \subseteq DOMAIN r, r.op = req[s].op, r.at = req[s].at, r.todo = req[s].todo,
         r.answer \in {req[s].answer, 504}, r.seen = req[s].seen, r.code = req[s].code,
         r.wrote = req[s].wrote \/ Head(req[s].todo).do \in WritingSteps,
         Head(req[s].todo).do \in {"build", "read"} => r.cands = req[s].cands,
         SnapOK(r, Mixes[mix], published, gone), r.alone = req[s].alone,
         req' = [req EXCEPT ![s] = r], Untouched, BuiltOK
  PROVE  SettingsInv'
<1>1. RequestOK(req[s], Mixes[mix], published, gone) /\ req[s].todo # << >> /\ StageOK(req[s], disk)
  BY BusyFacts
<1>2. RequestOK(r, Mixes[mix], published, gone)
  BY <1>1, SameOK
<1>3. StageOK(r, disk)
  BY <1>1 DEF StageOK
<1>4. QED
  BY <1>2, <1>3, QuietStep DEF Untouched, BuiltOK

(***************************************************************************)
(* The steps that leave files, keys and ids alone.                         *)
(***************************************************************************)
\* The provider cache stays.
LEMMA BuiltKept == ASSUME SettingsInv, UNCHANGED built PROVE BuiltOK
BY DEF SettingsInv, FilesOK, BuiltOK

\* ReadStore: what is read of a sound file is sound.
LEMMA ReadStoreStep ==
  ASSUME SettingsInv, NEW s \in Slots, ReadStore(s)
  PROVE  SettingsInv'
<1> DEFINE q == req[s]
           store == Instruction(q).store
           r == [q EXCEPT !.seen[store] = Content(store)]
<1>1. Busy(q) /\ Instruction(q).do = "read"
  BY DEF ReadStore, At
<1>2. /\ Instruction(q) = Head(q.todo) /\ Head(q.todo) \in Steps(q.op) /\ Like(q, q) /\ ReqFields \subseteq DOMAIN q
  BY <1>1, BusyFacts DEF Like
<1>3. store \in StoreNames /\ Instruction(q) = Read(store)
  BY <1>1, <1>2 DEF Steps, Read, OwnSteps
<1>4. MemoryOK(Content("memory"), Mixes[mix], published, gone)
  BY DEF SettingsInv, FilesOK, FileOK, Content
<1>5. /\ ReqFields \subseteq DOMAIN r /\ r.op = q.op /\ r.at = q.at /\ r.todo = q.todo /\ r.answer = q.answer
      /\ r.seen = [q.seen EXCEPT ![store] = Content(store)] /\ r.code = q.code /\ r.inode = q.inode
      /\ r.failed = q.failed /\ r.alone = q.alone /\ r.wrote = q.wrote /\ r.cands = q.cands
  BY <1>2 DEF ReqFields
<1>6. Like(r, q)
  BY <1>2, <1>5 DEF Like
<1>7. MemoryKept(r, q, Mixes[mix], published, gone)
  <2>1. CASE store = "memory"
    BY <1>2, <1>3, <1>4, <1>5, <2>1 DEF MemoryKept, Read, Like
  <2>2. CASE store # "memory"
    BY <1>2, <1>3, <1>5, <2>2 DEF MemoryKept, Read, Like, StoreNames
  <2>3. QED
    BY <2>1, <2>2
<1>8. req' = [req EXCEPT ![s] = Advance(r)] /\ Untouched /\ BuiltOK
  BY BuiltKept DEF ReadStore, Untouched
<1>9. Head(q.todo).do # "write"
  BY <1>1, <1>2
<1> HIDE DEF r
<1>10. QED
  BY <1>1, <1>5, <1>6, <1>7, <1>8, <1>9, AdvanceStep

\* Most steps change neither what was read nor the candidates.
LEMMA PlainStep ==
  ASSUME SettingsInv, NEW s \in Slots, Busy(req[s]),
         Instruction(req[s]).do \notin {"write", "read", "candidates", "pick"},
         NEW r, ReqFields \subseteq DOMAIN r, r.op = req[s].op, r.at = req[s].at, r.todo = req[s].todo,
         r.answer = req[s].answer, r.seen = req[s].seen, r.code \in {200, 502}, r.inode = req[s].inode,
         r.cands = req[s].cands, r.failed = req[s].failed, r.alone = req[s].alone,
         r.wrote = req[s].wrote \/ Instruction(req[s]).do \in WritingSteps,
         req' = [req EXCEPT ![s] = Advance(r)], Untouched, BuiltOK
  PROVE  SettingsInv'
<1>1. /\ Instruction(req[s]) = Head(req[s].todo) /\ Head(req[s].todo).do # "write" /\ Like(req[s], req[s])
  BY BusyFacts
<1>2. Like(r, req[s])
  BY <1>1 DEF Like
<1>3. MemoryKept(r, req[s], Mixes[mix], published, gone)
  BY <1>1 DEF MemoryKept, Read
<1>4. QED
  BY <1>1, <1>2, <1>3, AdvanceStep

\* CheckRequest: nothing has been written when a check refuses.
LEMMA CheckRequestStep ==
  ASSUME SettingsInv, NEW s \in Slots, CheckRequest(s)
  PROVE  SettingsInv'
<1> DEFINE q == req[s]
           i == Instruction(q)
<1>1. Busy(q) /\ i.do = "need" /\ Untouched /\ BuiltOK
  BY BuiltKept DEF CheckRequest, At, Untouched
<1>2. /\ RequestOK(q, Mixes[mix], published, gone) /\ i = Head(q.todo) /\ i = q.todo[1] /\ 1 \in 1 .. Len(q.todo)
      /\ i \in Steps(q.op) /\ Like(q, q)
  BY <1>1, BusyFacts
<1>3. q.wrote = {}
  BY <1>1, <1>2 DEF RequestOK, AnswerOK, NoNeeds
<1>4. i.code \in Nat
  BY <1>1, <1>2 DEF Steps, Refusals, OwnSteps
<1>5. CASE Holds(i.test, q)
  <2>1. req' = [req EXCEPT ![s] = Advance(q)]
    BY <1>5 DEF CheckRequest
  <2>2. ReqFields \subseteq DOMAIN q /\ q.code \in {200, 502}
    BY <1>2 DEF Like
  <2>3. Instruction(q).do \notin {"write", "read", "candidates", "pick"}
    BY <1>1
  <2> HIDE DEF q, i
  <2>4. q = req[s]
    BY DEF q
  <2>5. QED
    BY <1>1, <2>1, <2>2, <2>3, <2>4, PlainStep
<1>6. CASE ~Holds(i.test, q)
  <2>1. req' = [req EXCEPT ![s] = End(q, i.code)]
    BY <1>6 DEF CheckRequest
  <2>2. QED
    BY <1>1, <1>2, <1>3, <1>4, <2>1, EndStep
<1>7. QED
  BY <1>5, <1>6

\* Lookup, CallProvider and Remember.
LEMMA DiscoverySteps ==
  ASSUME SettingsInv, NEW s \in Slots,
         Lookup(s) \/ (\E ok \in BOOLEAN : CallProvider(s, ok)) \/ Remember(s)
  PROVE  SettingsInv'
<1> DEFINE q == req[s]
<1>1. Busy(q) /\ Instruction(q).do \in {"lookup", "call", "remember"} /\ Untouched /\ BuiltOK
  BY BuiltKept DEF Lookup, CallProvider, Remember, At, Untouched
<1>2. /\ Instruction(q) = Head(q.todo) /\ Like(q, q) /\ ReqFields \subseteq DOMAIN q /\ q.code \in {200, 502}
      /\ Instruction(q).do \notin {"write", "read", "candidates", "pick"}
  BY <1>1, BusyFacts DEF Like
<1>3. CASE Lookup(s)
  <2> DEFINE hit == discovered[q.op.id]
             r == [q EXCEPT !.served = hit]
             code == IF hit.ok THEN 200 ELSE 502
  <2>1. /\ ReqFields \subseteq DOMAIN r /\ r.op = q.op /\ r.at = q.at /\ r.todo = q.todo /\ r.answer = q.answer
        /\ r.seen = q.seen /\ r.code = q.code /\ r.inode = q.inode /\ r.alone = q.alone
    BY <1>2 DEF ReqFields
  <2>2. Like(r, q) /\ code \in Nat /\ code \notin Refusals
    BY <1>2, <2>1 DEF Like, Refusals
  <2>3. req' = [req EXCEPT ![s] = IF hit = None THEN Advance(q) ELSE End(r, code)]
    BY <1>3 DEF Lookup
  <2> HIDE DEF r, code
  <2>4. CASE hit = None
    <3>1. req' = [req EXCEPT ![s] = Advance(q)]
      BY <2>3, <2>4
    <3>2. QED
      BY <1>1, <1>2, <3>1, PlainStep
  <2>5. CASE hit # None
    <3>1. req' = [req EXCEPT ![s] = End(r, code)]
      BY <2>3, <2>5
    <3>2. QED
      BY <1>1, <2>1, <2>2, <3>1, EndStep
  <2>6. QED
    BY <2>4, <2>5
<1>4. ASSUME NEW ok \in BOOLEAN, CallProvider(s, ok) PROVE SettingsInv'
  <2> DEFINE id == IF q.first = None THEN q.op.id ELSE q.first
             r == [q EXCEPT !.served = [ok |-> ok, at |-> Rec(q.seen.providers.recs, id).at,
                                       key |-> q.seen.secrets[id]],
                            !.code = IF ok THEN 200 ELSE 502]
  <2>1. /\ ReqFields \subseteq DOMAIN r /\ r.op = q.op /\ r.at = q.at /\ r.todo = q.todo /\ r.answer = q.answer
        /\ r.seen = q.seen /\ r.code \in {200, 502} /\ r.inode = q.inode /\ r.alone = q.alone
        /\ r.cands = q.cands /\ r.failed = q.failed /\ r.wrote = q.wrote
    BY <1>2 DEF ReqFields
  <2>2. req' = [req EXCEPT ![s] = Advance(r)]
    BY <1>4 DEF CallProvider
  <2> HIDE DEF r
  <2>3. QED
    BY <1>1, <2>1, <2>2, PlainStep
<1>5. CASE Remember(s)
  <2>1. req' = [req EXCEPT ![s] = Advance(q)]
    BY <1>5 DEF Remember
  <2>2. QED
    BY <1>1, <1>2, <2>1, PlainStep
<1>6. QED
  BY <1>3, <1>4, <1>5

\* Choose, RememberSlots and Route.
LEMMA RouterSteps ==
  ASSUME SettingsInv, NEW s \in Slots, Choose(s) \/ RememberSlots(s) \/ Route(s)
  PROVE  SettingsInv'
<1> DEFINE q == req[s]
           First(x) == [q EXCEPT !.first = x]
           Served(x) == [q EXCEPT !.served = x]
<1>1. Busy(q) /\ Instruction(q).do \in {"choose", "slots", "route"} /\ Untouched /\ BuiltOK
  BY BuiltKept DEF Choose, RememberSlots, Route, At, Untouched
<1>2. /\ Instruction(q) = Head(q.todo) /\ Like(q, q) /\ ReqFields \subseteq DOMAIN q /\ q.code \in {200, 502}
      /\ Instruction(q).do \notin {"write", "read", "candidates", "pick"}
  BY <1>1, BusyFacts DEF Like
<1>3. ASSUME NEW r, \E x : r = First(x) \/ r = Served(x), req' = [req EXCEPT ![s] = Advance(r)] PROVE SettingsInv'
  <2>1. /\ ReqFields \subseteq DOMAIN r /\ r.op = q.op /\ r.at = q.at /\ r.todo = q.todo /\ r.answer = q.answer
        /\ r.seen = q.seen /\ r.code = q.code /\ r.inode = q.inode /\ r.alone = q.alone
        /\ r.cands = q.cands /\ r.failed = q.failed /\ r.wrote = q.wrote
    BY <1>2, <1>3 DEF ReqFields
  <2>2. QED
    BY <1>1, <1>2, <1>3, <2>1, PlainStep
<1>4. ASSUME req' = [req EXCEPT ![s] = End(q, 200)] PROVE SettingsInv'
  <2> DEFINE code == 200
             r == req[s]
  <2>1. code \in Nat /\ code \notin Refusals /\ Busy(req[s]) /\ Like(r, req[s]) /\ r.alone = req[s].alone
    BY <1>1, <1>2 DEF Refusals
  <2>2. req' = [req EXCEPT ![s] = End(r, code)]
    BY <1>4
  <2> HIDE DEF code, r
  <2>3. QED
    BY <1>1, <2>1, <2>2, EndStep
<1>5. CASE Choose(s)
  <2>1. \E x : req' = [req EXCEPT ![s] = End(q, 200)] \/ req' = [req EXCEPT ![s] = Advance(First(x))]
    BY <1>5 DEF Choose
  <2> HIDE DEF First, Served
  <2>2. QED
    BY <1>3, <1>4, <2>1
<1>6. CASE RememberSlots(s)
  <2>1. \E x : req' = [req EXCEPT ![s] = Advance(First(x))]
    BY <1>6 DEF RememberSlots
  <2> HIDE DEF First, Served
  <2>2. QED
    BY <1>3, <2>1
<1>7. CASE Route(s)
  <2>1. \E x : req' = [req EXCEPT ![s] = Advance(Served(x))]
    BY <1>7 DEF Route
  <2> HIDE DEF First, Served
  <2>2. QED
    BY <1>3, <2>1
<1>8. QED
  BY <1>5, <1>6, <1>7

\* SetRegistry and SaveDraft.
LEMMA InMemorySteps ==
  ASSUME SettingsInv, NEW s \in Slots, SetRegistry(s) \/ SaveDraft(s)
  PROVE  SettingsInv'
<1> DEFINE q == req[s]
           Wrote(x) == [q EXCEPT !.wrote = @ \cup {x}]
<1>1. Busy(q) /\ Instruction(q).do \in {"registry", "saveDraft"} /\ Untouched /\ BuiltOK
  BY BuiltKept DEF SetRegistry, SaveDraft, At, Untouched
<1>2. Like(q, q) /\ ReqFields \subseteq DOMAIN q
  BY <1>1, BusyFacts DEF Like
<1>3. PICK x \in {"registry", "drafts"} : req' = [req EXCEPT ![s] = Advance(Wrote(x))]
  <2>1. req' = [req EXCEPT ![s] = Advance(Wrote("registry"))] \/ req' = [req EXCEPT ![s] = Advance(Wrote("drafts"))]
    BY DEF SetRegistry, SaveDraft
  <2> HIDE DEF Wrote
  <2>2. QED
    BY <2>1
<1> DEFINE r == Wrote(x)
<1>4. /\ ReqFields \subseteq DOMAIN r /\ r.op = q.op /\ r.at = q.at /\ r.todo = q.todo /\ r.answer = q.answer
      /\ r.seen = q.seen /\ r.code = q.code /\ r.inode = q.inode /\ r.alone = q.alone
      /\ r.cands = q.cands /\ r.failed = q.failed
  BY <1>2 DEF ReqFields
<1> HIDE DEF r
<1>5. req' = [req EXCEPT ![s] = Advance(r)] /\ Instruction(q).do \in WritingSteps
  BY <1>1, <1>3 DEF r, WritingSteps
<1>6. /\ Instruction(q).do \notin {"write", "read", "candidates", "pick"}
      /\ r.code \in {200, 502}
  BY <1>1, <1>2, <1>4 DEF Like
<1>7. q = req[s]
  OBVIOUS
<1> HIDE DEF q
<1>8. QED
  BY <1>1, <1>4, <1>5, <1>6, <1>7, PlainStep

\* SettingsDeadline answers and the request goes on.
LEMMA DeadlineStep ==
  ASSUME SettingsInv, NEW s \in Slots, SettingsDeadline(s)
  PROVE  SettingsInv'
<1> DEFINE q == req[s]
           r == [q EXCEPT !.answer = 504]
<1>1. Busy(q) /\ Untouched /\ BuiltOK /\ req' = [req EXCEPT ![s] = r]
  BY BuiltKept DEF SettingsDeadline, Untouched
<1>2. RequestOK(q, Mixes[mix], published, gone) /\ ReqFields \subseteq DOMAIN q
  BY <1>1, BusyFacts DEF RequestOK
<1>3. /\ ReqFields \subseteq DOMAIN r /\ r.op = q.op /\ r.at = q.at /\ r.todo = q.todo /\ r.answer = 504
      /\ r.seen = q.seen /\ r.code = q.code /\ r.inode = q.inode /\ r.alone = q.alone
      /\ r.cands = q.cands /\ r.failed = q.failed /\ r.wrote = q.wrote /\ r.snap = q.snap
  BY <1>2 DEF ReqFields
<1> HIDE DEF r
<1>4. SnapOK(r, Mixes[mix], published, gone)
  BY <1>2, <1>3 DEF RequestOK, SnapOK
<1>5. QED
  BY <1>1, <1>3, <1>4, SameStep

(***************************************************************************)
(* A memory role is resolved.                                              *)
(***************************************************************************)
\* Candidates.
LEMMA CandidatesStep ==
  ASSUME SettingsInv, NEW s \in Slots, Candidates(s)
  PROVE  SettingsInv'
<1> DEFINE q == req[s]
           With(x) == [q EXCEPT !.cands = x]
<1>1. Busy(q) /\ Instruction(q).do = "candidates" /\ Untouched /\ BuiltOK
  BY BuiltKept DEF Candidates, At, Untouched
<1>2. Instruction(q) = Head(q.todo) /\ Like(q, q) /\ ReqFields \subseteq DOMAIN q
  BY <1>1, BusyFacts DEF Like
<1>3. PICK x : req' = [req EXCEPT ![s] = Advance(With(x))]
  BY DEF Candidates
<1> DEFINE r == With(x)
<1>4. /\ ReqFields \subseteq DOMAIN r /\ r.op = q.op /\ r.at = q.at /\ r.todo = q.todo /\ r.answer = q.answer
      /\ r.seen = q.seen /\ r.code = q.code /\ r.inode = q.inode /\ r.alone = q.alone
      /\ r.failed = q.failed /\ r.wrote = q.wrote
  BY <1>2 DEF ReqFields
<1> HIDE DEF r
<1>5. Like(r, q) /\ MemoryKept(r, q, Mixes[mix], published, gone)
  BY <1>1, <1>2, <1>4 DEF Like, MemoryKept, Read
<1>6. req' = [req EXCEPT ![s] = Advance(r)] /\ Head(q.todo).do # "write"
  BY <1>1, <1>2, <1>3 DEF r
<1>7. QED
  BY <1>1, <1>4, <1>5, <1>6, AdvanceStep

\* PickMemory: what is picked is a record of a sound file.
LEMMA PickMemoryStep ==
  ASSUME SettingsInv, NEW s \in Slots, PickMemory(s)
  PROVE  SettingsInv'
<1> DEFINE q == req[s]
           Served(x) == [q EXCEPT !.served = x]
           n == nextCandidate(q)
<1>1. Busy(q) /\ Instruction(q).do = "pick" /\ Untouched /\ BuiltOK
  BY BuiltKept DEF PickMemory, At, Untouched
<1>2. /\ RequestOK(q, Mixes[mix], published, gone) /\ Instruction(q) = Head(q.todo) /\ Head(q.todo) = q.todo[1]
      /\ 1 \in 1 .. Len(q.todo) /\ Like(q, q) /\ ReqFields \subseteq DOMAIN q
  BY <1>1, BusyFacts DEF Like
<1>3. MemoryOK(q.seen.memory, Mixes[mix], published, gone)
  BY <1>1, <1>2 DEF RequestOK, PickOK
<1>4. \/ \E x : req' = [req EXCEPT ![s] = End(Served(x), 200)]
      \/ req' = [req EXCEPT ![s] = n]
      \/ req' = [req EXCEPT ![s] = Advance(q)] /\ Rec(q.seen.memory.recs, Head(q.cands)) # None
  BY DEF PickMemory
<1>5. ASSUME NEW x, req' = [req EXCEPT ![s] = End(Served(x), 200)] PROVE SettingsInv'
  <2> DEFINE code == 200
             r == Served(x)
  <2>1. /\ ReqFields \subseteq DOMAIN r /\ r.op = q.op /\ r.at = q.at /\ r.todo = q.todo /\ r.answer = q.answer
        /\ r.seen = q.seen /\ r.code = q.code /\ r.inode = q.inode /\ r.alone = q.alone
    BY <1>2 DEF ReqFields
  <2>2. Like(r, q) /\ code \in Nat /\ code \notin Refusals
    BY <1>2, <2>1 DEF Like, Refusals
  <2>3. req' = [req EXCEPT ![s] = End(r, code)]
    BY <1>5
  <2> HIDE DEF code, r
  <2>4. QED
    BY <1>1, <2>1, <2>2, <2>3, EndStep
<1>6. ASSUME req' = [req EXCEPT ![s] = n] PROVE SettingsInv'
  <2>1. /\ ReqFields \subseteq DOMAIN n /\ n.op = q.op /\ n.at = q.at /\ n.todo = q.todo /\ n.answer = q.answer
        /\ n.seen = q.seen /\ n.code = q.code /\ n.inode = q.inode /\ n.alone = q.alone
        /\ n.failed = q.failed /\ n.wrote = q.wrote /\ n.snap = q.snap
    BY <1>2 DEF nextCandidate, ReqFields
  <2> HIDE DEF n
  <2>2. SnapOK(n, Mixes[mix], published, gone)
    BY <1>2, <2>1 DEF RequestOK, SnapOK
  <2>3. Head(q.todo).do \notin {"build", "read"}
    BY <1>1, <1>2
  <2>4. QED
    BY <1>1, <1>6, <2>1, <2>2, <2>3, SameStep
<1>7. ASSUME req' = [req EXCEPT ![s] = Advance(q)], Rec(q.seen.memory.recs, Head(q.cands)) # None PROVE SettingsInv'
  <2> DEFINE r == q
  <2>1. MemoryKept(q, q, Mixes[mix], published, gone) /\ Head(q.todo).do # "write"
    BY <1>1, <1>2, <1>3, <1>7 DEF MemoryKept, Buildable, Read
  <2>2. /\ Like(r, q) /\ MemoryKept(r, q, Mixes[mix], published, gone) /\ req' = [req EXCEPT ![s] = Advance(r)]
        /\ r.failed = q.failed /\ r.alone = q.alone /\ r.wrote = q.wrote
    BY <1>2, <1>7, <2>1
  <2> HIDE DEF r
  <2>3. QED
    BY <1>1, <2>1, <2>2, AdvanceStep
<1> HIDE DEF Served, n
<1>8. QED
  BY <1>4, <1>5, <1>6, <1>7

\* A candidate without a key gives way to the next.
LEMMA RebuildOK ==
  ASSUME NEW ops, NEW pub, NEW gn, NEW q, RequestOK(q, ops, pub, gn), q.todo # << >>, Head(q.todo).do = "build",
         NEW r, ReqFields \subseteq DOMAIN r, r.op = q.op, r.at = q.at,
         r.todo = <<Do("pick"), Read("secrets")>> \o q.todo,
         r.answer = q.answer, r.seen = q.seen, r.code = q.code, r.wrote = q.wrote, r.inode = q.inode
  PROVE  RequestOK(r, ops, pub, gn) /\ q.op.do \notin {"deleteProvider", "deleteMemoryProvider"}
<1> DEFINE a == <<Do("pick"), Read("secrets")>>
<1>1. q.todo \in Seq(Steps(q.op)) /\ Head(q.todo) = q.todo[1] /\ 1 \in 1 .. Len(q.todo)
  BY TailFacts DEF RequestOK
<1>2. Len(q.todo) = 1 /\ MemoryOK(q.seen.memory, ops, pub, gn)
  <2>1. q.todo[1].do = "build"
    BY <1>1
  <2>2. BuildOK(q, ops, pub, gn)
    BY DEF RequestOK
  <2>3. 1 = Len(q.todo) /\ (1 < 3 => Buildable(q, ops, pub, gn))
    BY <1>1, <2>1, <2>2 DEF BuildOK
  <2>4. QED
    BY <2>3 DEF Buildable
<1>3. a \in Seq(Steps(q.op)) /\ Len(a) = 2 /\ a[1] = Do("pick") /\ a[2] = Read("secrets")
  BY DEF Steps, Do, Read, OwnSteps, StoreNames
<1> HIDE DEF a
<1>4. /\ r.todo \in Seq(Steps(q.op)) /\ Len(r.todo) = 3
      /\ r.todo[1] = Do("pick") /\ r.todo[2] = Read("secrets") /\ r.todo[3] = q.todo[1]
  <2>1. r.todo = a \o q.todo
    BY DEF a
  <2>2. QED
    BY <1>1, <1>2, <1>3, <2>1, ConcatIndex
<1>5. Do("pick").do = "pick" /\ Read("secrets").do = "read" /\ q.todo[1].do = "build"
  BY <1>1 DEF Do, Read
<1>6. \A n \in 1 .. Len(r.todo) : n = 1 \/ n = 2 \/ n = 3
  BY <1>4
<1>7. \A n \in 1 .. Len(r.todo) : r.todo[n].do \notin {"write", "need"}
  BY <1>4, <1>5, <1>6
<1>8. StepsFit(r.todo, r.op) /\ KeyOK(r, pub)
  <2>1. q.op.do \in MemoryServing
    BY <1>1, <1>5 DEF RequestOK, StepsFit, StepFits
  <2>2. QED
    BY <1>7, <2>1 DEF StepsFit, StepFits, KeyOK
<1>9. AnswerOK(r)
  <2>1. NeedsFirst(r.todo) /\ NoNeeds(r.todo)
    BY <1>7 DEF NeedsFirst, NoNeeds
  <2>2. AnswerOK(q)
    BY DEF RequestOK
  <2>3. q.answer \in {0, 504} /\ q.code \in {200, 502}
    BY <2>2 DEF AnswerOK
  <2>4. QED
    BY <2>1, <2>3 DEF AnswerOK, Refusals
<1>10. r.todo # << >> /\ Head(r.todo).do = "pick"
  BY <1>4, <1>5, TailFacts
<1>11. SnapOK(r, ops, pub, gn)
  BY <1>10 DEF RequestOK, SnapOK
<1>12. PickOK(r, ops, pub, gn) /\ BuildOK(r, ops, pub, gn)
  BY <1>2, <1>4, <1>5, <1>6 DEF PickOK, BuildOK
<1>13. q.op.do \notin {"deleteProvider", "deleteMemoryProvider"}
  <2>1. /\ Read("providers").do = "read" /\ Read("memory").do = "read" /\ Need("known", 404).do = "need"
        /\ Write("providers", "removeProvider").do = "write" /\ Write("secrets", "deleteSecret").do = "write"
        /\ Write("memory", "removeMemoryProvider").do = "write" /\ Do("clearCaches").do = "clearCaches"
    BY DEF Read, Need, Write, WriteArg, Do
  <2>2. DeleteOK(q)
    BY DEF RequestOK
  <2>3. /\ q.op.do = "deleteProvider" => Head(q.todo) = Write("secrets", "deleteSecret")
        /\ q.op.do = "deleteMemoryProvider" => Head(q.todo) = Do("clearCaches")
    BY <1>1, <1>2, <2>2, DeleteSteps
  <2>4. Head(q.todo).do # "write" /\ Head(q.todo).do # "clearCaches"
    OBVIOUS
  <2>5. QED
    BY <2>1, <2>3, <2>4
<1>14. QED
  BY <1>4, <1>8, <1>9, <1>11, <1>12, <1>13 DEF RequestOK, DeleteOK

\* BuildMemory: what is built has the id of that record.
LEMMA BuildMemoryStep ==
  ASSUME SettingsInv, NEW s \in Slots, BuildMemory(s)
  PROVE  SettingsInv'
<1> DEFINE q == req[s]
           rec == Rec(q.seen.memory.recs, Head(q.cands))
           b == buildMemoryProviderFromRecord(rec, q.seen.secrets[rec.id])
<1>1. Busy(q) /\ Instruction(q).do = "build" /\ Untouched
  BY DEF BuildMemory, At, Untouched
<1>2. /\ RequestOK(q, Mixes[mix], published, gone) /\ Instruction(q) = Head(q.todo) /\ Head(q.todo) = q.todo[1]
      /\ 1 \in 1 .. Len(q.todo) /\ Like(q, q) /\ ReqFields \subseteq DOMAIN q /\ q.todo # << >>
      /\ StageOK(q, disk) /\ q.code \in {200, 502}
  BY <1>1, BusyFacts DEF Like
<1>3. Buildable(q, Mixes[mix], published, gone)
  BY <1>1, <1>2 DEF RequestOK, BuildOK
<1>4. rec \in q.seen.memory.recs
  BY <1>3 DEF Buildable, Rec, findProviderRecord
<1>5. b.provider.id \in Naming(Mixes[mix], MemoryRoutes) \ gone
  BY <1>3, <1>4 DEF Buildable, MemoryOK, buildMemoryProviderFromRecord
<1>6. CASE b.ok
  <2> DEFINE r == [q EXCEPT !.served = b.provider]
  <2>1. req' = [req EXCEPT ![s] = Advance(r)]
    BY <1>6 DEF BuildMemory
  <2>2. \A p \in built' : p \in built \/ p = b.provider
    BY <1>6 DEF BuildMemory
  <2>3. BuiltOK
    BY <1>5, <2>2 DEF SettingsInv, FilesOK, BuiltOK
  <2>4. /\ ReqFields \subseteq DOMAIN r /\ r.op = q.op /\ r.at = q.at /\ r.todo = q.todo /\ r.answer = q.answer
        /\ r.seen = q.seen /\ r.code = q.code /\ r.inode = q.inode /\ r.alone = q.alone
        /\ r.cands = q.cands /\ r.failed = q.failed /\ r.wrote = q.wrote
    BY <1>2 DEF ReqFields
  <2> HIDE DEF r
  <2>5. QED
    BY <1>1, <1>2, <2>1, <2>3, <2>4, PlainStep
<1>7. CASE ~b.ok
  <2> DEFINE r == [nextCandidate(q) EXCEPT !.todo = <<Do("pick"), Read("secrets")>> \o @]
  <2>1. req' = [req EXCEPT ![s] = r] /\ BuiltOK
    BY <1>7, BuiltKept DEF BuildMemory
  <2>2. /\ ReqFields \subseteq DOMAIN r /\ r.op = q.op /\ r.at = q.at
        /\ r.todo = <<Do("pick"), Read("secrets")>> \o q.todo /\ r.answer = q.answer
        /\ r.seen = q.seen /\ r.code = q.code /\ r.inode = q.inode /\ r.alone = q.alone /\ r.wrote = q.wrote
    BY <1>2 DEF ReqFields, nextCandidate
  <2> HIDE DEF r
  <2>3. Head(q.todo).do = "build"
    BY <1>1, <1>2
  <2>4. RequestOK(r, Mixes[mix], published, gone) /\ q.op.do \notin {"deleteProvider", "deleteMemoryProvider"}
    BY <1>2, <2>2, <2>3, RebuildOK
  <2>5. StageOK(r, disk)
    BY <2>2, <2>4 DEF StageOK
  <2>6. QED
    BY <1>1, <2>1, <2>2, <2>4, <2>5, QuietStep DEF Untouched, BuiltOK
<1>8. QED
  BY <1>6, <1>7

(***************************************************************************)
(* The writes.                                                             *)
(***************************************************************************)
\* An id that a request names is not gone while the request is under way.
LEMMA NamedId ==
  ASSUME NEW m \in DOMAIN Mixes, NEW op \in Mixes[m]
  PROVE  /\ op.do \in ProviderRoutes => op.id \in Naming(Mixes[m], ProviderRoutes) /\ op.id \in Ids
         /\ op.do \in MemoryRoutes => op.id \in Naming(Mixes[m], MemoryRoutes) /\ op.id \in Ids
BY MixesAssumption DEF Naming

\* What a store's method makes of a sound content is sound.
LEMMA ChangeOK ==
  ASSUME NEW m \in DOMAIN Mixes, NEW pub, NEW gn, NEW q, RequestOK(q, Mixes[m], pub, gn), q.todo # << >>,
         NEW i, i = Head(q.todo), i.do = "write", q.snap # None
  PROVE  FileOK(i.store, Change(i, q.snap, q), Mixes[m], pub, gn)
<1> DEFINE ops == Mixes[m]
           f == q.snap
<1>1. /\ q.op \in ops /\ q.at \in Nat /\ q.op.id \notin gn /\ FileOK(i.store, f, ops, pub, gn)
  BY DEF RequestOK, SnapOK
<1>2. q.todo \in Seq(Steps(q.op)) /\ StepsFit(q.todo, q.op) /\ KeyOK(q, pub)
  BY DEF RequestOK
<1>3. i = q.todo[1] /\ 1 \in 1 .. Len(q.todo) /\ i \in Steps(q.op)
  BY <1>2, TailFacts
<1>4. StepFits(i, q.op)
  BY <1>2, <1>3 DEF StepsFit
<1>5. i.what \in Upserts /\ q.op.keyed => q.at \in pub
  BY <1>2, <1>3 DEF KeyOK, KeyAhead
<1>6. NewRecord(q).id = q.op.id /\ NewRecord(q).keyed = q.op.keyed /\ NewRecord(q).at = q.at
  BY DEF NewRecord
<1> HIDE DEF f
<1>7. CASE i.store = "providers"
  <2>1. /\ i.what \in {"upsertProvider", "removeProvider", "setActiveRoute"}
        /\ q.op.id \in Naming(ops, ProviderRoutes) \ gn /\ ProvidersOK(f, ops, pub, gn)
    BY <1>1, <1>4, <1>7, NamedId DEF StepFits, FileOK
  <2>2. CASE i.what = "upsertProvider"
    <3>1. Change(i, f, q) = upsertProvider(f, q)
      BY <2>2 DEF Change
    <3>2. ProvidersOK(upsertProvider(f, q), ops, pub, gn)
      BY <1>5, <1>6, <2>1, <2>2 DEF ProvidersOK, upsertProvider, Replace, Upserts
    <3>3. QED
      BY <1>7, <3>1, <3>2 DEF FileOK, f
  <2>3. CASE i.what = "removeProvider"
    <3>1. Change(i, f, q) = removeProvider(f, q)
      BY <2>3 DEF Change
    <3>2. ProvidersOK(removeProvider(f, q), ops, pub, gn)
      BY <2>1 DEF ProvidersOK, removeProvider, pruneActiveRoutes
    <3>3. QED
      BY <1>7, <3>1, <3>2 DEF FileOK, f
  <2>4. CASE i.what = "setActiveRoute"
    <3>1. Change(i, f, q) = setActiveRoute(f, q)
      BY <2>4 DEF Change
    <3>2. ProvidersOK(setActiveRoute(f, q), ops, pub, gn)
      BY <2>1 DEF ProvidersOK, setActiveRoute
    <3>3. QED
      BY <1>7, <3>1, <3>2 DEF FileOK, f
  <2>5. QED
    BY <2>1, <2>2, <2>3, <2>4
<1>8. CASE i.store = "memory"
  <2>1. /\ i.what \in {"upsertMemoryProvider", "removeMemoryProvider", "setActiveMemoryProvider"}
        /\ q.op.id \in Naming(ops, MemoryRoutes) \ gn /\ MemoryOK(f, ops, pub, gn)
    BY <1>1, <1>4, <1>8, NamedId DEF StepFits, FileOK
  <2>2. CASE i.what = "upsertMemoryProvider"
    <3>1. Change(i, f, q) = upsertMemoryProvider(f, q)
      BY <2>2 DEF Change
    <3>2. MemoryOK(upsertMemoryProvider(f, q), ops, pub, gn)
      BY <1>5, <1>6, <2>1, <2>2 DEF MemoryOK, upsertMemoryProvider, Replace, Upserts
    <3>3. QED
      BY <1>8, <3>1, <3>2 DEF FileOK, f
  <2>3. CASE i.what = "removeMemoryProvider"
    <3>1. Change(i, f, q) = removeMemoryProvider(f, q)
      BY <2>3 DEF Change
    <3>2. MemoryOK(removeMemoryProvider(f, q), ops, pub, gn)
      BY <2>1 DEF MemoryOK, removeMemoryProvider, pruneActiveMemoryProvider
    <3>3. QED
      BY <1>8, <3>1, <3>2 DEF FileOK, f
  <2>4. CASE i.what = "setActiveMemoryProvider"
    <3>1. Change(i, f, q) = setActiveMemoryProvider(f, q)
      BY <2>4 DEF Change
    <3>2. MemoryOK(setActiveMemoryProvider(f, q), ops, pub, gn)
      BY <2>1 DEF MemoryOK, setActiveMemoryProvider
    <3>3. QED
      BY <1>8, <3>1, <3>2 DEF FileOK, f
  <2>5. QED
    BY <2>1, <2>2, <2>3, <2>4
<1>9. CASE i.store = "secrets"
  <2>1. i.what \in {"setSecret", "deleteSecret"} /\ q.op.id \in Ids /\ SecretsOK(f, gn)
    BY <1>1, <1>4, <1>9, NamedId DEF StepFits, FileOK
  <2>2. Change(i, f, q) = setSecret(f, q) \/ Change(i, f, q) = deleteSecret(f, q)
    BY <2>1 DEF Change
  <2>3. SecretsOK(setSecret(f, q), gn) /\ SecretsOK(deleteSecret(f, q), gn)
    BY <1>1, <2>1 DEF SecretsOK, setSecret, deleteSecret
  <2>4. QED
    BY <1>9, <2>2, <2>3 DEF FileOK, f
<1>10. CASE i.store \notin {"providers", "memory", "secrets"}
  BY <1>10 DEF FileOK
<1>11. QED
  BY <1>7, <1>8, <1>9, <1>10

\* What a delete's own write leaves of its id.
LEMMA DeletingWrite ==
  ASSUME NEW i, NEW f, NEW q, NEW ops, NEW pub, NEW gn
  PROVE  /\ i = Write("providers", "removeProvider") /\ None # q.op.id =>
                /\ Without(Change(i, f, q), q.op.id)
                /\ \A m \in ModelRoles : Change(i, f, q).active[m] # q.op.id
         /\ i = Write("memory", "removeMemoryProvider") /\ None # q.op.id =>
                Without(Change(i, f, q), q.op.id) /\ Change(i, f, q).active # q.op.id
         /\ i = Write("secrets", "deleteSecret") /\ SecretsOK(f, gn) /\ q.op.id \in Ids =>
                Change(i, f, q)[q.op.id] = 0
<1>1. ASSUME i = Write("providers", "removeProvider")
      PROVE  Change(i, f, q) = removeProvider(f, q)
  <2>1. i.what = "removeProvider"
    BY <1>1 DEF Write, WriteArg
  <2>2. QED
    BY <2>1 DEF Change
<1>2. ASSUME i = Write("memory", "removeMemoryProvider")
      PROVE  Change(i, f, q) = removeMemoryProvider(f, q)
  <2>1. i.what = "removeMemoryProvider"
    BY <1>2 DEF Write, WriteArg
  <2>2. QED
    BY <2>1 DEF Change
<1>3. ASSUME i = Write("secrets", "deleteSecret")
      PROVE  Change(i, f, q) = deleteSecret(f, q)
  <2>1. i.what = "deleteSecret"
    BY <1>3 DEF Write, WriteArg
  <2>2. QED
    BY <2>1 DEF Change
<1>4. Without(removeProvider(f, q), q.op.id) /\ Without(removeMemoryProvider(f, q), q.op.id)
  BY DEF Without, removeProvider, removeMemoryProvider
<1>5. None # q.op.id => /\ \A m \in ModelRoles : removeProvider(f, q).active[m] # q.op.id
                        /\ removeMemoryProvider(f, q).active # q.op.id
  BY DEF removeProvider, removeMemoryProvider, pruneActiveRoutes, pruneActiveMemoryProvider
<1>6. SecretsOK(f, gn) /\ q.op.id \in Ids => deleteSecret(f, q)[q.op.id] = 0
  BY DEF SecretsOK, deleteSecret
<1>7. QED
  BY <1>1, <1>2, <1>3, <1>4, <1>5, <1>6

\* A sound file without an id stays sound when the id goes.
LEMMA GoneFile ==
  ASSUME NEW ops, NEW pub, NEW gn, NEW f, NEW id
  PROVE  /\ ProvidersOK(f, ops, pub, gn) /\ Without(f, id) /\ (\A m \in ModelRoles : f.active[m] # id) /\ id # None =>
                ProvidersOK(f, ops, pub, gn \cup {id})
         /\ ProvidersOK(f, ops, pub, gn)
            /\ id \notin Naming(ops, ProviderRoutes) => ProvidersOK(f, ops, pub, gn \cup {id})
         /\ MemoryOK(f, ops, pub, gn) /\ Without(f, id) /\ f.active # id => MemoryOK(f, ops, pub, gn \cup {id})
         /\ MemoryOK(f, ops, pub, gn) /\ id \notin Naming(ops, MemoryRoutes) => MemoryOK(f, ops, pub, gn \cup {id})
         /\ SecretsOK(f, gn) /\ f[id] = 0 => SecretsOK(f, gn \cup {id})
BY DEF ProvidersOK, MemoryOK, SecretsOK, Without

\* An id goes at the last step of its delete.
LEMMA LastStep ==
  ASSUME SettingsInv, NEW s \in Slots, Busy(req[s]), DeletedAlone(req[s])
  PROVE  /\ req[s].alone /\ Len(req[s].todo) = 1 /\ req[s].op.id \in Ids /\ req[s].op.id # None
         /\ \/ /\ Head(req[s].todo) = Write("secrets", "deleteSecret")
               /\ req[s].op.id \notin Naming(Mixes[mix], MemoryRoutes)
               /\ Without(disk.providers, req[s].op.id)
               /\ \A m \in ModelRoles : disk.providers.active[m] # req[s].op.id
            \/ /\ Head(req[s].todo) = Do("clearCaches")
               /\ req[s].op.id \notin Naming(Mixes[mix], ProviderRoutes)
               /\ Without(disk.memory, req[s].op.id) /\ disk.memory.active # req[s].op.id
               /\ disk.secrets[req[s].op.id] = 0
<1> DEFINE q == req[s]
           id == q.op.id
<1>1. RequestOK(q, Mixes[mix], published, gone) /\ StageOK(q, disk) /\ q.todo # << >> /\ mix \in DOMAIN Mixes
  BY BusyFacts DEF SettingsInv
<1>2. /\ q.op \in Mixes[mix] /\ q.todo \in Seq(Steps(q.op)) /\ DeleteOK(q) /\ ReqFields \subseteq DOMAIN q
      /\ AnswerOK(q)
  BY <1>1 DEF RequestOK
<1>3. Deletes(q) /\ q.alone /\ Advance(q).answer = 200
  BY DEF DeletedAlone
<1> HIDE DEF q
<1>4. Len(q.todo) = 1
  <2>1. q.answer \in {0, 504}
    BY <1>1, <1>2 DEF AnswerOK
  <2>2. Advance(q).answer = IF q.answer = 0 /\ Len(q.todo) = 1 THEN q.code ELSE q.answer
    BY <1>2, AdvanceFields
  <2>3. QED
    BY <1>3, <2>1, <2>2
<1>5. CASE q.op.do = "deleteProvider"
  <2>1. Head(q.todo) = Write("secrets", "deleteSecret")
    BY <1>1, <1>2, <1>4, <1>5, DeleteSteps
  <2>2. q.op.do \in ProviderRoutes
    BY <1>5 DEF ProviderRoutes
  <2>3. id \in Naming(Mixes[mix], ProviderRoutes) /\ id \in Ids
    BY <1>1, <1>2, <2>2, NamedId
  <2>4. id # None /\ id \notin Naming(Mixes[mix], MemoryRoutes)
    BY <1>1, <2>3, MixesAssumption
  <2>5. Without(disk.providers, id) /\ \A m \in ModelRoles : disk.providers.active[m] # id
    BY <1>1, <1>3, <1>4, <1>5 DEF StageOK
  <2>6. QED
    BY <1>3, <1>4, <2>1, <2>3, <2>4, <2>5 DEF q
<1>6. CASE q.op.do = "deleteMemoryProvider"
  <2>1. Head(q.todo) = Do("clearCaches")
    BY <1>1, <1>2, <1>4, <1>6, DeleteSteps
  <2>2. q.op.do \in MemoryRoutes
    BY <1>6 DEF MemoryRoutes
  <2>3. id \in Naming(Mixes[mix], MemoryRoutes) /\ id \in Ids
    BY <1>1, <1>2, <2>2, NamedId
  <2>4. id # None /\ id \notin Naming(Mixes[mix], ProviderRoutes)
    BY <1>1, <2>3, MixesAssumption
  <2>5. Without(disk.memory, id) /\ disk.memory.active # id /\ disk.secrets[id] = 0
    BY <1>1, <1>3, <1>4, <1>6 DEF StageOK
  <2>6. QED
    BY <1>3, <1>4, <2>1, <2>3, <2>4, <2>5 DEF q
<1>7. QED
  BY <1>3, <1>5, <1>6 DEF Deletes

\* The caches are dropped; with them goes the id of a delete that ran alone.
LEMMA ClearCachesStep ==
  ASSUME SettingsInv, NEW s \in Slots, ClearCaches(s)
  PROVE  SettingsInv'
<1> DEFINE q == req[s]
           r == Advance(q)
           id == q.op.id
<1>1. Busy(q) /\ Instruction(q).do = "clearCaches" /\ UNCHANGED <<disk, mix, issued, published>> /\ built' = {}
      /\ req' = [req EXCEPT ![s] = r] /\ gone' = IF DeletedAlone(q) THEN gone \cup {id} ELSE gone
  BY DEF ClearCaches, At
<1>2. /\ RequestOK(q, Mixes[mix], published, gone) /\ Instruction(q) = Head(q.todo) /\ q.todo # << >> /\ Like(q, q)
  BY <1>1, BusyFacts
<1>3. /\ Head(q.todo).do = "clearCaches" /\ Head(q.todo).do # "write" /\ ~Sets(Head(q.todo))
      /\ MemoryKept(q, q, Mixes[mix], published, gone)
  BY <1>1, <1>2 DEF Sets, MemoryKept, Read
<1>4. RequestOK(r, Mixes[mix], published, gone)
  BY <1>2, <1>3, AdvanceOK
<1>5. r.alone = q.alone /\ r.todo = Tail(q.todo) /\ r.op = q.op
  BY <1>2, AdvanceFields DEF Like
<1>6. StageOK(r, disk)
  BY <1>2, <1>3, <1>5, StageSkip DEF RequestOK
<1>7. CASE ~DeletedAlone(q)
  <2>1. FilesOK'
    BY <1>1, <1>7 DEF SettingsInv, FilesOK
  <2> HIDE DEF r, q
  <2>2. QED
    BY <1>1, <1>4, <1>5, <1>6, <1>7, <2>1, MoveStep DEF q
<1>8. CASE DeletedAlone(q)
  <2>1. /\ q.alone /\ Len(q.todo) = 1 /\ id \in Ids /\ id # None
        /\ id \notin Naming(Mixes[mix], ProviderRoutes)
        /\ Without(disk.memory, id) /\ disk.memory.active # id /\ disk.secrets[id] = 0
    <3>1. Head(q.todo) # Write("secrets", "deleteSecret")
      BY <1>3 DEF Write, WriteArg
    <3>2. QED
      BY <1>1, <1>8, <3>1, LastStep
  <2>2. /\ ProvidersOK(disk.providers, Mixes[mix], published, gone)
        /\ MemoryOK(disk.memory, Mixes[mix], published, gone) /\ SecretsOK(disk.secrets, gone)
    BY DEF SettingsInv, FilesOK, FileOK
  <2>3. /\ ProvidersOK(disk.providers, Mixes[mix], published, gone \cup {id})
        /\ MemoryOK(disk.memory, Mixes[mix], published, gone \cup {id})
        /\ SecretsOK(disk.secrets, gone \cup {id})
    BY <2>1, <2>2, GoneFile
  <2>4. FilesOK'
    BY <1>1, <1>8, <2>3 DEF SettingsInv, FilesOK, FileOK
  <2>5. r.todo = << >>
    BY <1>2, <1>5, <2>1, TailFacts DEF RequestOK
  <2>6. gone' \subseteq Ids
    BY <1>1, <1>8, <2>1 DEF SettingsInv
  <2> HIDE DEF r, q
  <2>7. QED
    BY <1>1, <1>4, <1>5, <2>1, <2>4, <2>5, <2>6, MoveStep DEF q
<1>9. QED
  BY <1>7, <1>8

\* A write is over: a store has the new content, or there was nothing to write.
LEMMA WrittenStep ==
  ASSUME SettingsInv, NEW s \in Slots, Busy(req[s]), Head(req[s].todo).do = "write",
         NEW r, Like(r, req[s]), r.seen = req[s].seen, r.cands = req[s].cands,
         r.failed = req[s].failed, r.alone = req[s].alone,
         published \subseteq published', Sets(Head(req[s].todo)) => req[s].at \in published',
         req' = [req EXCEPT ![s] = Advance(r)], UNCHANGED <<mix, issued, built>>,
         {"providers", "memory", "secrets"} \subseteq DOMAIN disk',
         \A store \in {"providers", "memory", "secrets"} :
            FileOK(store, disk'[store], Mixes[mix], published', gone),
         StageOK(Advance(r), disk'),
         gone' = IF DeletedAlone(req[s]) THEN gone \cup {req[s].op.id} ELSE gone,
         DeletedAlone(req[s]) => disk'.providers = disk.providers /\ disk'.secrets[req[s].op.id] = 0
  PROVE  SettingsInv'
<1> DEFINE q == req[s]
           a == Advance(r)
           id == q.op.id
<1>1. RequestOK(q, Mixes[mix], published, gone) /\ q.todo # << >> /\ Head(q.todo).do \in WritingSteps
  BY BusyFacts DEF WritingSteps
<1>2. MemoryKept(r, q, Mixes[mix], published, gone)
  BY DEF MemoryKept, Read
<1>3. RequestOK(a, Mixes[mix], published', gone)
  BY <1>1, <1>2, AdvanceOK
<1>4. a.alone = q.alone /\ a.todo = Tail(q.todo)
  BY AdvanceFields DEF Like
<1>5. CASE ~DeletedAlone(q)
  <2>1. gone' = gone
    BY <1>5
  <2>2. FilesOK'
    BY <2>1 DEF SettingsInv, FilesOK
  <2> HIDE DEF a, q
  <2>3. QED
    BY <1>3, <1>4, <2>1, <2>2, MoveStep DEF a, q
<1>6. CASE DeletedAlone(q)
  <2>1. /\ q.alone /\ Len(q.todo) = 1 /\ id \in Ids /\ id # None
        /\ id \notin Naming(Mixes[mix], MemoryRoutes)
        /\ Without(disk.providers, id) /\ \A m \in ModelRoles : disk.providers.active[m] # id
    <3>1. Head(q.todo) # Do("clearCaches")
      BY DEF Do
    <3>2. QED
      BY <1>6, <3>1, LastStep
  <2>2. /\ ProvidersOK(disk'.providers, Mixes[mix], published', gone)
        /\ MemoryOK(disk'.memory, Mixes[mix], published', gone) /\ SecretsOK(disk'.secrets, gone)
    BY DEF FileOK
  <2>3. /\ Without(disk'.providers, id) /\ (\A m \in ModelRoles : disk'.providers.active[m] # id)
        /\ disk'.secrets[id] = 0
    BY <1>6, <2>1
  <2>4. /\ ProvidersOK(disk'.providers, Mixes[mix], published', gone \cup {id})
        /\ MemoryOK(disk'.memory, Mixes[mix], published', gone \cup {id})
        /\ SecretsOK(disk'.secrets, gone \cup {id})
    BY <2>1, <2>2, <2>3, GoneFile
  <2>5. gone' = gone \cup {id}
    BY <1>6
  <2>6. \A p \in built' : p.id \in Naming(Mixes[mix], MemoryRoutes) \ (gone \cup {id})
    BY <2>1 DEF SettingsInv, FilesOK
  <2>7. FilesOK'
    BY <2>4, <2>5, <2>6 DEF FilesOK, FileOK
  <2>8. a.todo = << >> /\ gone' \subseteq Ids
    BY <1>1, <1>4, <2>1, <2>5, TailFacts DEF RequestOK, SettingsInv
  <2> HIDE DEF a, q
  <2>9. QED
    BY <1>3, <1>4, <2>1, <2>7, <2>8, MoveStep DEF a, q
<1>7. QED
  BY <1>5, <1>6

\* BeginWrite reads a sound file, or finds nothing to do.
LEMMA BeginWriteStep ==
  ASSUME SettingsInv, NEW s \in Slots, BeginWrite(s)
  PROVE  SettingsInv'
<1> DEFINE q == req[s]
           i == Instruction(q)
           content == Content(i.store)
           id == q.op.id
<1>1. Busy(q) /\ i.do = "write" /\ q.snap = None /\ UNCHANGED <<disk, mix, issued, published, built>>
  BY DEF BeginWrite, At
<1>2. /\ RequestOK(q, Mixes[mix], published, gone) /\ i = Head(q.todo) /\ q.todo # << >> /\ i \in Steps(q.op)
      /\ StepFits(i, q.op) /\ StageOK(q, disk) /\ ReqFields \subseteq DOMAIN q /\ q.inode = 0 /\ i.do = "write"
  <2>1. /\ RequestOK(q, Mixes[mix], published, gone) /\ i = Head(q.todo) /\ q.todo # << >> /\ i \in Steps(q.op)
        /\ StepFits(i, q.op) /\ StageOK(q, disk)
    BY <1>1, BusyFacts
  <2>2. QED
    BY <1>1, <2>1 DEF RequestOK, SnapOK
<1>3. /\ {"providers", "memory", "secrets"} \subseteq DOMAIN disk
      /\ \A store \in {"providers", "memory", "secrets"} : FileOK(store, disk[store], Mixes[mix], published, gone)
  BY DEF SettingsInv, FilesOK
<1>4. CASE Wanted(i, q) /\ ~NothingToDelete(i, content, q)
  <2> DEFINE r == [q EXCEPT !.snap = content]
  <2>1. req' = [req EXCEPT ![s] = r] /\ gone' = gone
    BY <1>4 DEF BeginWrite
  <2>2. FileOK(i.store, content, Mixes[mix], published, gone)
    BY <1>3 DEF Content, FileOK
  <2>3. /\ ReqFields \subseteq DOMAIN r /\ r.op = q.op /\ r.at = q.at /\ r.todo = q.todo /\ r.answer = q.answer
        /\ r.seen = q.seen /\ r.code = q.code /\ r.inode = 0 /\ r.alone = q.alone /\ r.wrote = q.wrote
        /\ r.snap = content /\ r.cands = q.cands
    BY <1>2 DEF ReqFields
  <2> HIDE DEF r
  <2>4. SnapOK(r, Mixes[mix], published, gone)
    BY <1>2, <2>2, <2>3 DEF SnapOK
  <2>5. Untouched /\ BuiltOK
    BY <1>1, <2>1, BuiltKept DEF Untouched
  <2>6. QED
    BY <1>1, <2>1, <2>3, <2>4, <2>5, SameStep
<1>5. CASE ~(Wanted(i, q) /\ ~NothingToDelete(i, content, q))
  <2> DEFINE r == q
  <2>1. /\ req' = [req EXCEPT ![s] = Advance(q)]
        /\ gone' = IF DeletedAlone(q) THEN gone \cup {id} ELSE gone
    BY <1>5 DEF BeginWrite
  <2>2. i.when = "always" => i.what = "deleteSecret" /\ content[id] = 0
    BY <1>5 DEF Wanted, NothingToDelete, hasSecret
  <2>3. ~Sets(i)
    BY <1>2, <2>2 DEF Sets, StepFits
  <2>4. i.when = "always" => disk.secrets[id] = 0
    <3>1. i.what = "deleteSecret" => i.store = "secrets"
      BY <1>2 DEF StepFits
    <3>2. Content("secrets") = disk.secrets
      BY DEF Content
    <3>3. QED
      BY <2>2, <3>1, <3>2
  <2>5. /\ Write("providers", "removeProvider").when = "always"
        /\ Write("providers", "removeProvider").what # "deleteSecret"
        /\ Write("memory", "removeMemoryProvider").when = "always"
        /\ Write("memory", "removeMemoryProvider").what # "deleteSecret"
        /\ Write("secrets", "deleteSecret").when = "always"
        /\ Read("memory").do # "write" /\ Read("providers").do # "write" /\ Need("known", 404).do # "write"
        /\ Do("clearCaches").do # "write"
    BY DEF Write, WriteArg, Read, Need, Do
  <2>6. /\ q.op.do = "deleteProvider" => Len(q.todo) = 1 /\ disk.secrets[id] = 0
        /\ q.op.do = "deleteMemoryProvider" => Len(q.todo) = 2 /\ disk.secrets[id] = 0
    <3> DEFINE k == Len(q.todo)
    <3>1. /\ q.op.do = "deleteProvider" =>
              /\ k \in 1 .. 4
              /\ k = 4 => i = Read("providers")
              /\ k = 3 => i = Need("known", 404)
              /\ k = 2 => i = Write("providers", "removeProvider")
              /\ k = 1 => i = Write("secrets", "deleteSecret")
          /\ q.op.do = "deleteMemoryProvider" =>
              /\ k \in 1 .. 5
              /\ k = 5 => i = Read("memory")
              /\ k = 4 => i = Need("known", 404)
              /\ k = 3 => i = Write("memory", "removeMemoryProvider")
              /\ k = 2 => i = Write("secrets", "deleteSecret")
              /\ k = 1 => i = Do("clearCaches")
      BY <1>2, DeleteSteps DEF RequestOK
    <3> HIDE DEF k, i, q, id
    <3>2. /\ q.op.do = "deleteProvider" => k = 1 /\ i = Write("secrets", "deleteSecret")
          /\ q.op.do = "deleteMemoryProvider" => k = 2 /\ i = Write("secrets", "deleteSecret")
      BY <1>1, <2>2, <2>5, <3>1
    <3>3. QED
      BY <2>4, <2>5, <3>2 DEF k
  <2>7. Like(q, q)
    BY <1>2 DEF RequestOK, AnswerOK, Like
  <2>8. Advance(q).op = q.op /\ Advance(q).todo = Tail(q.todo) /\ Advance(q).alone = q.alone
    BY <1>2, AdvanceFields
  <2>9. Len(Tail(q.todo)) = Len(q.todo) - 1
    BY <1>2, TailFacts DEF RequestOK
  <2>10. StageOK(Advance(q), disk)
    <3> DEFINE k == Len(q.todo)
               a == Advance(q)
    <3>1. Len(a.todo) = k - 1 /\ a.op = q.op /\ a.alone = q.alone
      BY <2>8, <2>9
    <3>2. /\ q.op.do = "deleteProvider" => k = 1
          /\ q.op.do = "deleteMemoryProvider" => k = 2 /\ disk.secrets[id] = 0
      BY <2>6
    <3>3. q.alone /\ q.op.do = "deleteMemoryProvider" => Without(disk.memory, id) /\ disk.memory.active # id
      BY <1>2, <3>2 DEF StageOK
    <3> HIDE DEF k, a
    <3>4. QED
      BY <3>1, <3>2, <3>3 DEF StageOK, a
  <2>11. DeletedAlone(q) => disk.secrets[id] = 0
    BY <2>6 DEF DeletedAlone, Deletes
  <2>12. /\ {"providers", "memory", "secrets"} \subseteq DOMAIN disk'
         /\ \A store \in {"providers", "memory", "secrets"} :
              FileOK(store, disk'[store], Mixes[mix], published', gone)
         /\ StageOK(Advance(r), disk') /\ published \subseteq published'
         /\ DeletedAlone(q) => disk'.providers = disk.providers /\ disk'.secrets[id] = 0
         /\ UNCHANGED <<mix, issued, built>> /\ Head(q.todo).do = "write" /\ ~Sets(Head(q.todo))
         /\ Like(r, q) /\ r.seen = q.seen /\ r.cands = q.cands /\ r.failed = q.failed /\ r.alone = q.alone
         /\ req' = [req EXCEPT ![s] = Advance(r)]
    BY <1>1, <1>2, <1>3, <2>1, <2>3, <2>7, <2>10, <2>11
  <2> HIDE DEF r
  <2>13. QED
    BY <1>1, <2>1, <2>12, WrittenStep
<1>6. QED
  BY <1>4, <1>5

\* PublishWrite: the new content is sound; a delete comes one stage further.
LEMMA PublishWriteStep ==
  ASSUME SettingsInv, NEW s \in Slots, PublishWrite(s)
  PROVE  SettingsInv'
<1> DEFINE q == req[s]
           i == Instruction(q)
           id == q.op.id
           r == [q EXCEPT !.wrote = q.wrote \cup {i.store}]
           new == Change(i, q.snap, q)
<1>1. /\ Busy(q) /\ i.do = "write" /\ q.snap # None /\ i.store # "modules" /\ UNCHANGED <<mix, issued, built>>
      /\ disk' = [disk EXCEPT ![i.store] = new]
      /\ req' = [req EXCEPT ![s] = Advance(r)]
      /\ published' = IF i.what = "setSecret" THEN published \cup {q.at} ELSE published
      /\ gone' = IF DeletedAlone(q) THEN gone \cup {id} ELSE gone
  BY DEF PublishWrite, At
<1>2. /\ RequestOK(q, Mixes[mix], published, gone) /\ i = Head(q.todo) /\ q.todo # << >> /\ i \in Steps(q.op)
      /\ StepFits(i, q.op) /\ StageOK(q, disk)
  BY <1>1, BusyFacts
<1>3. /\ mix \in DOMAIN Mixes /\ {"providers", "memory", "secrets"} \subseteq DOMAIN disk
      /\ \A store \in {"providers", "memory", "secrets"} : FileOK(store, disk[store], Mixes[mix], published, gone)
  BY DEF SettingsInv, FilesOK
<1>4. q.inode = 0 /\ ReqFields \subseteq DOMAIN q /\ Like(q, q)
  <2>1. q.inode = 0 /\ ReqFields \subseteq DOMAIN q
    BY <1>1, <1>2 DEF RequestOK, SnapOK
  <2>2. QED
    BY <1>2, <2>1 DEF RequestOK, AnswerOK, Like
<1>5. /\ ReqFields \subseteq DOMAIN r /\ r.op = q.op /\ r.at = q.at /\ r.todo = q.todo /\ r.answer = q.answer
      /\ r.seen = q.seen /\ r.code = q.code /\ r.inode = q.inode /\ r.alone = q.alone
      /\ r.cands = q.cands /\ r.failed = q.failed
  BY <1>4 DEF ReqFields
<1> HIDE DEF r
<1>6. Like(r, q)
  BY <1>4, <1>5 DEF Like
<1>7. published \subseteq published' /\ (Sets(i) => q.at \in published')
  BY <1>1 DEF Sets
<1>8. FileOK(i.store, new, Mixes[mix], published, gone)
  BY <1>1, <1>2, <1>3, ChangeOK
<1>9. /\ DOMAIN disk' = DOMAIN disk
      /\ \A store \in {"providers", "memory", "secrets"} : store = i.store => disk'[store] = new
      /\ \A store \in {"providers", "memory", "secrets"} : store # i.store => disk'[store] = disk[store]
  BY <1>1, <1>3
<1> HIDE DEF new
<1>10. \A store \in {"providers", "memory", "secrets"} : FileOK(store, disk'[store], Mixes[mix], published', gone)
  <2>1. \A store \in {"providers", "memory", "secrets"} : FileOK(store, disk'[store], Mixes[mix], published, gone)
    BY <1>3, <1>8, <1>9
  <2>2. /\ \A f : ProvidersOK(f, Mixes[mix], published, gone) => ProvidersOK(f, Mixes[mix], published', gone)
        /\ \A f : MemoryOK(f, Mixes[mix], published, gone) => MemoryOK(f, Mixes[mix], published', gone)
    BY <1>7 DEF ProvidersOK, MemoryOK
  <2>3. QED
    BY <2>1, <2>2 DEF FileOK
<1>11. Advance(r).op = q.op /\ Advance(r).todo = Tail(q.todo) /\ Advance(r).alone = q.alone
  BY <1>5, AdvanceFields
<1>12. Len(Tail(q.todo)) = Len(q.todo) - 1 /\ Len(q.todo) \in Nat
  BY <1>2, TailFacts DEF RequestOK
<1>13. Deletes(q) => id \in Ids /\ id # None
  <2>1. q.op \in Mixes[mix]
    BY <1>2 DEF RequestOK
  <2>2. Deletes(q) => id \in Ids
    BY <1>3, <2>1, NamedId DEF Deletes, ProviderRoutes, MemoryRoutes
  <2>3. QED
    BY <2>2, MixesAssumption
<1>14. /\ Write("providers", "removeProvider").store = "providers"
       /\ Write("memory", "removeMemoryProvider").store = "memory"
       /\ Write("secrets", "deleteSecret").store = "secrets"
  BY DEF Write, WriteArg
<1>15. Deletes(q) =>
          /\ i = Write("providers", "removeProvider") =>
                Without(disk'.providers, id) /\ \A m \in ModelRoles : disk'.providers.active[m] # id
          /\ i = Write("memory", "removeMemoryProvider") => Without(disk'.memory, id) /\ disk'.memory.active # id
          /\ i = Write("secrets", "deleteSecret") =>
                disk'.secrets[id] = 0 /\ disk'.memory = disk.memory /\ disk'.providers = disk.providers
  <2>1. i = Write("secrets", "deleteSecret") => SecretsOK(q.snap, gone)
    BY <1>1, <1>2, <1>14 DEF RequestOK, SnapOK, FileOK
  <2>2. Deletes(q) =>
          /\ i = Write("providers", "removeProvider") =>
                Without(new, id) /\ \A m \in ModelRoles : new.active[m] # id
          /\ i = Write("memory", "removeMemoryProvider") => Without(new, id) /\ new.active # id
          /\ i = Write("secrets", "deleteSecret") => new[id] = 0
    BY <1>13, <2>1, DeletingWrite DEF new
  <2>3. QED
    BY <1>9, <1>14, <2>2
<1>16. StageOK(Advance(r), disk')
  <2> DEFINE k == Len(q.todo)
             a == Advance(r)
  <2>1. Len(a.todo) = k - 1 /\ a.op = q.op /\ a.alone = q.alone /\ k \in Nat
    BY <1>11, <1>12
  <2>2. /\ q.op.do = "deleteProvider" => (k = 2 => i = Write("providers", "removeProvider"))
        /\ q.op.do = "deleteMemoryProvider" =>
              /\ k = 3 => i = Write("memory", "removeMemoryProvider")
              /\ k = 2 => i = Write("secrets", "deleteSecret")
    BY <1>2, DeleteSteps DEF RequestOK
  <2>3. q.alone /\ q.op.do = "deleteMemoryProvider" /\ k = 2 => Without(disk.memory, id) /\ disk.memory.active # id
    BY <1>2 DEF StageOK
  <2> HIDE DEF k, a, i
  <2>4. q.op.do = "deleteProvider" /\ k = 2 =>
            Without(disk'.providers, id) /\ \A m \in ModelRoles : disk'.providers.active[m] # id
    BY <1>15, <2>2 DEF Deletes
  <2>5. q.op.do = "deleteMemoryProvider" /\ k = 3 => Without(disk'.memory, id) /\ disk'.memory.active # id
    BY <1>15, <2>2 DEF Deletes
  <2>6. q.alone /\ q.op.do = "deleteMemoryProvider" /\ k = 2 =>
            Without(disk'.memory, id) /\ disk'.memory.active # id /\ disk'.secrets[id] = 0
    BY <1>15, <2>2, <2>3 DEF Deletes
  <2>7. QED
    BY <2>1, <2>4, <2>5, <2>6 DEF StageOK, a
<1>17. DeletedAlone(q) => disk'.providers = disk.providers /\ disk'.secrets[id] = 0
  <2> SUFFICES ASSUME DeletedAlone(q) PROVE disk'.providers = disk.providers /\ disk'.secrets[id] = 0
    OBVIOUS
  <2>1. Head(q.todo) = Write("secrets", "deleteSecret") \/ Head(q.todo) = Do("clearCaches")
    BY <1>1, LastStep
  <2>2. i = Write("secrets", "deleteSecret")
    BY <1>1, <1>2, <2>1 DEF Do
  <2>3. QED
    BY <1>15, <2>2 DEF DeletedAlone
<1>18. Head(q.todo).do = "write" /\ (Sets(Head(q.todo)) => q.at \in published')
  BY <1>1, <1>2, <1>7
<1>19. {"providers", "memory", "secrets"} \subseteq DOMAIN disk'
  BY <1>3, <1>9
<1> HIDE DEF i
<1>20. QED
  BY <1>1, <1>5, <1>6, <1>7, <1>10, <1>16, <1>17, <1>18, <1>19, WrittenStep

\* FailWrite leaves the files as they are.
LEMMA FailWriteStep ==
  ASSUME SettingsInv, NEW s \in Slots, FailWrite(s)
  PROVE  SettingsInv'
<1> DEFINE q == req[s]
           r == [q EXCEPT !.failed = TRUE]
           code == IF q.op.do = "applyTemplate" THEN 400 ELSE 500
<1>1. Busy(q) /\ q.inode = 0 /\ Untouched /\ BuiltOK /\ req' = [req EXCEPT ![s] = End(r, code)]
  BY BuiltKept DEF FailWrite, At, Untouched
<1>2. RequestOK(q, Mixes[mix], published, gone)
  BY <1>1, BusyFacts
<1>3. ReqFields \subseteq DOMAIN q /\ DOMAIN q.seen = StoreNames /\ q.code \in {200, 502}
  BY <1>2 DEF RequestOK, AnswerOK
<1>4. /\ ReqFields \subseteq DOMAIN r /\ r.op = q.op /\ r.at = q.at /\ r.todo = q.todo /\ r.answer = q.answer
      /\ r.seen = q.seen /\ r.code = q.code /\ r.inode = q.inode /\ r.alone = q.alone /\ r.failed
  BY <1>3 DEF ReqFields
<1>5. Like(r, q) /\ code \in Nat
  BY <1>1, <1>3, <1>4 DEF Like
<1> HIDE DEF r, code
<1>6. QED
  BY <1>1, <1>4, <1>5, EndStep

(***************************************************************************)
(* modules.json goes through its temporary file.                           *)
(***************************************************************************)
\* OpenTemp and FillTemp.
LEMMA TempSteps ==
  ASSUME SettingsInv, NEW s \in Slots, OpenTemp(s) \/ FillTemp(s)
  PROVE  SettingsInv'
<1> DEFINE q == req[s]
           Opened(n) == [q EXCEPT !.inode = n]
           Filled == [q EXCEPT !.wrote = @ \cup {"filled"}]
<1>1. Busy(q) /\ Instruction(q).do = "write" /\ Untouched /\ BuiltOK
  BY BuiltKept DEF OpenTemp, FillTemp, At, Untouched
<1>2. /\ RequestOK(q, Mixes[mix], published, gone) /\ Instruction(q) = Head(q.todo) /\ q.todo # << >>
  BY <1>1, BusyFacts
<1>3. ReqFields \subseteq DOMAIN q /\ SnapOK(q, Mixes[mix], published, gone) /\ Head(q.todo).do \in WritingSteps
  BY <1>1, <1>2 DEF RequestOK, WritingSteps
<1>4. CASE OpenTemp(s)
  <2>1. q.snap # None /\ Head(q.todo).do = "write" /\ Head(q.todo).store = "modules"
    BY <1>1, <1>2, <1>4 DEF OpenTemp
  <2>2. PICK n : req' = [req EXCEPT ![s] = Opened(n)]
    BY <1>4 DEF OpenTemp
  <2> DEFINE r == Opened(n)
  <2>3. /\ ReqFields \subseteq DOMAIN r /\ r.op = q.op /\ r.at = q.at /\ r.todo = q.todo /\ r.answer = q.answer
        /\ r.seen = q.seen /\ r.code = q.code /\ r.alone = q.alone /\ r.wrote = q.wrote
        /\ r.snap = q.snap /\ r.cands = q.cands
    BY <1>3 DEF ReqFields
  <2>4. req' = [req EXCEPT ![s] = r]
    BY <2>2
  <2> HIDE DEF r
  <2>5. SnapOK(r, Mixes[mix], published, gone)
    BY <1>2, <1>3, <2>1, <2>3 DEF SnapOK
  <2>6. QED
    BY <1>1, <2>3, <2>4, <2>5, SameStep
<1>5. CASE FillTemp(s)
  <2> DEFINE r == Filled
  <2>1. req' = [req EXCEPT ![s] = r]
    BY <1>5 DEF FillTemp
  <2>2. /\ ReqFields \subseteq DOMAIN r /\ r.op = q.op /\ r.at = q.at /\ r.todo = q.todo /\ r.answer = q.answer
        /\ r.seen = q.seen /\ r.code = q.code /\ r.alone = q.alone /\ r.inode = q.inode
        /\ r.snap = q.snap /\ r.cands = q.cands
    BY <1>3 DEF ReqFields
  <2> HIDE DEF r
  <2>3. SnapOK(r, Mixes[mix], published, gone)
    BY <1>3, <2>2 DEF SnapOK
  <2>4. QED
    BY <1>1, <1>3, <2>1, <2>2, <2>3, SameStep
<1>6. QED
  BY <1>4, <1>5

\* RenameTemp ends the write, well or not.
LEMMA RenameTempStep ==
  ASSUME SettingsInv, NEW s \in Slots, RenameTemp(s)
  PROVE  SettingsInv'
<1> DEFINE q == req[s]
           r == [q EXCEPT !.wrote = (@ \ {"filled"}) \cup {"modules"}, !.inode = 0]
           x == [r EXCEPT !.failed = TRUE]
<1>1. Busy(q) /\ Instruction(q).do = "write" /\ q.inode > 0 /\ Untouched /\ BuiltOK
  BY BuiltKept DEF RenameTemp, At, Untouched
<1>2. RequestOK(q, Mixes[mix], published, gone) /\ Instruction(q) = Head(q.todo) /\ q.todo # << >>
      /\ StepFits(Head(q.todo), q.op)
  BY <1>1, BusyFacts
<1>3. /\ ReqFields \subseteq DOMAIN q /\ DOMAIN q.seen = StoreNames /\ q.code \in {200, 502}
      /\ DeleteOK(q) /\ q.todo \in Seq(Steps(q.op)) /\ Head(q.todo).do = "write" /\ Head(q.todo).store = "modules"
  BY <1>1, <1>2 DEF RequestOK, AnswerOK, SnapOK
<1>4. /\ ReqFields \subseteq DOMAIN r /\ r.op = q.op /\ r.at = q.at /\ r.todo = q.todo /\ r.answer = q.answer
      /\ r.seen = q.seen /\ r.code = q.code /\ r.inode = 0 /\ r.alone = q.alone
      /\ r.cands = q.cands /\ r.failed = q.failed
  BY <1>3 DEF ReqFields
<1>5. \/ req' = [req EXCEPT ![s] = End(x, 500)]
      \/ req' = [req EXCEPT ![s] = Advance(r)]
  BY DEF RenameTemp
<1> HIDE DEF r
<1>6. CASE req' = [req EXCEPT ![s] = End(x, 500)]
  <2> DEFINE code == 500
  <2>1. /\ ReqFields \subseteq DOMAIN x /\ x.op = q.op /\ x.at = q.at /\ x.todo = q.todo /\ x.answer = q.answer
        /\ x.seen = q.seen /\ x.code = q.code /\ x.inode = 0 /\ x.alone = q.alone /\ x.failed
    BY <1>4 DEF ReqFields
  <2>2. Like(x, q) /\ code \in Nat /\ req' = [req EXCEPT ![s] = End(x, code)]
    BY <1>3, <1>6, <2>1 DEF Like
  <2> HIDE DEF x, code
  <2>3. QED
    BY <1>1, <2>1, <2>2, EndStep
<1>7. CASE req' = [req EXCEPT ![s] = Advance(r)]
  <2>1. Like(r, q)
    BY <1>3, <1>4 DEF Like
  <2>2. ~Sets(Head(q.todo))
    BY <1>2, <1>3 DEF Sets, StepFits
  <2>3. q.op.do \notin {"deleteProvider", "deleteMemoryProvider"}
    <3> DEFINE k == Len(q.todo)
               i == Head(q.todo)
    <3>1. /\ q.op.do = "deleteProvider" =>
              /\ k \in 1 .. 4
              /\ k = 4 => i = Read("providers")
              /\ k = 3 => i = Need("known", 404)
              /\ k = 2 => i = Write("providers", "removeProvider")
              /\ k = 1 => i = Write("secrets", "deleteSecret")
          /\ q.op.do = "deleteMemoryProvider" =>
              /\ k \in 1 .. 5
              /\ k = 5 => i = Read("memory")
              /\ k = 4 => i = Need("known", 404)
              /\ k = 3 => i = Write("memory", "removeMemoryProvider")
              /\ k = 2 => i = Write("secrets", "deleteSecret")
              /\ k = 1 => i = Do("clearCaches")
      BY <1>2, <1>3, DeleteSteps
    <3>2. /\ Write("providers", "removeProvider").store # "modules"
          /\ Write("memory", "removeMemoryProvider").store # "modules"
          /\ Write("secrets", "deleteSecret").store # "modules"
          /\ Read("memory").do # "write" /\ Read("providers").do # "write" /\ Need("known", 404).do # "write"
          /\ Do("clearCaches").do # "write"
      BY DEF Write, WriteArg, Read, Need, Do
    <3>3. i.do = "write" /\ i.store = "modules"
      BY <1>3
    <3> HIDE DEF k, i, q
    <3>4. QED
      BY <3>1, <3>2, <3>3
  <2>4. Advance(r).op = q.op
    BY <1>4, AdvanceFields
  <2>5. StageOK(Advance(r), disk)
    BY <2>3, <2>4 DEF StageOK
  <2>6. ~DeletedAlone(q)
    BY <2>3 DEF DeletedAlone, Deletes
  <2>7. UNCHANGED <<disk, mix, issued, built, published, gone>>
    BY DEF RenameTemp
  <2>8. /\ {"providers", "memory", "secrets"} \subseteq DOMAIN disk'
        /\ \A store \in {"providers", "memory", "secrets"} :
              FileOK(store, disk'[store], Mixes[mix], published', gone)
        /\ StageOK(Advance(r), disk') /\ published \subseteq published'
    BY <2>5, <2>7 DEF SettingsInv, FilesOK
  <2>9. QED
    BY <1>1, <1>3, <1>4, <1>7, <2>1, <2>2, <2>6, <2>7, <2>8, WrittenStep
<1>8. QED
  BY <1>5, <1>6, <1>7

(***************************************************************************)
(* Requests arrive, entries expire, the process is killed.                 *)
(***************************************************************************)
\* What is known of a request that has just arrived.
LEMMA NewRequest ==
  ASSUME NEW m \in DOMAIN Mixes, NEW op \in Mixes[m], NEW pub, NEW gn, op.id \notin gn,
         NEW q, ReqFields \subseteq DOMAIN q, q.op = op, q.at \in Nat, q.todo = Program(op), q.seen = NotStarted,
         q.snap = None, q.inode = 0, q.code = 200, q.answer = 0, q.wrote = {}
  PROVE  RequestOK(q, Mixes[m], pub, gn) /\ \A files : StageOK(q, files)
<1> DEFINE p == Program(op)
<1>1. Good(p, op)
  BY ProgramGood
<1>2. DeleteOK(q) /\ \A files : StageOK(q, files)
  <2>1. /\ op.do = "deleteProvider" => p = deleteProvider(op)
        /\ op.do = "deleteMemoryProvider" => p = deleteMemoryProvider(op)
    BY DEF Program
  <2>2. Len(deleteProvider(op)) = 4 /\ Len(deleteMemoryProvider(op)) = 5
    BY DEF deleteProvider, deleteMemoryProvider
  <2>3. \A d : Len(d) \in Nat => LeftOf(d, d)
    BY DEF LeftOf
  <2> HIDE DEF p
  <2>4. q.todo = p
    BY DEF p
  <2>5. DeleteOK(q)
    BY <2>1, <2>2, <2>3, <2>4 DEF DeleteOK
  <2>6. \A files : StageOK(q, files)
    BY <2>1, <2>2, <2>4 DEF StageOK
  <2>7. QED
    BY <2>5, <2>6
<1> HIDE DEF p
<1>3. q.todo = p
  BY DEF p
<1>4. p \in Seq(Steps(op)) /\ StepsFit(p, op) /\ NeedsFirst(p) /\ KeysFirst(p, op) /\ Picked(p) /\ BuiltLast(p)
  BY <1>1 DEF Good, Part
<1>5. DOMAIN q.seen = StoreNames
  BY DEF NotStarted, StoreNames
<1>6. AnswerOK(q)
  BY <1>3, <1>4 DEF AnswerOK, Refusals
<1>7. KeyOK(q, pub)
  BY <1>3, <1>4 DEF KeyOK, KeysFirst
<1>8. SnapOK(q, Mixes[m], pub, gn)
  BY DEF SnapOK
<1>9. PickOK(q, Mixes[m], pub, gn)
  BY <1>3, <1>4 DEF PickOK, Picked
<1>10. BuildOK(q, Mixes[m], pub, gn)
  BY <1>3, <1>4 DEF BuildOK, BuiltLast
<1>11. QED
  BY <1>2, <1>3, <1>4, <1>5, <1>6, <1>7, <1>8, <1>9, <1>10 DEF RequestOK

\* Issue: a named id is no longer gone, and nothing else runs alone.
LEMMA IssueStep ==
  ASSUME SettingsInv, NEW s \in Slots, NEW op \in Mixes[mix], Issue(s, op)
  PROVE  SettingsInv'
<1> DEFINE overlaps == \E t \in Slots \ {s} : Busy(req[t])
           new == [op |-> op, at |-> issued + 1, todo |-> Program(op), seen |-> NotStarted, snap |-> None, inode |-> 0,
                   cands |-> << >>, first |-> None, served |-> None, code |-> 200, answer |-> 0,
                   wrote |-> {}, alone |-> ~overlaps, failed |-> FALSE]
           Other(q) == [q EXCEPT !.alone = FALSE]
<1>1. /\ req' = [t \in Slots |-> IF t = s THEN new ELSE IF Busy(req[t]) THEN Other(req[t]) ELSE Idle]
      /\ issued' = issued + 1 /\ gone' = gone \ {op.id} /\ UNCHANGED <<disk, built, mix, published>>
  BY DEF Issue
<1>2. mix \in DOMAIN Mixes /\ issued \in Nat /\ gone \subseteq Ids
  BY DEF SettingsInv
<1>3. /\ ReqFields \subseteq DOMAIN new /\ new.op = op /\ new.at = issued + 1 /\ new.todo = Program(op)
      /\ new.seen = NotStarted /\ new.snap = None /\ new.inode = 0 /\ new.code = 200 /\ new.answer = 0
      /\ new.wrote = {} /\ new.alone = ~overlaps
  BY DEF ReqFields
<1> HIDE DEF new, overlaps
<1>4. RequestOK(new, Mixes[mix], published, gone') /\ StageOK(new, disk)
  <2>1. new.at \in Nat /\ op.id \notin gone'
    BY <1>1, <1>2, <1>3
  <2> DEFINE gn == gone'
  <2>2. op.id \notin gn
    BY <2>1
  <2> HIDE DEF gn
  <2>3. RequestOK(new, Mixes[mix], published, gn) /\ StageOK(new, disk)
    BY <1>2, <1>3, <2>1, <2>2, NewRequest
  <2>4. QED
    BY <2>3 DEF gn
<1>5. ASSUME NEW t \in Slots, Busy(req[t])
      PROVE  RequestOK(Other(req[t]), Mixes[mix], published, gone') /\ ~Other(req[t]).alone
             /\ StageOK(Other(req[t]), disk)
  <2> DEFINE q == req[t]
             r == Other(q)
  <2>1. RequestOK(q, Mixes[mix], published, gone) /\ q.todo # << >>
    BY <1>5, BusyFacts
  <2>2. ReqFields \subseteq DOMAIN q
    BY <2>1 DEF RequestOK
  <2>3. /\ ReqFields \subseteq DOMAIN r /\ r.op = q.op /\ r.at = q.at /\ r.todo = q.todo /\ r.answer = q.answer
        /\ r.seen = q.seen /\ r.code = q.code /\ r.inode = q.inode /\ r.alone = FALSE
        /\ r.cands = q.cands /\ r.failed = q.failed /\ r.wrote = q.wrote /\ r.snap = q.snap
    BY <2>2 DEF ReqFields
  <2> HIDE DEF r
  <2>4. SnapOK(r, Mixes[mix], published, gone)
    BY <2>1, <2>3 DEF RequestOK, SnapOK
  <2>5. RequestOK(r, Mixes[mix], published, gone)
    BY <2>1, <2>3, <2>4, SameOK
  <2>6. gone' \subseteq gone
    BY <1>1
  <2>7. RequestOK(r, Mixes[mix], published, gone')
    BY <2>5, <2>6, OtherOK
  <2>8. QED
    BY <2>3, <2>7 DEF StageOK, r
<1> HIDE DEF Other
<1>6. FilesOK'
  <2>1. gone' \subseteq gone
    BY <1>1
  <2>2. /\ \A f : ProvidersOK(f, Mixes[mix], published, gone) => ProvidersOK(f, Mixes[mix], published, gone')
        /\ \A f : MemoryOK(f, Mixes[mix], published, gone) => MemoryOK(f, Mixes[mix], published, gone')
        /\ \A f : SecretsOK(f, gone) => SecretsOK(f, gone')
    BY <2>1 DEF ProvidersOK, MemoryOK, SecretsOK
  <2>3. QED
    BY <1>1, <2>1, <2>2 DEF SettingsInv, FilesOK, FileOK
<1>7. /\ DOMAIN req' = Slots /\ req'[s] = new
      /\ \A t \in Slots \ {s} : req'[t] = IF Busy(req[t]) THEN Other(req[t]) ELSE Idle
  BY <1>1
<1>8. ~Busy(Idle)
  BY DEF Busy, Idle
<1>9. \A t \in Slots : req'[t] = Idle \/ RequestOK(req'[t], Mixes[mix'], published', gone')
  BY <1>1, <1>4, <1>5, <1>7
<1>10. \A t \in Slots : Busy(req'[t]) => StageOK(req'[t], disk')
  BY <1>1, <1>4, <1>5, <1>7, <1>8
<1>11. ASSUME NEW t \in Slots, NEW u \in Slots, t # u, Busy(req'[t]), req'[t].alone, Busy(req'[u])
       PROVE  FALSE
  <2>1. CASE t = s
    <3>1. Busy(req[u])
      BY <1>7, <1>8, <1>11, <2>1
    <3>2. overlaps
      BY <1>11, <2>1, <3>1 DEF overlaps
    <3>3. QED
      BY <1>3, <1>7, <1>11, <2>1, <3>2
  <2>2. CASE t # s
    BY <1>5, <1>7, <1>8, <1>11, <2>2
  <2>3. QED
    BY <2>1, <2>2
<1>12. issued' \in Nat /\ gone' \subseteq Ids /\ mix' \in DOMAIN Mixes
  BY <1>1, <1>2
<1>13. QED
  BY <1>6, <1>7, <1>9, <1>10, <1>11, <1>12 DEF SettingsInv

\* Restart keeps the files and nothing else.
LEMMA RestartStep ==
  ASSUME SettingsInv, Restart
  PROVE  SettingsInv'
<1>1. \A s \in Slots : req'[s] = Idle
  BY DEF Restart
<1>2. ~Busy(Idle)
  BY DEF Busy, Idle
<1>3. FilesOK'
  BY DEF Restart, SettingsInv, FilesOK
<1>4. QED
  BY <1>1, <1>2, <1>3 DEF Restart, SettingsInv

\* Nothing that the invariant speaks of changes.
LEMMA StillStep ==
  ASSUME SettingsInv, UNCHANGED <<disk, built, req, mix, issued, published, gone>>
  PROVE  SettingsInv'
BY DEF SettingsInv, FilesOK

\* The stores start empty.
LEMMA SettingsInitial ==
  ASSUME SettingsInit
  PROVE  SettingsInv
<1>1. \A s \in Slots : req[s] = Idle
  BY DEF SettingsInit
<1>2. ~Busy(Idle)
  BY DEF Busy, Idle
<1>3. /\ disk.providers = EmptyProviders /\ disk.memory = EmptyMemory /\ disk.secrets = [i \in Ids |-> 0]
      /\ {"providers", "memory", "secrets"} \subseteq DOMAIN disk /\ gone = {} /\ built = {}
  BY DEF SettingsInit
<1>4. FilesOK
  BY <1>3 DEF FilesOK, FileOK, ProvidersOK, MemoryOK, SecretsOK, EmptyProviders, EmptyMemory
<1>5. QED
  BY <1>1, <1>2, <1>4 DEF SettingsInit, SettingsInv

\* Every step keeps the invariant.
LEMMA SettingsNextKeeps ==
  ASSUME SettingsInv, [SettingsNext]_vars
  PROVE  SettingsInv'
<1>1. ASSUME NEW s \in Slots, Step(s) PROVE SettingsInv'
  BY <1>1, ReadStoreStep, CheckRequestStep, BeginWriteStep, PublishWriteStep, TempSteps, RenameTempStep,
     DiscoverySteps, CandidatesStep, PickMemoryStep, BuildMemoryStep, ClearCachesStep, RouterSteps, InMemorySteps
     DEF Step
<1>2. ASSUME NEW s \in Slots, FailWrite(s) \/ SettingsDeadline(s) \/ \E op \in Mixes[mix] : Issue(s, op)
      PROVE  SettingsInv'
  BY <1>2, FailWriteStep, DeadlineStep, IssueStep
<1>3. ASSUME NEW i \in Ids, ExpireEntry(i) PROVE SettingsInv'
  BY <1>3, StillStep DEF ExpireEntry
<1>4. CASE UNCHANGED vars
  BY <1>4, StillStep DEF vars
<1>5. QED
  BY <1>1, <1>2, <1>3, <1>4, RestartStep DEF SettingsNext

\* The invariant holds throughout.
LEMMA SettingsInvariant == SettingsSpec => []SettingsInv
BY SettingsInitial, SettingsNextKeeps, PTL DEF SettingsSpec

(***************************************************************************)
(* The theorems.                                                           *)
(***************************************************************************)
\* A record that came with a key is in a file only once that key has been in the secrets
\* file, whatever requests overlap, writes fail and restarts happen.
THEOREM KeyBeforeRecordCorrect == SettingsSpec => []KeyBeforeRecord
<1>1. SettingsInv => KeyBeforeRecord
  BY DEF SettingsInv, FilesOK, FileOK, ProvidersOK, MemoryOK, KeyBeforeRecord
<1>2. QED
  BY <1>1, SettingsInvariant, PTL

\* After a delete that ran alone was answered, no record, route, key or built provider of
\* its id is left, until a request names the id again.
THEOREM DeletedIsGoneCorrect == SettingsSpec => []DeletedIsGone
<1>1. SettingsInv => DeletedIsGone
  <2> SUFFICES ASSUME SettingsInv, NEW id \in gone
               PROVE  /\ Rec(disk.providers.recs \cup disk.memory.recs, id) = None
                      /\ disk.memory.active # id /\ \A m \in ModelRoles : disk.providers.active[m] # id
                      /\ ~hasSecret(disk.secrets, id)
                      /\ \A p \in built : p.id # id
    BY DEF DeletedIsGone
  <2>1. id # None
    BY MixesAssumption DEF SettingsInv
  <2>2. /\ ProvidersOK(disk.providers, Mixes[mix], published, gone)
        /\ MemoryOK(disk.memory, Mixes[mix], published, gone) /\ SecretsOK(disk.secrets, gone)
    BY DEF SettingsInv, FilesOK, FileOK
  <2>3. \A r \in disk.providers.recs \cup disk.memory.recs : r.id # id
    BY <2>2 DEF ProvidersOK, MemoryOK
  <2>4. Rec(disk.providers.recs \cup disk.memory.recs, id) = None
    BY <2>3 DEF Rec, findProviderRecord
  <2>5. disk.memory.active # id /\ \A m \in ModelRoles : disk.providers.active[m] # id
    BY <2>1, <2>2 DEF ProvidersOK, MemoryOK
  <2>6. ~hasSecret(disk.secrets, id)
    BY <2>2 DEF SecretsOK, hasSecret
  <2>7. \A p \in built : p.id # id
    BY DEF SettingsInv, FilesOK
  <2>8. QED
    BY <2>4, <2>5, <2>6, <2>7
<1>2. QED
  BY <1>1, SettingsInvariant, PTL

\* A request that a check refused has changed no store and nothing in memory.
THEOREM RefusedLeavesNoTraceCorrect == SettingsSpec => []RefusedLeavesNoTrace
<1>1. SettingsInv => RefusedLeavesNoTrace
  BY DEF SettingsInv, RequestOK, AnswerOK, Refusals, RefusedLeavesNoTrace, Idle
<1>2. QED
  BY <1>1, SettingsInvariant, PTL

(***************************************************************************)
(* What serves is what the files hold.  As long as requests come one after *)
(* the other, a request that resolves a provider needs nothing of what it  *)
(* read before its last write, what it has read since is what the files    *)
(* hold, and the provider cache agrees with the files but between the      *)
(* write of a memory provider or of its key and the dropping of the cache. *)
(***************************************************************************)
RouterServing == {"router", "activate"}
Serving(op) == op.do \in MemoryServing \cup RouterServing \/ (op.do = "discover" /\ op.refresh)

ServingSteps(op) ==
    CASE op.do \in MemoryServing -> {"read", "need", "write", "clearCaches", "candidates", "pick", "build"}
      [] op.do \in RouterServing -> {"read", "need", "write", "slots", "route"}
      [] OTHER -> {"read", "need", "call", "remember"}

\* The stores a step looks into, as they were read.
Inputs(do) ==
    CASE do \in {"candidates", "pick"} -> {"memoryAssignments", "memory"}
      [] do = "build" -> {"memoryAssignments", "memory", "secrets"}
      [] do = "slots" -> {"providers"}
      [] do = "route" -> {"assignments", "providers", "secrets"}
      [] do = "call" -> {"providers"}
      [] OTHER -> {}
InputStores == {"memoryAssignments", "memory", "secrets", "assignments", "providers"}

\* Nothing that was read, or made of what was read, up to the n-th step is used after it.
Afresh(p, n) ==
    \A k \in n + 1 .. Len(p) :
        /\ \A x \in Inputs(p[k].do) : \E m \in n + 1 .. k - 1 : p[m] = Read(x)
        /\ p[k].do = "pick" => \E m \in n + 1 .. k - 1 : p[m].do = "candidates"
        /\ p[k].do = "route" => \E m \in n + 1 .. k - 1 : p[m].do = "slots"
        /\ p[k].do = "build" => k > n + 2

Servable(p, op) ==
    \A n \in 1 .. Len(p) :
        /\ p[n].do \in ServingSteps(op)
        /\ p[n].do = "write" => Afresh(p, n)
        /\ p[n].do \in {"build", "route", "call"} => \A k \in n + 1 .. Len(p) : p[k].do = "remember"

\* ExpectedMemory, of given files.
FitIn(d, id) ==
    id = "local" \/ (Rec(d.memory.recs, id) # None
        /\ buildMemoryProviderFromRecord(Rec(d.memory.recs, id), d.secrets[id]).ok)
RefsIn(d, scope) ==
    MemoryCandidates(selectMemoryAssignmentForRole(d.memoryAssignments, "semanticMemory", scope), d.memory.active)
ExpectedIn(d, scope) ==
    LET refs == RefsIn(d, scope)
        n == CHOOSE n \in 1 .. Len(refs) : FitIn(d, refs[n]) /\ \A m \in 1 .. n - 1 : ~FitIn(d, refs[m])
    IN  CASE refs = << >> -> NoMemory
          [] refs # << >> /\ refs[n] = "local" -> LocalProvider
          [] refs # << >> /\ refs[n] # "local" ->
                buildMemoryProviderFromRecord(Rec(d.memory.recs, refs[n]), d.secrets[refs[n]]).provider

\* The candidates that are left are the last of those of the files, and none before them fits.
CandsOK(q, d) ==
    LET refs == RefsIn(d, q.op.scope)
    IN  \E k \in 0 .. Len(refs) :
            q.cands = SubSeq(refs, k + 1, Len(refs)) /\ \A m \in 1 .. k : ~FitIn(d, refs[m])
ChosenOK(q, d) ==
    CandsOK(q, d) /\ q.cands # << >> /\ Head(q.cands) # "local" /\ Rec(d.memory.recs, Head(q.cands)) # None

FreshOK(q, d) ==
    \A k \in 1 .. Len(q.todo) :
        /\ \A x \in Inputs(q.todo[k].do) : q.seen[x] = d[x] \/ \E m \in 1 .. k - 1 : q.todo[m] = Read(x)
        /\ q.todo[k].do = "pick" => CandsOK(q, d) \/ \E m \in 1 .. k - 1 : q.todo[m].do = "candidates"
        /\ q.todo[k].do = "route" => q.first = d.providers.recs \/ \E m \in 1 .. k - 1 : q.todo[m].do = "slots"
        /\ q.todo[k].do = "build" /\ k < 3 => ChosenOK(q, d)

\* What it has found, if anything, is right, and nothing is left that could change that.
RightIn(q, d) ==
    /\ q.op.do \in MemoryServing => q.served = ExpectedIn(d, q.op.scope)
    /\ q.op.do \in RouterServing =>
            q.served = routerSelection(d.assignments, d.providers.recs, d.providers.recs, d.secrets,
                                       q.op.role, q.op.scope)
    /\ q.op.do = "discover" => q.served.at = Rec(d.providers.recs, q.op.id).at
ServedOK(q, d) ==
    q.served # None => RightIn(q, d) /\ \A n \in 1 .. Len(q.todo) : q.todo[n].do = "remember"

ServesOK(q, d) ==
    Serving(q.op) =>
        /\ Servable(q.todo, q.op) /\ FreshOK(q, d) /\ ServedOK(q, d)
        /\ q.op.do = "discover" => q.first = None

\* The cache agrees with the files, or a request is about to drop it.
CacheRight(d, cache) ==
    \A p \in cache :
        LET r == Rec(d.memory.recs, p.id)
            b == buildMemoryProviderFromRecord(r, d.secrets[p.id])
        IN  r # None /\ r.at = p.at => b.ok /\ p = b.provider
Dropping(p, op) ==
    op.do \in MemoryRoutes =>
        \A n \in 1 .. Len(p) :
            /\ p[n].do \in {"read", "need", "write", "clearCaches"}
            /\ p[n].do = "write" => p[n].store # "modules" /\ \E m \in n + 1 .. Len(p) : p[m].do = "clearCaches"
Owes(q) ==
    q.op.do \in MemoryRoutes /\ NoNeeds(q.todo) /\ \E n \in 1 .. Len(q.todo) : q.todo[n].do = "clearCaches"

\* What a key is about to be put into is the file as it is.
SnapRight(q, d) ==
    (q.snap # None /\ q.todo # << >> /\ Head(q.todo).do = "write" /\ Head(q.todo).store = "secrets") =>
        q.snap = d.secrets

CalmInv ==
    calm =>
        /\ \A s, t \in Slots : req[s] # Idle /\ req[t] # Idle => s = t
        /\ \A s \in Slots : req[s] # Idle =>
                ServesOK(req[s], disk) /\ SnapRight(req[s], disk) /\ Dropping(req[s].todo, req[s].op)
        /\ CacheRight(disk, built) \/ \E s \in Slots : req[s] # Idle /\ Owes(req[s])

(***************************************************************************)
(* The routes that resolve a provider, and those of the memory providers.  *)
(***************************************************************************)
\* What prepares a resolution comes before it and writes nothing that it has read.
LEMMA FrontServes ==
  ASSUME NEW op, NEW S, NEW a \in Seq(S), NEW b \in Seq(S),
         \A n \in 1 .. Len(a) : a[n].do \in ServingSteps(op) \cap {"read", "need", "write", "clearCaches"},
         Servable(b, op), Afresh(b, 0), \A n \in 1 .. Len(b) : b[n].do # "write"
  PROVE  Servable(a \o b, op) /\ Afresh(a \o b, 0)
<1> DEFINE p == a \o b
           k0 == Len(a)
<1>1. /\ k0 \in Nat /\ Len(b) \in Nat /\ Len(p) = k0 + Len(b)
      /\ \A n \in 1 .. k0 : p[n] = a[n]
      /\ \A n \in 1 .. Len(b) : p[k0 + n] = b[n]
      /\ \A n \in k0 + 1 .. k0 + Len(b) : n - k0 \in 1 .. Len(b) /\ p[n] = b[n - k0]
  BY ConcatIndex
<1> HIDE DEF p, k0
<1>2. \A n \in 1 .. k0 : /\ p[n].do \in ServingSteps(op) /\ Inputs(p[n].do) = {}
                         /\ p[n].do \notin {"pick", "route", "build", "call"}
  BY <1>1 DEF Inputs, k0
<1>3. ASSUME NEW n \in 0 .. k0 PROVE Afresh(p, n)
  <2> SUFFICES ASSUME NEW k \in n + 1 .. Len(p)
               PROVE  /\ \A x \in Inputs(p[k].do) : \E m \in n + 1 .. k - 1 : p[m] = Read(x)
                      /\ p[k].do = "pick" => \E m \in n + 1 .. k - 1 : p[m].do = "candidates"
                      /\ p[k].do = "route" => \E m \in n + 1 .. k - 1 : p[m].do = "slots"
                      /\ p[k].do = "build" => k > n + 2
    BY DEF Afresh
  <2>1. CASE k <= k0
    <3>1. k \in 1 .. k0
      BY <1>1, <2>1
    <3>2. QED
      BY <1>2, <3>1
  <2>2. CASE k > k0
    <3> DEFINE j == k - k0
    <3>1. j \in 1 .. Len(b) /\ p[k] = b[j]
      BY <1>1, <2>2
    <3>2. /\ \A x \in Inputs(b[j].do) : \E m \in 1 .. j - 1 : b[m] = Read(x)
          /\ b[j].do = "pick" => \E m \in 1 .. j - 1 : b[m].do = "candidates"
          /\ b[j].do = "route" => \E m \in 1 .. j - 1 : b[m].do = "slots"
          /\ b[j].do = "build" => j > 2
      BY <1>1, <3>1 DEF Afresh
    <3>3. ASSUME NEW m \in 1 .. j - 1 PROVE k0 + m \in n + 1 .. k - 1 /\ p[k0 + m] = b[m]
      <4>1. m \in 1 .. Len(b) /\ k0 \in Nat /\ n \in Nat /\ n <= k0 /\ k = k0 + j /\ k \in Nat
        BY <1>1, <3>1
      <4> HIDE DEF j
      <4>2. QED
        BY <1>1, <3>1, <4>1
    <3>4. b[j].do = "build" => k > n + 2
      BY <1>1, <3>2
    <3> HIDE DEF j
    <3>5. QED
      BY <3>1, <3>2, <3>3, <3>4
  <2>3. QED
    BY <1>1, <2>1, <2>2
<1>4. ASSUME NEW n \in 1 .. Len(p)
      PROVE  /\ p[n].do \in ServingSteps(op)
             /\ p[n].do = "write" => Afresh(p, n)
             /\ p[n].do \in {"build", "route", "call"} => \A k \in n + 1 .. Len(p) : p[k].do = "remember"
  <2>1. CASE n <= k0
    BY <1>1, <1>2, <1>3, <2>1
  <2>2. CASE n > k0
    <3> DEFINE j == n - k0
    <3>1. j \in 1 .. Len(b) /\ p[n] = b[j]
      BY <1>1, <2>2
    <3>2. \A k \in n + 1 .. Len(p) : k - k0 \in j + 1 .. Len(b) /\ p[k] = b[k - k0]
      BY <1>1, <2>2
    <3> HIDE DEF j
    <3>3. QED
      BY <3>1, <3>2 DEF Servable
  <2>3. QED
    BY <1>1, <2>1, <2>2
<1>5. 0 \in 0 .. k0
  BY <1>1
<1>6. QED
  BY <1>3, <1>4, <1>5 DEF Servable, p

\* The resolution of a memory role.
LEMMA ResolveServes ==
  ASSUME NEW op, op.do \in MemoryServing
  PROVE  LET p == resolveMemoryProvider(op)
         IN  /\ \E S : p \in Seq(S)
             /\ Servable(p, op) /\ Afresh(p, 0) /\ \A n \in 1 .. Len(p) : p[n].do # "write"
<1> DEFINE a == Read("memoryAssignments")
           b == Read("memory")
           c == Do("candidates")
           d == Do("pick")
           e == Read("secrets")
           f == Do("build")
           p == <<a, b, c, d, e, f>>
           S == {a, b, c, d, e, f}
<1>1. a.do = "read" /\ b.do = "read" /\ c.do = "candidates" /\ d.do = "pick" /\ e.do = "read" /\ f.do = "build"
  BY DEF Read, Do
<1>2. a = Read("memoryAssignments") /\ b = Read("memory") /\ e = Read("secrets")
  OBVIOUS
<1> HIDE DEF a, b, c, d, e, f
<1>3. p \in Seq(S) /\ Len(p) = 6
  OBVIOUS
<1>4. p[1] = a /\ p[2] = b /\ p[3] = c /\ p[4] = d /\ p[5] = e /\ p[6] = f
  OBVIOUS
<1> HIDE DEF p, S
<1>5. \A n \in 1 .. Len(p) : n = 1 \/ n = 2 \/ n = 3 \/ n = 4 \/ n = 5 \/ n = 6
  BY <1>3
<1>6. /\ Inputs("read") = {} /\ Inputs("candidates") = {"memoryAssignments", "memory"}
      /\ Inputs("pick") = {"memoryAssignments", "memory"}
      /\ Inputs("build") = {"memoryAssignments", "memory", "secrets"}
  BY DEF Inputs
<1>7. Afresh(p, 0)
  <2>1. \A n \in 1 .. Len(p) :
            p[n].do \in {"candidates", "pick", "build"} => 1 \in 0 + 1 .. n - 1 /\ 2 \in 0 + 1 .. n - 1
    BY <1>1, <1>4, <1>5
  <2>2. \A n \in 1 .. Len(p) : p[n].do = "pick" => 3 \in 0 + 1 .. n - 1
    BY <1>1, <1>4, <1>5
  <2>3. \A n \in 1 .. Len(p) : p[n].do = "build" => 5 \in 0 + 1 .. n - 1 /\ n > 2
    BY <1>1, <1>4, <1>5
  <2>4. \A n \in 1 .. Len(p) : p[n].do \in {"read", "candidates", "pick", "build"}
    BY <1>1, <1>4, <1>5
  <2>5. ASSUME NEW k \in 0 + 1 .. Len(p), NEW x \in Inputs(p[k].do) PROVE \E m \in 0 + 1 .. k - 1 : p[m] = Read(x)
    <3>1. k \in 1 .. Len(p)
      BY <1>3
    <3>2. p[k].do \in {"candidates", "pick", "build"}
      BY <1>6, <2>4, <2>5, <3>1
    <3>3. x = "memoryAssignments" \/ x = "memory" \/ (x = "secrets" /\ p[k].do = "build")
      BY <1>6, <2>5, <3>2
    <3>4. QED
      BY <1>2, <1>4, <2>1, <2>3, <3>1, <3>2, <3>3
  <2>6. QED
    BY <1>1, <1>3, <1>4, <2>2, <2>3, <2>5 DEF Afresh
<1>8. ServingSteps(op) = {"read", "need", "write", "clearCaches", "candidates", "pick", "build"}
  BY DEF ServingSteps, MemoryServing, RouterServing
<1>9. \A n \in 1 .. Len(p) : p[n].do # "write" /\ p[n].do \in ServingSteps(op) /\ (p[n].do = "build" => n = Len(p))
                             /\ p[n].do \notin {"route", "call"}
  BY <1>1, <1>3, <1>4, <1>5, <1>8
<1>10. Servable(p, op)
  BY <1>3, <1>9 DEF Servable
<1>11. p = resolveMemoryProvider(op)
  BY DEF p, a, b, c, d, e, f, resolveMemoryProvider
<1>12. QED
  BY <1>3, <1>7, <1>9, <1>10, <1>11

\* The model router.
LEMMA RouterServes ==
  ASSUME NEW op, op.do \in RouterServing
  PROVE  LET p == buildConfiguredAssignmentAwareRouter(op)
         IN  /\ \E S : p \in Seq(S)
             /\ Servable(p, op) /\ Afresh(p, 0) /\ \A n \in 1 .. Len(p) : p[n].do # "write"
<1> DEFINE a == Read("assignments")
           b == Read("providers")
           c == Do("slots")
           e == Read("secrets")
           f == Do("route")
           p == <<a, b, c, b, e, f>>
           S == {a, b, c, e, f}
<1>1. a.do = "read" /\ b.do = "read" /\ c.do = "slots" /\ e.do = "read" /\ f.do = "route"
  BY DEF Read, Do
<1>2. a = Read("assignments") /\ b = Read("providers") /\ e = Read("secrets")
  OBVIOUS
<1> HIDE DEF a, b, c, e, f
<1>3. p \in Seq(S) /\ Len(p) = 6
  OBVIOUS
<1>4. p[1] = a /\ p[2] = b /\ p[3] = c /\ p[4] = b /\ p[5] = e /\ p[6] = f
  OBVIOUS
<1> HIDE DEF p, S
<1>5. \A n \in 1 .. Len(p) : n = 1 \/ n = 2 \/ n = 3 \/ n = 4 \/ n = 5 \/ n = 6
  BY <1>3
<1>6. /\ Inputs("read") = {} /\ Inputs("slots") = {"providers"}
      /\ Inputs("route") = {"assignments", "providers", "secrets"}
  BY DEF Inputs
<1>7. Afresh(p, 0)
  <2>1. \A n \in 1 .. Len(p) : p[n].do \in {"slots", "route"} => 1 \in 0 + 1 .. n - 1 /\ 2 \in 0 + 1 .. n - 1
    BY <1>1, <1>4, <1>5
  <2>2. \A n \in 1 .. Len(p) : p[n].do = "route" => 3 \in 0 + 1 .. n - 1 /\ 5 \in 0 + 1 .. n - 1
    BY <1>1, <1>4, <1>5
  <2>3. \A n \in 1 .. Len(p) : p[n].do \in {"read", "slots", "route"}
    BY <1>1, <1>4, <1>5
  <2>4. ASSUME NEW k \in 0 + 1 .. Len(p), NEW x \in Inputs(p[k].do) PROVE \E m \in 0 + 1 .. k - 1 : p[m] = Read(x)
    <3>1. k \in 1 .. Len(p)
      BY <1>3
    <3>2. p[k].do \in {"slots", "route"}
      BY <1>6, <2>3, <2>4, <3>1
    <3>3. x = "providers" \/ (x \in {"assignments", "secrets"} /\ p[k].do = "route")
      BY <1>6, <2>4, <3>2
    <3>4. QED
      BY <1>2, <1>4, <2>1, <2>2, <3>1, <3>2, <3>3
  <2>5. QED
    BY <1>1, <1>3, <1>4, <2>2, <2>3, <2>4 DEF Afresh
<1>8. ServingSteps(op) = {"read", "need", "write", "slots", "route"}
  BY DEF ServingSteps, MemoryServing, RouterServing
<1>9. \A n \in 1 .. Len(p) : p[n].do # "write" /\ p[n].do \in ServingSteps(op) /\ (p[n].do = "route" => n = Len(p))
                             /\ p[n].do \notin {"build", "call"}
  BY <1>1, <1>3, <1>4, <1>5, <1>8
<1>10. Servable(p, op)
  BY <1>3, <1>9 DEF Servable
<1>11. p = buildConfiguredAssignmentAwareRouter(op)
  BY DEF p, a, b, c, e, f, buildConfiguredAssignmentAwareRouter
<1>12. QED
  BY <1>3, <1>7, <1>9, <1>10, <1>11

\* Discovery that passes the cache by.
LEMMA DiscoverServes ==
  ASSUME NEW op, op.do = "discover", op.refresh
  PROVE  Servable(discover(op), op) /\ Afresh(discover(op), 0)
<1> DEFINE a == Read("providers")
           b == Need("known", 404)
           c == Read("secrets")
           d == Do("call")
           e == Do("remember")
           p == <<a, b, c, d, e>>
<1>1. a.do = "read" /\ b.do = "need" /\ c.do = "read" /\ d.do = "call" /\ e.do = "remember"
  BY DEF Read, Need, Do
<1>2. a = Read("providers")
  OBVIOUS
<1>3. p = discover(op)
  BY DEF discover
<1> HIDE DEF a, b, c, d, e
<1>4. Len(p) = 5 /\ p[1] = a /\ p[2] = b /\ p[3] = c /\ p[4] = d /\ p[5] = e
  OBVIOUS
<1> HIDE DEF p
<1>5. \A n \in 1 .. Len(p) : n = 1 \/ n = 2 \/ n = 3 \/ n = 4 \/ n = 5
  BY <1>4
<1>6. Inputs("read") = {} /\ Inputs("need") = {} /\ Inputs("remember") = {} /\ Inputs("call") = {"providers"}
  BY DEF Inputs
<1>7. Afresh(p, 0)
  BY <1>1, <1>2, <1>4, <1>5, <1>6 DEF Afresh
<1>8. ServingSteps(op) = {"read", "need", "call", "remember"}
  BY DEF ServingSteps, MemoryServing, RouterServing
<1>9. Servable(p, op)
  BY <1>1, <1>4, <1>5, <1>8 DEF Servable
<1>10. QED
  BY <1>3, <1>7, <1>9

\* The routes that resolve a provider.
LEMMA ServingPrograms ==
  ASSUME NEW op, Serving(op)
  PROVE  Servable(Program(op), op) /\ Afresh(Program(op), 0)
<1> DEFINE Prepares(a) ==
               \A n \in 1 .. Len(a) : a[n].do \in ServingSteps(op) \cap {"read", "need", "write", "clearCaches"}
<1>0. ASSUME NEW T, NEW a \in Seq(T), NEW c \in Seq(T), Prepares(a), Prepares(c)
      PROVE  a \o c \in Seq(T) /\ Prepares(a \o c)
  <2>1. /\ a \o c \in Seq(T) /\ Len(a \o c) = Len(a) + Len(c) /\ Len(a) \in Nat /\ Len(c) \in Nat
        /\ \A n \in 1 .. Len(a) : (a \o c)[n] = a[n]
        /\ \A n \in Len(a) + 1 .. Len(a) + Len(c) : n - Len(a) \in 1 .. Len(c) /\ (a \o c)[n] = c[n - Len(a)]
    BY ConcatIndex
  <2>2. \A n \in 1 .. Len(a \o c) : n \in 1 .. Len(a) \/ n \in Len(a) + 1 .. Len(a) + Len(c)
    BY <2>1
  <2>3. QED
    BY <1>0, <2>1, <2>2
<1>1. CASE op.do \in MemoryServing
  <2> DEFINE b == resolveMemoryProvider(op)
  <2>1. /\ \E S : b \in Seq(S)
        /\ Servable(b, op) /\ Afresh(b, 0) /\ \A n \in 1 .. Len(b) : b[n].do # "write"
    BY <1>1, ResolveServes
  <2>2. ASSUME NEW a, NEW T, a \in Seq(T), Prepares(a) PROVE Servable(a \o b, op) /\ Afresh(a \o b, 0)
    <3> HIDE DEF b
    <3>1. PICK S : b \in Seq(S)
      BY <2>1
    <3>2. a \in Seq(T \cup S) /\ b \in Seq(T \cup S)
      BY <2>2, <3>1
    <3>3. QED
      BY <2>1, <2>2, <3>2, FrontServes
  <2>3. ServingSteps(op) = {"read", "need", "write", "clearCaches", "candidates", "pick", "build"}
    BY <1>1 DEF ServingSteps, MemoryServing, RouterServing
  <2>4. CASE op.do = "resolveMemory"
    BY <2>1, <2>4 DEF Program
  <2>5. CASE op.do = "putMemoryAssignment"
    <3> DEFINE a1 == Read("memory")
               a2 == Need("primaryKnown", 400)
               a3 == Need("fallbackKnown", 400)
               a4 == Read("memoryAssignments")
               a5 == WriteArg("memoryAssignments", "upsertMemoryAssignment", op.assignment)
               a6 == Do("clearCaches")
               a == <<a1, a2, a1, a3>>
               c == <<a4, a5, a6>>
               T == {a1, a2, a3, a4, a5, a6}
    <3>1. /\ a1.do = "read" /\ a2.do = "need" /\ a3.do = "need" /\ a4.do = "read" /\ a5.do = "write"
          /\ a6.do = "clearCaches"
      BY DEF Read, Need, WriteArg, Do
    <3>2. Program(op) = (a \o c) \o b
      BY <2>5 DEF Program, putMemoryAssignment, ensureMemoryProviderRefExists
    <3> HIDE DEF a1, a2, a3, a4, a5, a6, b
    <3>3. a \in Seq(T) /\ Len(a) = 4 /\ c \in Seq(T) /\ Len(c) = 3
      OBVIOUS
    <3>4. /\ \A n \in 1 .. Len(a) : a[n].do \in {"read", "need", "write", "clearCaches"}
          /\ \A n \in 1 .. Len(c) : c[n].do \in {"read", "need", "write", "clearCaches"}
      BY <3>1, <3>3
    <3>5. Prepares(a) /\ Prepares(c)
      BY <2>3, <3>4
    <3> HIDE DEF a, c, T, Prepares
    <3>6. a \o c \in Seq(T) /\ Prepares(a \o c)
      BY <1>0, <3>3, <3>5
    <3>7. QED
      BY <2>2, <3>2, <3>6
  <2>6. CASE op.do = "planMemoryMigration"
    <3> DEFINE a1 == Read("memory")
               a2 == Need("primaryKnown", 400)
               a == <<a1, a2>>
               T == {a1, a2}
    <3>1. a1.do = "read" /\ a2.do = "need"
      BY DEF Read, Need
    <3>2. Program(op) = a \o b
      BY <2>6 DEF Program, planMemoryMigration
    <3> HIDE DEF a1, a2, b
    <3>3. a \in Seq(T) /\ Len(a) = 2
      OBVIOUS
    <3>4. \A n \in 1 .. Len(a) : a[n].do \in {"read", "need", "write", "clearCaches"}
      BY <3>1, <3>3
    <3>5. Prepares(a)
      BY <2>3, <3>4
    <3> HIDE DEF a, T
    <3>6. QED
      BY <2>2, <3>2, <3>3, <3>5
  <2>7. QED
    BY <1>1, <2>4, <2>5, <2>6 DEF MemoryServing
<1>2. CASE op.do \in RouterServing
  <2> DEFINE b == buildConfiguredAssignmentAwareRouter(op)
  <2>1. /\ \E S : b \in Seq(S)
        /\ Servable(b, op) /\ Afresh(b, 0) /\ \A n \in 1 .. Len(b) : b[n].do # "write"
    BY <1>2, RouterServes
  <2>2. CASE op.do = "router"
    BY <2>1, <2>2 DEF Program
  <2>3. CASE op.do = "activate"
    <3> DEFINE a1 == Read("runtime")
               a2 == Read("assignments")
               a3 == Read("providers")
               a4 == Read("secrets")
               a5 == Read("memoryAssignments")
               a6 == Need("ready", 409)
               a7 == WriteArg("runtime", "putRuntime", [field |-> "profile", value |-> "configured"])
               a == <<a1, a2, a3, a4, a5, a6>>
               c == <<a1, a7>>
               T == {a1, a2, a3, a4, a5, a6, a7}
    <3>1. a1.do = "read" /\ a2.do = "read" /\ a3.do = "read" /\ a4.do = "read" /\ a5.do = "read" /\ a6.do = "need"
          /\ a7.do = "write"
      BY DEF Read, Need, WriteArg
    <3>2. Program(op) = (a \o c) \o b
      BY <2>3 DEF Program, postSetupActivate, computeActivationReadiness
    <3> HIDE DEF a1, a2, a3, a4, a5, a6, a7, b
    <3>3. a \in Seq(T) /\ Len(a) = 6 /\ c \in Seq(T) /\ Len(c) = 2
      OBVIOUS
    <3>4. /\ \A n \in 1 .. Len(a) : a[n].do \in {"read", "need", "write"}
          /\ \A n \in 1 .. Len(c) : c[n].do \in {"read", "need", "write"}
      BY <3>1, <3>3
    <3>5. ServingSteps(op) = {"read", "need", "write", "slots", "route"}
      BY <1>2 DEF ServingSteps, MemoryServing, RouterServing
    <3>6. Prepares(a) /\ Prepares(c)
      BY <3>4, <3>5
    <3> HIDE DEF a, c, T, Prepares
    <3>7. a \o c \in Seq(T) /\ Prepares(a \o c)
      BY <1>0, <3>3, <3>6
    <3>8. PICK S : b \in Seq(S)
      BY <2>1
    <3>9. a \o c \in Seq(T \cup S) /\ b \in Seq(T \cup S)
      BY <3>7, <3>8
    <3>10. Servable((a \o c) \o b, op) /\ Afresh((a \o c) \o b, 0)
      BY <2>1, <3>7, <3>9, FrontServes DEF Prepares
    <3>11. QED
      BY <3>2, <3>10
  <2>4. QED
    BY <1>2, <2>2, <2>3 DEF RouterServing
<1>3. CASE op.do = "discover" /\ op.refresh
  BY <1>3, DiscoverServes DEF Program
<1>4. QED
  BY <1>1, <1>2, <1>3 DEF Serving

\* The routes of the memory providers.
LEMMA DroppingPrograms ==
  ASSUME NEW op
  PROVE  Dropping(Program(op), op)
<1> DEFINE r == Read("memory")
           n == Need("maySetSecret", 403)
           k == Need("known", 404)
           s == Write("secrets", "setSecret")
           x == Write("secrets", "deleteSecret")
           u == Write("memory", "upsertMemoryProvider")
           v == Write("memory", "removeMemoryProvider")
           w == Write("memory", "setActiveMemoryProvider")
           c == Do("clearCaches")
           Kind(i) == i.do \in {"read", "need", "write"} /\ (i.do = "write" => i.store # "modules")
<1>1. /\ Kind(r) /\ Kind(n) /\ Kind(k) /\ Kind(s) /\ Kind(x) /\ Kind(u) /\ Kind(v) /\ Kind(w)
      /\ c.do = "clearCaches"
  BY DEF Read, Need, Write, WriteArg, Do
<1>2. /\ op.do = "postMemoryProvider" => Program(op) = (<<r>> \o (IF op.keyed THEN <<n, s>> ELSE << >>)) \o <<u, c>>
      /\ op.do = "postMemoryProvidersActive" => Program(op) = <<w, c>>
      /\ op.do = "postMemoryProviderSecret" => Program(op) = <<r, k, s, c>>
      /\ op.do = "deleteMemoryProvider" => Program(op) = <<r, k, v, x, c>>
  <2>1. /\ op.do = "postMemoryProvider" => Program(op) = postMemoryProvider(op)
        /\ op.do = "postMemoryProvidersActive" => Program(op) = postMemoryProvidersActive(op)
        /\ op.do = "postMemoryProviderSecret" => Program(op) = postMemoryProviderSecret(op)
        /\ op.do = "deleteMemoryProvider" => Program(op) = deleteMemoryProvider(op)
    BY DEF Program
  <2>2. /\ postMemoryProvider(op) = (<<r>> \o (IF op.keyed THEN <<n, s>> ELSE << >>)) \o <<u, c>>
        /\ postMemoryProvidersActive(op) = <<w, c>>
        /\ postMemoryProviderSecret(op) = <<r, k, s, c>>
        /\ deleteMemoryProvider(op) = <<r, k, v, x, c>>
    BY Zenon
    DEF postMemoryProvider, postMemoryProvidersActive, postMemoryProviderSecret, deleteMemoryProvider, KeyFirst
  <2> HIDE DEF r, n, k, s, x, u, v, w, c
  <2>3. QED
    BY <2>1, <2>2
<1> HIDE DEF r, n, k, s, x, u, v, w, c
<1>3. ASSUME NEW T, NEW a \in Seq(T), NEW b \in Seq(T), \A m \in 1 .. Len(a) : Kind(a[m]), Len(b) = 2,
             Kind(b[1]), b[2] = c, a \o b = Program(op)
      PROVE  Dropping(Program(op), op)
  <2> DEFINE p == a \o b
  <2>1. /\ Len(a) \in Nat /\ Len(p) = Len(a) + Len(b)
        /\ \A m \in 1 .. Len(a) : p[m] = a[m]
        /\ \A m \in Len(a) + 1 .. Len(a) + Len(b) : m - Len(a) \in 1 .. Len(b) /\ p[m] = b[m - Len(a)]
    BY ConcatIndex
  <2> HIDE DEF p
  <2>2. Len(p) \in 1 .. Len(p) /\ p[Len(p)] = c
    BY <1>3, <2>1
  <2>3. \A m \in 1 .. Len(p) : m = Len(p) \/ Kind(p[m])
    BY <1>3, <2>1
  <2>4. \A m \in 1 .. Len(p) : m # Len(p) => Len(p) \in m + 1 .. Len(p)
    BY <2>1, <1>3
  <2> HIDE DEF Kind
  <2>5. Dropping(p, op)
    BY <1>1, <2>2, <2>3, <2>4 DEF Dropping, Kind
  <2>6. QED
    BY <1>3, <2>5 DEF p
<1> DEFINE T == {r, n, k, s, x, u, v, w, c}
<1>4. CASE op.do = "postMemoryProvider"
  <2> DEFINE y == IF op.keyed THEN <<n, s>> ELSE << >>
             a == <<r>> \o y
             b == <<u, c>>
  <2>1. y \in Seq(T) /\ <<r>> \in Seq(T) /\ b \in Seq(T) /\ Len(b) = 2 /\ b[1] = u /\ b[2] = c
    <3>1. <<n, s>> \in Seq(T) /\ << >> \in Seq(T)
      OBVIOUS
    <3>2. y \in Seq(T)
      <4> HIDE DEF T
      <4>1. QED
        BY <3>1
    <3>3. QED
      BY <3>2
  <2>2. (\A m \in 1 .. Len(y) : Kind(y[m])) /\ Len(<<r>>) = 1 /\ <<r>>[1] = r
    BY <1>1
  <2> HIDE DEF y, T, b
  <2>3. /\ a \in Seq(T) /\ Len(a) = 1 + Len(y) /\ a[1] = r /\ Len(y) \in Nat
        /\ \A m \in 2 .. 1 + Len(y) : m - 1 \in 1 .. Len(y) /\ a[m] = y[m - 1]
    BY <2>1, <2>2, ConcatIndex
  <2> HIDE DEF a, Kind
  <2>4. \A m \in 1 .. Len(a) : m = 1 \/ m \in 2 .. 1 + Len(y)
    BY <2>3
  <2>5. \A m \in 1 .. Len(a) : Kind(a[m])
    BY <1>1, <2>2, <2>3, <2>4
  <2>6. a \o b = Program(op)
    BY <1>2, <1>4 DEF a, b, y
  <2>7. QED
    BY <1>1, <1>3, <2>1, <2>3, <2>5, <2>6
<1>5. ASSUME NEW p, NEW z \in Nat, Len(p) = z + 1, p[z + 1] = c, \A m \in 1 .. z : Kind(p[m]), p = Program(op)
      PROVE  Dropping(Program(op), op)
  <2>1. \A m \in 1 .. Len(p) : m # z + 1 => m \in 1 .. z /\ z + 1 \in m + 1 .. Len(p)
    BY <1>5
  <2>2. QED
    BY <1>1, <1>5, <2>1 DEF Dropping
<1>6. CASE op.do = "postMemoryProvidersActive"
  <2> DEFINE p == <<w, c>>
  <2>1. Len(p) = 1 + 1 /\ p[1 + 1] = c /\ \A m \in 1 .. 1 : Kind(p[m])
    BY <1>1
  <2>2. p = Program(op)
    BY <1>2, <1>6
  <2> HIDE DEF p, Kind
  <2>3. QED
    BY <1>5, <2>1, <2>2
<1>7. CASE op.do = "postMemoryProviderSecret"
  <2> DEFINE p == <<r, k, s, c>>
  <2>1. Len(p) = 3 + 1 /\ p[3 + 1] = c /\ \A m \in 1 .. 3 : Kind(p[m])
    BY <1>1
  <2>2. p = Program(op)
    BY <1>2, <1>7
  <2> HIDE DEF p, Kind
  <2>3. QED
    BY <1>5, <2>1, <2>2
<1>8. CASE op.do = "deleteMemoryProvider"
  <2> DEFINE p == <<r, k, v, x, c>>
  <2>1. Len(p) = 4 + 1 /\ p[4 + 1] = c /\ \A m \in 1 .. 4 : Kind(p[m])
    BY <1>1
  <2>2. p = Program(op)
    BY <1>2, <1>8
  <2> HIDE DEF p, Kind
  <2>3. QED
    BY <1>5, <2>1, <2>2
<1>9. CASE op.do \notin MemoryRoutes
  BY <1>9 DEF Dropping
<1>10. QED
  BY <1>4, <1>6, <1>7, <1>8, <1>9 DEF MemoryRoutes

(***************************************************************************)
(* What a step leaves of that.                                             *)
(***************************************************************************)
\* What is read afresh after a step is read afresh in what it leaves.
LEMMA AfreshTail ==
  ASSUME NEW S, NEW p \in Seq(S), p # << >>, NEW n \in Nat, Afresh(p, n + 1)
  PROVE  Afresh(Tail(p), n)
<1> DEFINE t == Tail(p)
<1>1. /\ Len(p) \in Nat /\ Len(t) = Len(p) - 1
      /\ \A k \in 1 .. Len(t) : t[k] = p[k + 1] /\ k + 1 \in 1 .. Len(p)
  BY TailFacts
<1> HIDE DEF t
<1>2. ASSUME NEW k \in n + 1 .. Len(t)
      PROVE  /\ \A x \in Inputs(t[k].do) : \E m \in n + 1 .. k - 1 : t[m] = Read(x)
             /\ t[k].do = "pick" => \E m \in n + 1 .. k - 1 : t[m].do = "candidates"
             /\ t[k].do = "route" => \E m \in n + 1 .. k - 1 : t[m].do = "slots"
             /\ t[k].do = "build" => k > n + 2
  <2> DEFINE j == k + 1
  <2>1. j \in (n + 1) + 1 .. Len(p) /\ t[k] = p[j] /\ j \in Nat /\ k \in Nat
    BY <1>1
  <2>2. /\ \A x \in Inputs(p[j].do) : \E m \in (n + 1) + 1 .. j - 1 : p[m] = Read(x)
        /\ p[j].do = "pick" => \E m \in (n + 1) + 1 .. j - 1 : p[m].do = "candidates"
        /\ p[j].do = "route" => \E m \in (n + 1) + 1 .. j - 1 : p[m].do = "slots"
        /\ p[j].do = "build" => j > (n + 1) + 2
    BY <2>1 DEF Afresh
  <2>3. ASSUME NEW m \in (n + 1) + 1 .. j - 1 PROVE m - 1 \in n + 1 .. k - 1 /\ t[m - 1] = p[m]
    <3>1. m - 1 \in n + 1 .. k - 1 /\ m - 1 \in 1 .. Len(t)
      BY <1>1
    <3>2. QED
      BY <1>1, <3>1
  <2>4. j > (n + 1) + 2 => k > n + 2
    BY <2>1
  <2> HIDE DEF j
  <2>5. QED
    BY <2>1, <2>2, <2>3, <2>4
<1>3. QED
  BY <1>2 DEF Afresh, t

\* What is left of a route that serves.
LEMMA ServableTail ==
  ASSUME NEW op, NEW S, NEW p \in Seq(S), p # << >>, Servable(p, op)
  PROVE  /\ Servable(Tail(p), op)
         /\ Head(p).do \in ServingSteps(op)
         /\ Head(p).do = "write" => Afresh(Tail(p), 0)
         /\ Head(p).do \in {"build", "route", "call"} => \A n \in 1 .. Len(Tail(p)) : Tail(p)[n].do = "remember"
<1> DEFINE t == Tail(p)
<1>1. /\ Len(p) \in Nat /\ Len(p) > 0 /\ Len(t) = Len(p) - 1 /\ Head(p) = p[1]
      /\ \A n \in 1 .. Len(t) : t[n] = p[n + 1] /\ n + 1 \in 1 .. Len(p)
  BY TailFacts
<1>2. /\ 1 \in 1 .. Len(p) /\ p[1].do \in ServingSteps(op) /\ (p[1].do = "write" => Afresh(p, 0 + 1))
      /\ p[1].do \in {"build", "route", "call"} => \A k \in 1 + 1 .. Len(p) : p[k].do = "remember"
  BY <1>1 DEF Servable
<1>3. p[1].do = "write" => Afresh(t, 0)
  BY <1>2, AfreshTail
<1>4. ASSUME NEW n \in 1 .. Len(t)
      PROVE  /\ t[n].do \in ServingSteps(op)
             /\ t[n].do = "write" => Afresh(t, n)
             /\ t[n].do \in {"build", "route", "call"} => \A k \in n + 1 .. Len(t) : t[k].do = "remember"
  <2>1. n + 1 \in 1 .. Len(p) /\ t[n] = p[n + 1] /\ n \in Nat
    BY <1>1
  <2>2. /\ p[n + 1].do \in ServingSteps(op)
        /\ p[n + 1].do = "write" => Afresh(p, n + 1)
        /\ p[n + 1].do \in {"build", "route", "call"} => \A k \in (n + 1) + 1 .. Len(p) : p[k].do = "remember"
    BY <2>1 DEF Servable
  <2>3. t[n].do = "write" => Afresh(t, n)
    BY <2>1, <2>2, AfreshTail
  <2>4. \A k \in n + 1 .. Len(t) : k + 1 \in (n + 1) + 1 .. Len(p) /\ t[k] = p[k + 1]
    BY <1>1, <2>1
  <2>5. QED
    BY <2>1, <2>2, <2>3, <2>4
<1>5. Servable(t, op)
  BY <1>4 DEF Servable
<1> HIDE DEF t
<1>6. p[1].do \in {"build", "route", "call"} => \A n \in 1 .. Len(t) : t[n].do = "remember"
  <2>1. \A n \in 1 .. Len(t) : n + 1 \in 1 + 1 .. Len(p) /\ t[n] = p[n + 1]
    BY <1>1
  <2>2. QED
    BY <1>2, <2>1
<1>7. QED
  BY <1>1, <1>2, <1>3, <1>5, <1>6 DEF t

\* What is left of a route of the memory providers still drops the cache after a write.
LEMMA DroppingTail ==
  ASSUME NEW op, NEW S, NEW p \in Seq(S), p # << >>, Dropping(p, op)
  PROVE  Dropping(Tail(p), op)
<1> DEFINE t == Tail(p)
<1>1. /\ Len(p) \in Nat /\ Len(t) = Len(p) - 1
      /\ \A n \in 1 .. Len(t) : t[n] = p[n + 1] /\ n + 1 \in 1 .. Len(p)
  BY TailFacts
<1> HIDE DEF t
<1>2. ASSUME op.do \in MemoryRoutes, NEW n \in 1 .. Len(t)
      PROVE  /\ t[n].do \in {"read", "need", "write", "clearCaches"}
             /\ t[n].do = "write" => t[n].store # "modules" /\ \E m \in n + 1 .. Len(t) : t[m].do = "clearCaches"
  <2> DEFINE k == n + 1
  <2>1. k \in 1 .. Len(p) /\ t[n] = p[k]
    BY <1>1
  <2>2. /\ p[k].do \in {"read", "need", "write", "clearCaches"}
        /\ p[k].do = "write" => p[k].store # "modules" /\ \E m \in k + 1 .. Len(p) : p[m].do = "clearCaches"
    BY <1>2, <2>1 DEF Dropping
  <2>3. \A m \in k + 1 .. Len(p) : m - 1 \in n + 1 .. Len(t) /\ t[m - 1] = p[m]
    BY <1>1
  <2> HIDE DEF k
  <2>4. QED
    BY <2>1, <2>2, <2>3
<1>3. QED
  BY <1>2 DEF Dropping, t

\* Nothing stale is used of a route that reads everything afresh.
LEMMA FreshAnew ==
  ASSUME NEW q, NEW S, q.todo \in Seq(S), Afresh(q.todo, 0), NEW d
  PROVE  FreshOK(q, d)
<1> DEFINE p == q.todo
<1>1. Len(p) \in Nat
  BY LenProperties
<1> HIDE DEF p
<1>2. \A k \in 1 .. Len(p) :
        /\ \A x \in Inputs(p[k].do) : \E m \in 1 .. k - 1 : p[m] = Read(x)
        /\ p[k].do = "pick" => \E m \in 1 .. k - 1 : p[m].do = "candidates"
        /\ p[k].do = "route" => \E m \in 1 .. k - 1 : p[m].do = "slots"
        /\ p[k].do = "build" => k > 2
  BY <1>1 DEF Afresh, p
<1>3. QED
  BY <1>1, <1>2 DEF FreshOK, p

\* What a request has found is kept by its step and by its end.
LEMMA ServedFields ==
  ASSUME NEW r, NEW code, ReqFields \subseteq DOMAIN r
  PROVE  /\ Advance(r).first = r.first /\ Advance(r).served = r.served
         /\ End(r, code).first = r.first /\ End(r, code).served = r.served
BY DEF Advance, End, ReqFields

\* Nothing is amiss with a request that has nothing left to do, if what it found is right.
LEMMA EndServes ==
  ASSUME NEW q, NEW d, ServesOK(q, d), NEW r, ReqFields \subseteq DOMAIN r, r.op = q.op, r.first = q.first,
         NEW code, Serving(q.op) => r.served = None \/ RightIn(r, d)
  PROVE  ServesOK(End(r, code), d)
<1> DEFINE e == End(r, code)
<1>1. e.todo = << >> /\ e.op = q.op /\ e.first = q.first /\ e.served = r.served
  BY EndFields, ServedFields
<1> HIDE DEF e
<1>2. Len(e.todo) = 0
  BY <1>1
<1>3. Servable(e.todo, e.op) /\ FreshOK(e, d)
  BY <1>2 DEF Servable, FreshOK
<1>4. Serving(q.op) => ServedOK(e, d)
  BY <1>1, <1>2 DEF ServedOK, RightIn
<1>5. QED
  BY <1>1, <1>3, <1>4 DEF ServesOK, e

\* A change that leaves the step to be taken.
LEMMA SameServes ==
  ASSUME NEW q, NEW S, q.todo \in Seq(S), q.todo # << >>, NEW d, ServesOK(q, d),
         NEW ops, NEW pub, NEW gn, BuildOK(q, ops, pub, gn),
         NEW r, r.op = q.op, r.todo = q.todo, r.seen = q.seen, r.first = q.first, r.served = q.served,
         Serving(q.op) => r.cands = q.cands \/ (Head(q.todo).do = "pick" /\ CandsOK(r, d))
  PROVE  ServesOK(r, d)
<1> SUFFICES ASSUME Serving(q.op) PROVE ServesOK(r, d)
  BY DEF ServesOK
<1>1. Servable(q.todo, q.op) /\ FreshOK(q, d) /\ ServedOK(q, d) /\ (q.op.do = "discover" => q.first = None)
  BY DEF ServesOK
<1>2. ServedOK(r, d)
  BY <1>1 DEF ServedOK, RightIn
<1>3. FreshOK(r, d)
  <2>1. CASE r.cands = q.cands
    <3>1. CandsOK(q, d) = CandsOK(r, d)
      BY <2>1 DEF CandsOK
    <3>2. ChosenOK(q, d) = ChosenOK(r, d)
      BY <2>1, <3>1 DEF ChosenOK
    <3>3. QED
      BY <1>1, <3>1, <3>2 DEF FreshOK
  <2>2. CASE Head(q.todo).do = "pick" /\ CandsOK(r, d)
    <3>1. q.todo[1].do = "pick" /\ Len(q.todo) \in Nat
      BY <2>2, TailFacts
    <3>2. \A k \in 1 .. Len(q.todo) : q.todo[k].do = "build" => ~(k < 3)
      <4> SUFFICES ASSUME NEW k \in 1 .. Len(q.todo), q.todo[k].do = "build", k < 3 PROVE FALSE
        OBVIOUS
      <4>1. k = 1 \/ k = 2
        OBVIOUS
      <4>2. k = 2 => q.todo[1] = Read("secrets")
        BY DEF BuildOK
      <4>3. QED
        BY <3>1, <4>1, <4>2 DEF Read
    <3>3. QED
      BY <1>1, <2>2, <3>2 DEF FreshOK
  <2>3. QED
    BY <2>1, <2>2
<1>4. QED
  BY <1>1, <1>2, <1>3 DEF ServesOK

\* A store is written: what it was read for is read again before it is used.
LEMMA WriteServes ==
  ASSUME NEW q, NEW S, q.todo \in Seq(S), q.todo # << >>, NEW d, ServesOK(q, d), Head(q.todo).do = "write",
         NEW r, ReqFields \subseteq DOMAIN r, r.op = q.op, r.todo = q.todo, r.first = q.first, r.served = q.served,
         NEW d2
  PROVE  ServesOK(Advance(r), d2)
<1> DEFINE a == Advance(r)
<1>1. a.todo = Tail(q.todo) /\ a.op = q.op /\ a.first = q.first /\ a.served = q.served
  BY AdvanceFields, ServedFields
<1> HIDE DEF a
<1> SUFFICES ASSUME Serving(q.op) PROVE ServesOK(a, d2)
  BY <1>1 DEF ServesOK, a
<1>2. Servable(q.todo, q.op) /\ ServedOK(q, d) /\ (q.op.do = "discover" => q.first = None)
  BY DEF ServesOK
<1>3. Servable(a.todo, a.op) /\ Afresh(a.todo, 0)
  BY <1>1, <1>2, ServableTail
<1>4. a.todo \in Seq(S)
  BY <1>1, TailFacts
<1>5. FreshOK(a, d2)
  BY <1>3, <1>4, FreshAnew
<1>6. a.served = None
  <2>1. q.todo[1].do = "write" /\ 1 \in 1 .. Len(q.todo)
    BY TailFacts
  <2>2. QED
    BY <1>1, <1>2, <2>1 DEF ServedOK
<1>7. QED
  BY <1>1, <1>2, <1>3, <1>5, <1>6 DEF ServesOK, ServedOK

\* A step is taken: it reads what the file holds, or finds what the files say.
LEMMA AdvanceServes ==
  ASSUME NEW q, NEW S, q.todo \in Seq(S), q.todo # << >>, NEW d, ServesOK(q, d),
         NEW ops, NEW pub, NEW gn, BuildOK(q, ops, pub, gn),
         NEW r, ReqFields \subseteq DOMAIN r, r.op = q.op, r.todo = q.todo,
         Serving(q.op) =>
            /\ \A x \in InputStores : r.seen[x] = IF Head(q.todo) = Read(x) THEN d[x] ELSE q.seen[x]
            /\ IF Head(q.todo).do = "candidates" THEN CandsOK(r, d) ELSE r.cands = q.cands
            /\ Head(q.todo).do = "pick" => ChosenOK(r, d)
            /\ IF Head(q.todo).do = "slots" THEN r.first = d.providers.recs ELSE r.first = q.first
            /\ r.served = q.served \/ (Head(q.todo).do \in {"build", "route", "call"} /\ RightIn(r, d))
  PROVE  ServesOK(Advance(r), d)
<1> DEFINE a == Advance(r)
           p == q.todo
           t == Tail(q.todo)
<1>1. /\ a.todo = t /\ a.op = q.op /\ a.first = r.first /\ a.served = r.served /\ a.cands = r.cands
      /\ a.seen = r.seen
  BY AdvanceFields, ServedFields
<1> HIDE DEF a
<1> SUFFICES ASSUME Serving(q.op) PROVE ServesOK(a, d)
  BY <1>1 DEF ServesOK, a
<1>2. Servable(p, q.op) /\ FreshOK(q, d) /\ ServedOK(q, d) /\ (q.op.do = "discover" => q.first = None)
  BY DEF ServesOK
<1>3. /\ Len(p) \in Nat /\ Len(p) > 0 /\ Len(t) = Len(p) - 1 /\ Head(p) = p[1]
      /\ \A n \in 1 .. Len(t) : t[n] = p[n + 1] /\ n + 1 \in 1 .. Len(p)
  BY TailFacts
<1>4. /\ Servable(t, q.op) /\ Head(p).do \in ServingSteps(q.op)
      /\ Head(p).do \in {"build", "route", "call"} => \A n \in 1 .. Len(t) : t[n].do = "remember"
  BY <1>2, ServableTail
<1>5. /\ \A x \in InputStores : r.seen[x] = IF p[1] = Read(x) THEN d[x] ELSE q.seen[x]
      /\ IF p[1].do = "candidates" THEN CandsOK(r, d) ELSE r.cands = q.cands
      /\ p[1].do = "pick" => ChosenOK(r, d)
      /\ IF p[1].do = "slots" THEN r.first = d.providers.recs ELSE r.first = q.first
      /\ r.served = q.served \/ (p[1].do \in {"build", "route", "call"} /\ RightIn(r, d))
  BY <1>3
<1> HIDE DEF p, t
<1>6. (CandsOK(r, d) => CandsOK(a, d)) /\ (ChosenOK(r, d) => ChosenOK(a, d))
      /\ (r.cands = q.cands /\ CandsOK(q, d) => CandsOK(a, d))
      /\ (r.cands = q.cands /\ ChosenOK(q, d) => ChosenOK(a, d))
  BY <1>1 DEF ChosenOK, CandsOK
<1>7. \A do : Inputs(do) \subseteq InputStores
  BY DEF Inputs, InputStores
<1>8. ASSUME NEW k \in 1 .. Len(t)
      PROVE  /\ \A x \in Inputs(t[k].do) : a.seen[x] = d[x] \/ \E m \in 1 .. k - 1 : t[m] = Read(x)
             /\ t[k].do = "pick" => CandsOK(a, d) \/ \E m \in 1 .. k - 1 : t[m].do = "candidates"
             /\ t[k].do = "route" => a.first = d.providers.recs \/ \E m \in 1 .. k - 1 : t[m].do = "slots"
             /\ t[k].do = "build" /\ k < 3 => ChosenOK(a, d)
  <2>1. k + 1 \in 1 .. Len(p) /\ t[k] = p[k + 1] /\ (k + 1) - 1 = k /\ k \in Nat /\ k > 0
    BY <1>3
  <2>2. /\ \A x \in Inputs(t[k].do) : q.seen[x] = d[x] \/ \E m \in 1 .. k : p[m] = Read(x)
        /\ t[k].do = "pick" => CandsOK(q, d) \/ \E m \in 1 .. k : p[m].do = "candidates"
        /\ t[k].do = "route" => q.first = d.providers.recs \/ \E m \in 1 .. k : p[m].do = "slots"
        /\ t[k].do = "build" /\ k + 1 < 3 => ChosenOK(q, d)
    BY <1>2, <2>1 DEF FreshOK, p
  <2>3. ASSUME NEW m \in 1 .. k PROVE m = 1 \/ (m - 1 \in 1 .. k - 1 /\ t[m - 1] = p[m])
    <3>1. m # 1 => m - 1 \in 1 .. k - 1 /\ m - 1 \in 1 .. Len(t) /\ (m - 1) + 1 = m
      BY <1>3, <2>1
    <3>2. QED
      BY <1>3, <3>1
  <2>4. ASSUME NEW x \in Inputs(t[k].do) PROVE a.seen[x] = d[x] \/ \E m \in 1 .. k - 1 : t[m] = Read(x)
    <3>1. x \in InputStores
      BY <1>7
    <3>2. a.seen[x] = IF p[1] = Read(x) THEN d[x] ELSE q.seen[x]
      BY <1>1, <1>5, <3>1
    <3>3. QED
      BY <2>2, <2>3, <3>2
  <2>5. t[k].do = "pick" => CandsOK(a, d) \/ \E m \in 1 .. k - 1 : t[m].do = "candidates"
    BY <1>5, <1>6, <2>2, <2>3
  <2>6. t[k].do = "route" => a.first = d.providers.recs \/ \E m \in 1 .. k - 1 : t[m].do = "slots"
    BY <1>1, <1>5, <2>2, <2>3
  <2>7. ASSUME t[k].do = "build", k < 3 PROVE ChosenOK(a, d)
    <3>1. /\ p[k + 1].do = "build" /\ (k + 1 > 1 => p[(k + 1) - 1] = Read("secrets"))
          /\ (k + 1 > 2 => p[(k + 1) - 2].do = "pick")
      BY <2>1, <2>7 DEF BuildOK, p
    <3>2. CASE k = 1
      <4>1. p[1].do = "read"
        BY <3>1, <3>2 DEF Read
      <4>2. QED
        BY <1>5, <1>6, <2>2, <2>7, <3>2, <4>1
    <3>3. CASE k = 2
      <4>1. p[1].do = "pick"
        BY <3>1, <3>3
      <4>2. QED
        BY <1>5, <1>6, <4>1
    <3>4. QED
      BY <2>1, <2>7, <3>2, <3>3
  <2>8. QED
    BY <2>4, <2>5, <2>6, <2>7
<1>9. FreshOK(a, d)
  BY <1>1, <1>8 DEF FreshOK
<1>10. ServedOK(a, d)
  <2>1. CASE r.served = q.served
    <3>1. q.served # None => RightIn(q, d) /\ \A n \in 1 .. Len(p) : p[n].do = "remember"
      BY <1>2 DEF ServedOK, p
    <3>2. RightIn(q, d) => RightIn(a, d)
      BY <1>1, <2>1 DEF RightIn
    <3>3. QED
      BY <1>1, <1>3, <2>1, <3>1, <3>2 DEF ServedOK
  <2>2. CASE p[1].do \in {"build", "route", "call"} /\ RightIn(r, d)
    <3>1. RightIn(a, d)
      BY <1>1, <2>2 DEF RightIn
    <3>2. QED
      BY <1>1, <1>3, <1>4, <2>2, <3>1 DEF ServedOK
  <2>3. QED
    BY <1>5, <2>1, <2>2
<1>11. q.op.do = "discover" => a.first = None
  <2>1. q.op.do = "discover" => ServingSteps(q.op) = {"read", "need", "call", "remember"}
    BY DEF ServingSteps, MemoryServing, RouterServing
  <2>2. QED
    BY <1>1, <1>2, <1>3, <1>4, <1>5, <2>1
<1>12. QED
  BY <1>1, <1>2, <1>4, <1>9, <1>10, <1>11 DEF ServesOK

\* A provider that cannot be built gives way to the next candidate.
LEMMA RebuildServes ==
  ASSUME NEW q, NEW S, q.todo \in Seq(S), Len(q.todo) = 1, Head(q.todo).do = "build", NEW d, ServesOK(q, d),
         NEW r, r.op = q.op, r.todo = <<Do("pick"), Read("secrets")>> \o q.todo, r.seen = q.seen,
         r.first = q.first, r.served = q.served, Serving(q.op) => CandsOK(r, d)
  PROVE  ServesOK(r, d)
<1> DEFINE a == <<Do("pick"), Read("secrets")>>
           b == q.todo[1]
<1> SUFFICES ASSUME Serving(q.op) PROVE ServesOK(r, d)
  BY DEF ServesOK
<1>1. q.todo # << >>
  OBVIOUS
<1>2. Head(q.todo) = b /\ b.do = "build"
  BY <1>1, TailFacts
<1>3. Servable(q.todo, q.op) /\ FreshOK(q, d) /\ ServedOK(q, d) /\ (q.op.do = "discover" => q.first = None)
  BY DEF ServesOK
<1>4. Do("pick").do = "pick" /\ Read("secrets").do = "read"
  BY DEF Do, Read
<1>5. Len(r.todo) = 3 /\ r.todo[1] = Do("pick") /\ r.todo[2] = Read("secrets") /\ r.todo[3] = b
  <2> DEFINE T == S \cup {Do("pick"), Read("secrets")}
  <2>1. a \in Seq(T) /\ Len(a) = 2 /\ a[1] = Do("pick") /\ a[2] = Read("secrets")
    OBVIOUS
  <2>2. q.todo \in Seq(T)
    OBVIOUS
  <2> HIDE DEF a, T
  <2>3. r.todo = a \o q.todo
    BY DEF a
  <2>4. QED
    BY <2>1, <2>2, <2>3, ConcatIndex
<1> HIDE DEF b
<1>6. \A n \in 1 .. Len(r.todo) : n = 1 \/ n = 2 \/ n = 3
  BY <1>5
<1>7. /\ Inputs("read") = {} /\ Inputs("pick") = {"memoryAssignments", "memory"}
      /\ Inputs("build") = {"memoryAssignments", "memory", "secrets"}
  BY DEF Inputs
<1>8. b.do \in ServingSteps(q.op) /\ 1 \in 1 .. Len(q.todo)
  <2>1. Head(q.todo).do \in ServingSteps(q.op)
    BY <1>1, <1>3, ServableTail
  <2>2. QED
    BY <1>2, <2>1
<1>9. ServingSteps(q.op) = {"read", "need", "write", "clearCaches", "candidates", "pick", "build"}
  BY <1>2, <1>8 DEF ServingSteps, MemoryServing, RouterServing
<1>10. Servable(r.todo, r.op)
  <2>1. \A n \in 1 .. Len(r.todo) : r.todo[n].do \in {"pick", "read", "build"} /\ (r.todo[n].do = "build" => n = 3)
    BY <1>2, <1>4, <1>5, <1>6
  <2>2. QED
    BY <1>5, <1>9, <2>1 DEF Servable
<1>11. \A x \in Inputs("build") : q.seen[x] = d[x] \/ \E m \in 1 .. 1 - 1 : q.todo[m] = Read(x)
  BY <1>2, <1>3, <1>8 DEF FreshOK, b
<1>12. \A x \in Inputs("build") : r.seen[x] = d[x]
  BY <1>11
<1>13. FreshOK(r, d)
  BY <1>2, <1>4, <1>5, <1>6, <1>7, <1>12 DEF FreshOK
<1>14. r.served = None
  BY <1>2, <1>3, <1>8 DEF ServedOK, b
<1>15. QED
  BY <1>3, <1>10, <1>13, <1>14 DEF ServesOK, ServedOK

(***************************************************************************)
(* The provider the files name.                                            *)
(***************************************************************************)
\* Every list of candidates but the empty one ends with the local store.
LEMMA RefsFacts ==
  ASSUME NEW d, NEW scope
  PROVE  LET refs == RefsIn(d, scope)
         IN  /\ \E S : refs \in Seq(S)
             /\ Len(refs) \in Nat
             /\ refs # << >> => Len(refs) \in 1 .. Len(refs) /\ refs[Len(refs)] = "local"
<1> DEFINE a == selectMemoryAssignmentForRole(d.memoryAssignments, "semanticMemory", scope)
           refs == RefsIn(d, scope)
<1>1. refs = MemoryCandidates(a, d.memory.active)
  BY DEF RefsIn
<1> HIDE DEF a, refs
<1>2. \/ refs = << >>
      \/ refs = <<a.provider, "local">>
      \/ refs = <<a.provider, a.fallback, "local">>
      \/ refs = <<d.memory.active, "local">>
      \/ refs = <<"local">>
  BY <1>1 DEF MemoryCandidates
<1> DEFINE Sound(p) == /\ \E S : p \in Seq(S)
                       /\ Len(p) \in Nat
                       /\ p # << >> => Len(p) \in 1 .. Len(p) /\ p[Len(p)] = "local"
<1>3. Sound(<< >>)
  <2>1. << >> \in Seq({"local"}) /\ Len(<< >>) = 0
    OBVIOUS
  <2>2. QED
    BY <2>1
<1>4. ASSUME NEW x PROVE Sound(<<x, "local">>)
  <2> DEFINE p == <<x, "local">>
  <2>1. p \in Seq({x, "local"}) /\ Len(p) = 2 /\ p[2] = "local"
    OBVIOUS
  <2> HIDE DEF p
  <2>2. Sound(p)
    BY <2>1
  <2>3. QED
    BY <2>2 DEF p
<1>5. ASSUME NEW x, NEW y PROVE Sound(<<x, y, "local">>)
  <2> DEFINE p == <<x, y, "local">>
  <2>1. p \in Seq({x, y, "local"}) /\ Len(p) = 3 /\ p[3] = "local"
    OBVIOUS
  <2> HIDE DEF p
  <2>2. Sound(p)
    BY <2>1
  <2>3. QED
    BY <2>2 DEF p
<1>6. Sound(<<"local">>)
  <2> DEFINE p == <<"local">>
  <2>1. p \in Seq({"local"}) /\ Len(p) = 1 /\ p[1] = "local"
    OBVIOUS
  <2> HIDE DEF p
  <2>2. Sound(p)
    BY <2>1
  <2>3. QED
    BY <2>2 DEF p
<1> HIDE DEF Sound
<1>7. Sound(refs)
  BY <1>2, <1>3, <1>4, <1>5, <1>6
<1>8. QED
  BY <1>7 DEF Sound, refs

\* The candidates are all there at first.
LEMMA CandsStart ==
  ASSUME NEW r, NEW d, r.cands = RefsIn(d, r.op.scope)
  PROVE  CandsOK(r, d)
<1> DEFINE refs == RefsIn(d, r.op.scope)
<1>1. Len(refs) \in Nat /\ \E S : refs \in Seq(S)
  BY RefsFacts
<1> HIDE DEF refs
<1>2. SubSeq(refs, 0 + 1, Len(refs)) = refs
  BY <1>1, SubSeqFull
<1>3. 0 \in 0 .. Len(refs) /\ \A m \in 1 .. 0 : ~FitIn(d, refs[m])
  BY <1>1
<1>4. QED
  BY <1>2, <1>3 DEF CandsOK, refs

\* The first of them that fits serves; one that does not gives way to the next.
LEMMA CandsFacts ==
  ASSUME NEW q, NEW d, CandsOK(q, d)
  PROVE  /\ q.cands = << >> => ExpectedIn(d, q.op.scope) = NoMemory
         /\ q.cands # << >> /\ FitIn(d, Head(q.cands)) =>
                ExpectedIn(d, q.op.scope) =
                    IF Head(q.cands) = "local" THEN LocalProvider
                    ELSE buildMemoryProviderFromRecord(Rec(d.memory.recs, Head(q.cands)), d.secrets[Head(q.cands)])
                            .provider
         /\ q.cands # << >> /\ ~FitIn(d, Head(q.cands)) =>
                \A r : r.op = q.op /\ r.cands = Tail(q.cands) => CandsOK(r, d)
<1> DEFINE scope == q.op.scope
           refs == RefsIn(d, scope)
           z == Len(refs)
<1>1. /\ z \in Nat /\ \E S : refs \in Seq(S)
      /\ refs # << >> => z \in 1 .. z /\ refs[z] = "local"
  BY RefsFacts
<1>2. PICK k \in 0 .. z : q.cands = SubSeq(refs, k + 1, z) /\ \A m \in 1 .. k : ~FitIn(d, refs[m])
  BY DEF CandsOK
<1> HIDE DEF refs, z, scope
<1>3. CASE k = z
  <2>1. q.cands = << >>
    BY <1>1, <1>2, <1>3, SubSeqEmpty
  <2>2. FitIn(d, "local")
    BY DEF FitIn
  <2>3. refs = << >>
    BY <1>1, <1>2, <1>3, <2>2
  <2>4. ExpectedIn(d, scope) = NoMemory
    BY <2>3 DEF ExpectedIn, refs
  <2>5. QED
    BY <2>1, <2>4 DEF scope
<1>4. CASE k # z
  <2> DEFINE j == k + 1
  <2>1. j \in 1 .. z /\ z \in j .. z /\ k \in Nat /\ j \in Nat
    BY <1>1, <1>4
  <2>2. /\ Head(q.cands) = refs[j] /\ Tail(q.cands) = SubSeq(refs, j + 1, z)
        /\ q.cands # << >>
    <3>1. PICK S : refs \in Seq(S)
      BY <1>1
    <3>2. j \in 1 .. Len(refs) /\ z \in j .. Len(refs)
      BY <2>1 DEF z
    <3>0. j = k + 1
      OBVIOUS
    <3> HIDE DEF j
    <3>3. Head(SubSeq(refs, j, z)) = refs[j] /\ Tail(SubSeq(refs, j, z)) = SubSeq(refs, j + 1, z)
      BY <3>1, <3>2, HeadTailOfSubSeq
    <3>4. \A n \in j .. z : refs[n] \in S
      BY <3>1, <2>1 DEF z
    <3>5. SubSeq(refs, j, z) \in Seq(S) /\ Len(SubSeq(refs, j, z)) = z - j + 1
      BY <2>1, <3>4, SubSeqProperties
    <3>6. SubSeq(refs, j, z) # << >>
      <4>1. z - j + 1 # 0 /\ Len(<< >>) = 0
        BY <2>1
      <4>2. Len(SubSeq(refs, j, z)) # Len(<< >>)
        BY <2>1, <3>5, <4>1
      <4>3. QED
        BY <4>2
    <3>7. QED
      BY <1>2, <3>0, <3>3, <3>6
  <2>3. \A m \in 1 .. j - 1 : ~FitIn(d, refs[m])
    BY <1>2, <2>1
  <2>4. ASSUME FitIn(d, refs[j])
        PROVE  ExpectedIn(d, scope) =
                    IF refs[j] = "local" THEN LocalProvider
                    ELSE buildMemoryProviderFromRecord(Rec(d.memory.recs, refs[j]), d.secrets[refs[j]]).provider
    <3> DEFINE Fits(n) == FitIn(d, refs[n]) /\ \A m \in 1 .. n - 1 : ~FitIn(d, refs[m])
               n == CHOOSE n \in 1 .. z : Fits(n)
    <3>1. Fits(j)
      BY <2>3, <2>4
    <3>2. \A m \in 1 .. z : Fits(m) => m = j
      <4> SUFFICES ASSUME NEW m \in 1 .. z, Fits(m), m # j PROVE FALSE
        OBVIOUS
      <4>1. m \in 1 .. j - 1 \/ j \in 1 .. m - 1
        BY <2>1
      <4> HIDE DEF j
      <4>2. QED
        BY <2>3, <2>4, <4>1
    <3> HIDE DEF j, Fits
    <3>3. n = j
      BY <2>1, <3>1, <3>2
    <3>4. refs # << >>
      BY <2>1 DEF z
    <3>5. ExpectedIn(d, scope) =
              CASE refs = << >> -> NoMemory
                [] refs # << >> /\ refs[n] = "local" -> LocalProvider
                [] refs # << >> /\ refs[n] # "local" ->
                      buildMemoryProviderFromRecord(Rec(d.memory.recs, refs[n]), d.secrets[refs[n]]).provider
      BY Zenon DEF ExpectedIn, refs, z, Fits
    <3> HIDE DEF n
    <3>6. QED
      BY <3>3, <3>4, <3>5
  <2>5. ASSUME ~FitIn(d, refs[j]), NEW r, r.op = q.op, r.cands = Tail(q.cands) PROVE CandsOK(r, d)
    <3>1. j \in 0 .. z /\ \A m \in 1 .. j : ~FitIn(d, refs[m])
      <4>1. \A m \in 1 .. j : m = j \/ m \in 1 .. j - 1
        BY <2>1
      <4> HIDE DEF j
      <4>2. QED
        BY <2>1, <2>3, <2>5, <4>1
    <3>2. r.cands = SubSeq(refs, j + 1, z)
      BY <2>2, <2>5
    <3> HIDE DEF j
    <3>3. QED
      BY <2>5, <3>1, <3>2 DEF CandsOK, refs, z, scope
  <2> HIDE DEF j
  <2>6. QED
    BY <2>2, <2>4, <2>5 DEF scope
<1>5. QED
  BY <1>3, <1>4

(***************************************************************************)
(* One request moves while no other is there.                              *)
(***************************************************************************)
\* What is known of the only request.
LEMMA CalmFacts ==
  ASSUME SettingsInv, CalmInv, calm, NEW s \in Slots, Busy(req[s])
  PROVE  /\ ServesOK(req[s], disk) /\ SnapRight(req[s], disk) /\ Dropping(req[s].todo, req[s].op)
         /\ CacheRight(disk, built) \/ Owes(req[s])
         /\ \A t \in Slots \ {s} : req[t] = Idle
<1>1. req[s] # Idle
  BY DEF Busy, Idle
<1>2. QED
  BY <1>1 DEF CalmInv

\* A request that owes the dropping of the cache refuses nothing any more.
LEMMA OwesFacts ==
  ASSUME NEW q, NEW S, q.todo \in Seq(S), q.todo # << >>, Dropping(q.todo, q.op), Owes(q)
  PROVE  /\ Head(q.todo).do \in {"read", "write", "clearCaches"}
         /\ Head(q.todo).do = "write" => Head(q.todo).store # "modules"
         /\ \A r : r.op = q.op /\ r.todo = Tail(q.todo) /\ Head(q.todo).do # "clearCaches" => Owes(r)
<1> DEFINE p == q.todo
           t == Tail(q.todo)
<1>1. /\ Len(p) \in Nat /\ Len(p) > 0 /\ Len(t) = Len(p) - 1 /\ Head(p) = p[1] /\ 1 \in 1 .. Len(p)
      /\ \A n \in 1 .. Len(t) : t[n] = p[n + 1] /\ n + 1 \in 1 .. Len(p)
  BY TailFacts
<1>2. /\ q.op.do \in MemoryRoutes /\ NoNeeds(p)
      /\ p[1].do \in {"read", "need", "write", "clearCaches"} /\ (p[1].do = "write" => p[1].store # "modules")
  BY <1>1 DEF Owes, Dropping
<1>3. PICK n \in 1 .. Len(p) : p[n].do = "clearCaches"
  BY DEF Owes
<1> HIDE DEF p, t
<1>4. p[1].do # "need"
  BY <1>1, <1>2 DEF NoNeeds
<1>5. NoNeeds(t)
  BY <1>1, <1>2 DEF NoNeeds
<1>6. p[1].do # "clearCaches" => \E m \in 1 .. Len(t) : t[m].do = "clearCaches"
  <2>1. n # 1 => n - 1 \in 1 .. Len(t) /\ (n - 1) + 1 = n
    BY <1>1
  <2>2. QED
    BY <1>1, <1>3, <2>1
<1>7. QED
  BY <1>1, <1>2, <1>4, <1>5, <1>6 DEF Owes, p, t

\* The only request moves.
LEMMA CalmMove ==
  ASSUME SettingsInv, CalmInv, NEW s \in Slots, Busy(req[s]), NEW r, ReqFields \subseteq DOMAIN r,
         req' = [req EXCEPT ![s] = r], calm' => calm,
         calm' => /\ ServesOK(r, disk') /\ SnapRight(r, disk') /\ Dropping(r.todo, r.op)
                  /\ CacheRight(disk', built') \/ Owes(r)
  PROVE  CalmInv'
<1> SUFFICES ASSUME calm' PROVE CalmInv'
  BY DEF CalmInv
<1>1. \A t \in Slots \ {s} : req[t] = Idle
  BY CalmFacts
<1>2. DOMAIN req = Slots
  BY DEF SettingsInv
<1>3. req'[s] = r /\ \A t \in Slots \ {s} : req'[t] = Idle
  BY <1>1, <1>2
<1>4. r # Idle
  <2>1. DOMAIN Idle = {"op"} /\ "todo" \in DOMAIN r
    BY DEF Idle, ReqFields
  <2>2. QED
    BY <2>1
<1>5. QED
  BY <1>3, <1>4 DEF CalmInv

\* It takes a step that changes no file and not the provider cache.
LEMMA CalmAdvance ==
  ASSUME SettingsInv, CalmInv, NEW s \in Slots, Busy(req[s]), Head(req[s].todo).do # "write",
         NEW r, ReqFields \subseteq DOMAIN r, r.op = req[s].op, r.todo = req[s].todo,
         calm /\ Serving(req[s].op) =>
            /\ \A x \in InputStores : r.seen[x] = IF Head(req[s].todo) = Read(x) THEN disk[x] ELSE req[s].seen[x]
            /\ IF Head(req[s].todo).do = "candidates" THEN CandsOK(r, disk) ELSE r.cands = req[s].cands
            /\ Head(req[s].todo).do = "pick" => ChosenOK(r, disk)
            /\ IF Head(req[s].todo).do = "slots" THEN r.first = disk.providers.recs ELSE r.first = req[s].first
            /\ r.served = req[s].served
               \/ (Head(req[s].todo).do \in {"build", "route", "call"} /\ RightIn(r, disk)),
         req' = [req EXCEPT ![s] = Advance(r)], UNCHANGED <<disk, calm>>,
         calm => CacheRight(disk, built') \/ (UNCHANGED built /\ Head(req[s].todo).do # "clearCaches")
  PROVE  CalmInv'
<1> DEFINE q == req[s]
           a == Advance(r)
<1>1. RequestOK(q, Mixes[mix], published, gone) /\ q.todo # << >>
  BY BusyFacts
<1>2. q.todo \in Seq(Steps(q.op)) /\ BuildOK(q, Mixes[mix], published, gone)
  BY <1>1 DEF RequestOK
<1>3. ReqFields \subseteq DOMAIN a /\ a.op = q.op /\ a.todo = Tail(q.todo) /\ a.snap = None
  BY AdvanceFields
<1>4. ASSUME calm PROVE ServesOK(a, disk) /\ Dropping(a.todo, a.op) /\ (CacheRight(disk, built') \/ Owes(a))
  <2>1. ServesOK(q, disk) /\ Dropping(q.todo, q.op) /\ (CacheRight(disk, built) \/ Owes(q))
    BY <1>4, CalmFacts
  <2>2. ServesOK(a, disk)
    <3> HIDE DEF q
    <3>1. Serving(q.op) =>
            /\ \A x \in InputStores : r.seen[x] = IF Head(q.todo) = Read(x) THEN disk[x] ELSE q.seen[x]
            /\ IF Head(q.todo).do = "candidates" THEN CandsOK(r, disk) ELSE r.cands = q.cands
            /\ Head(q.todo).do = "pick" => ChosenOK(r, disk)
            /\ IF Head(q.todo).do = "slots" THEN r.first = disk.providers.recs ELSE r.first = q.first
            /\ r.served = q.served \/ (Head(q.todo).do \in {"build", "route", "call"} /\ RightIn(r, disk))
      BY <1>4 DEF q
    <3>2. Head(q.todo).do # "write" /\ r.op = q.op /\ r.todo = q.todo
      BY DEF q
    <3>3. QED
      BY <1>1, <1>2, <2>1, <3>1, <3>2, AdvanceServes
  <2>3. Dropping(a.todo, a.op)
    BY <1>1, <1>2, <1>3, <2>1, DroppingTail
  <2>4. Owes(q) /\ Head(q.todo).do # "clearCaches" => Owes(a)
    BY <1>1, <1>2, <1>3, <2>1, OwesFacts
  <2>5. QED
    BY <1>4, <2>1, <2>2, <2>3, <2>4
<1> HIDE DEF a
<1>5. SnapRight(a, disk)
  BY <1>3 DEF SnapRight
<1>6. QED
  BY <1>3, <1>4, <1>5, CalmMove DEF a

\* It ends.
LEMMA CalmEnd ==
  ASSUME SettingsInv, CalmInv, NEW s \in Slots, Busy(req[s]),
         Head(req[s].todo).do \notin {"read", "clearCaches"},
         Head(req[s].todo).do = "write" => Head(req[s].todo).store = "modules",
         NEW r, ReqFields \subseteq DOMAIN r, r.op = req[s].op, r.first = req[s].first,
         calm /\ Serving(req[s].op) => r.served = req[s].served \/ RightIn(r, disk),
         NEW code, req' = [req EXCEPT ![s] = End(r, code)], UNCHANGED <<disk, built, calm>>
  PROVE  CalmInv'
<1> DEFINE q == req[s]
           e == End(r, code)
<1>1. RequestOK(q, Mixes[mix], published, gone) /\ q.todo # << >>
  BY BusyFacts
<1>2. q.todo \in Seq(Steps(q.op))
  BY <1>1 DEF RequestOK
<1>3. ReqFields \subseteq DOMAIN e /\ e.op = q.op /\ e.todo = << >> /\ e.snap = None
  BY EndFields
<1>4. ASSUME calm PROVE ServesOK(e, disk) /\ Dropping(e.todo, e.op) /\ (CacheRight(disk, built) \/ Owes(e))
  <2>1. ServesOK(q, disk) /\ Dropping(q.todo, q.op) /\ (CacheRight(disk, built) \/ Owes(q))
    BY <1>4, CalmFacts
  <2>2. Serving(q.op) => r.served = None \/ RightIn(r, disk)
    BY <1>4, <2>1 DEF ServesOK, ServedOK, RightIn
  <2>3. ServesOK(e, disk)
    BY <2>1, <2>2, EndServes
  <2>4. Dropping(e.todo, e.op)
    BY <1>3 DEF Dropping
  <2>5. ~Owes(q)
    BY <1>1, <1>2, <2>1, OwesFacts
  <2>6. QED
    BY <2>1, <2>3, <2>4, <2>5
<1> HIDE DEF e
<1>5. SnapRight(e, disk)
  BY <1>3 DEF SnapRight
<1>6. QED
  BY <1>3, <1>4, <1>5, CalmMove DEF e

\* It changes without taking its step.
LEMMA CalmSame ==
  ASSUME SettingsInv, CalmInv, NEW s \in Slots, Busy(req[s]),
         NEW r, ReqFields \subseteq DOMAIN r, r.op = req[s].op, r.todo = req[s].todo, r.seen = req[s].seen,
         r.first = req[s].first, r.served = req[s].served,
         r.snap = req[s].snap \/ (Head(req[s].todo).store = "secrets" => r.snap = disk.secrets),
         calm /\ Serving(req[s].op) =>
            r.cands = req[s].cands \/ (Head(req[s].todo).do = "pick" /\ CandsOK(r, disk)),
         req' = [req EXCEPT ![s] = r], UNCHANGED <<disk, built, calm>>
  PROVE  CalmInv'
<1> DEFINE q == req[s]
<1>1. RequestOK(q, Mixes[mix], published, gone) /\ q.todo # << >>
  BY BusyFacts
<1>2. q.todo \in Seq(Steps(q.op)) /\ BuildOK(q, Mixes[mix], published, gone)
  BY <1>1 DEF RequestOK
<1>3. ASSUME calm PROVE ServesOK(r, disk) /\ Dropping(r.todo, r.op) /\ (CacheRight(disk, built) \/ Owes(r))
  <2>1. ServesOK(q, disk) /\ Dropping(q.todo, q.op) /\ (CacheRight(disk, built) \/ Owes(q))
    BY <1>3, CalmFacts
  <2>2. ServesOK(r, disk)
    <3> HIDE DEF q
    <3>1. /\ r.op = q.op /\ r.todo = q.todo /\ r.seen = q.seen /\ r.first = q.first /\ r.served = q.served
          /\ Serving(q.op) => r.cands = q.cands \/ (Head(q.todo).do = "pick" /\ CandsOK(r, disk))
      BY <1>3 DEF q
    <3>2. QED
      BY <1>1, <1>2, <2>1, <3>1, SameServes
  <2>3. Owes(q) => Owes(r)
    BY DEF Owes
  <2>4. QED
    BY <2>1, <2>2, <2>3
<1>4. calm => SnapRight(r, disk)
  <2>1. calm => SnapRight(q, disk)
    BY CalmFacts
  <2> HIDE DEF q
  <2>2. r.todo = q.todo /\ (r.snap = q.snap \/ (Head(q.todo).store = "secrets" => r.snap = disk.secrets))
    BY DEF q
  <2>3. QED
    BY <2>1, <2>2 DEF SnapRight
<1>5. QED
  BY <1>3, <1>4, CalmMove

\* A write is over.
LEMMA CalmWrite ==
  ASSUME SettingsInv, CalmInv, NEW s \in Slots, Busy(req[s]), Head(req[s].todo).do = "write",
         NEW r, ReqFields \subseteq DOMAIN r, r.op = req[s].op, r.todo = req[s].todo, r.first = req[s].first,
         r.served = req[s].served, req' = [req EXCEPT ![s] = Advance(r)], UNCHANGED calm,
         calm /\ req[s].op.do \notin MemoryRoutes /\ CacheRight(disk, built) => CacheRight(disk', built')
  PROVE  CalmInv'
<1> DEFINE q == req[s]
           a == Advance(r)
           p == q.todo
           t == Tail(q.todo)
<1>1. RequestOK(q, Mixes[mix], published, gone) /\ p # << >>
  BY BusyFacts
<1>2. p \in Seq(Steps(q.op)) /\ NeedsFirst(p)
  BY <1>1 DEF RequestOK, AnswerOK
<1>3. ReqFields \subseteq DOMAIN a /\ a.op = q.op /\ a.todo = t /\ a.snap = None
  BY AdvanceFields
<1>4. /\ Len(p) \in Nat /\ Len(p) > 0 /\ Len(t) = Len(p) - 1 /\ Head(p) = p[1] /\ 1 \in 1 .. Len(p)
      /\ \A n \in 1 .. Len(t) : t[n] = p[n + 1] /\ n + 1 \in 1 .. Len(p)
  BY <1>1, <1>2, TailFacts
<1>5. ASSUME calm PROVE ServesOK(a, disk') /\ Dropping(a.todo, a.op) /\ (CacheRight(disk', built') \/ Owes(a))
  <2>1. ServesOK(q, disk) /\ Dropping(p, q.op) /\ (CacheRight(disk, built) \/ Owes(q))
    BY <1>5, CalmFacts
  <2>2. ServesOK(a, disk')
    BY <1>1, <1>2, <2>1, WriteServes
  <2>3. Dropping(a.todo, a.op)
    BY <1>1, <1>2, <1>3, <2>1, DroppingTail
  <2>4. CASE q.op.do \notin MemoryRoutes
    <3>1. ~Owes(q)
      BY <2>4 DEF Owes
    <3>2. QED
      BY <1>5, <2>1, <2>2, <2>3, <2>4, <3>1
  <2>5. CASE q.op.do \in MemoryRoutes
    <3> HIDE DEF p, t, a
    <3>1. p[1].do = "write"
      BY <1>4 DEF p
    <3>2. NoNeeds(t)
      <4> SUFFICES ASSUME NEW n \in 1 .. Len(t) PROVE t[n].do # "need"
        BY DEF NoNeeds
      <4>1. n + 1 \in 1 .. Len(p) /\ t[n] = p[n + 1] /\ 1 < n + 1
        BY <1>4
      <4>2. QED
        BY <1>2, <1>4, <3>1, <4>1 DEF NeedsFirst, WritingSteps
    <3>3. PICK m \in 1 + 1 .. Len(p) : p[m].do = "clearCaches"
      BY <1>4, <2>1, <2>5, <3>1 DEF Dropping
    <3>4. m - 1 \in 1 .. Len(t) /\ (m - 1) + 1 = m
      BY <1>4
    <3>5. t[m - 1].do = "clearCaches"
      BY <1>4, <3>3, <3>4
    <3>6. Owes(a)
      BY <1>3, <2>5, <3>2, <3>4, <3>5 DEF Owes
    <3>7. QED
      BY <2>2, <2>3, <3>6
  <2>6. QED
    BY <2>4, <2>5
<1> DEFINE d2 == disk'
<1> HIDE DEF a
<1>6. SnapRight(a, d2)
  BY <1>3 DEF SnapRight
<1>7. QED
  BY <1>3, <1>5, <1>6, CalmMove DEF a, d2

(***************************************************************************)
(* The steps.                                                              *)
(***************************************************************************)
\* What the step of the only request may rely on.
LEMMA ServingHead ==
  ASSUME SettingsInv, CalmInv, calm, NEW s \in Slots, Busy(req[s]), Serving(req[s].op)
  PROVE  /\ Head(req[s].todo).do \in ServingSteps(req[s].op)
         /\ \A x \in Inputs(Head(req[s].todo).do) : req[s].seen[x] = disk[x]
         /\ Head(req[s].todo).do = "pick" => CandsOK(req[s], disk)
         /\ Head(req[s].todo).do = "route" => req[s].first = disk.providers.recs
         /\ Head(req[s].todo).do = "build" => ChosenOK(req[s], disk)
         /\ req[s].op.do = "discover" => req[s].first = None
<1> DEFINE q == req[s]
           p == q.todo
<1>1. RequestOK(q, Mixes[mix], published, gone) /\ p # << >> /\ Head(p) = p[1] /\ 1 \in 1 .. Len(p)
  BY BusyFacts
<1>2. p \in Seq(Steps(q.op))
  BY <1>1 DEF RequestOK
<1>3. Servable(p, q.op) /\ FreshOK(q, disk) /\ (q.op.do = "discover" => q.first = None)
  BY CalmFacts DEF ServesOK
<1>4. Head(p).do \in ServingSteps(q.op)
  BY <1>1, <1>2, <1>3, ServableTail
<1>5. /\ \A x \in Inputs(p[1].do) : q.seen[x] = disk[x] \/ \E m \in 1 .. 1 - 1 : p[m] = Read(x)
      /\ p[1].do = "pick" => CandsOK(q, disk) \/ \E m \in 1 .. 1 - 1 : p[m].do = "candidates"
      /\ p[1].do = "route" => q.first = disk.providers.recs \/ \E m \in 1 .. 1 - 1 : p[m].do = "slots"
      /\ p[1].do = "build" /\ 1 < 3 => ChosenOK(q, disk)
  BY <1>1, <1>3 DEF FreshOK
<1> HIDE DEF q, p
<1>6. /\ \A x \in Inputs(p[1].do) : q.seen[x] = disk[x]
      /\ p[1].do = "pick" => CandsOK(q, disk)
      /\ p[1].do = "route" => q.first = disk.providers.recs
      /\ p[1].do = "build" => ChosenOK(q, disk)
  BY <1>5
<1>7. QED
  BY <1>1, <1>3, <1>4, <1>6 DEF q, p

\* Which of the requests that serve takes which step.
LEMMA ServingKinds ==
  ASSUME NEW op, Serving(op), NEW do \in ServingSteps(op)
  PROVE  /\ do \in {"candidates", "pick", "build"} => op.do \in MemoryServing \ RouterServing /\ op.do # "discover"
         /\ do \in {"slots", "route"} => op.do \in RouterServing \ MemoryServing /\ op.do # "discover"
         /\ do = "call" => op.do = "discover" /\ op.do \notin MemoryServing \cup RouterServing
         /\ do \notin {"lookup", "choose", "registry", "saveDraft"}
<1>1. CASE op.do \in MemoryServing
  <2>1. ServingSteps(op) = {"read", "need", "write", "clearCaches", "candidates", "pick", "build"}
    BY <1>1 DEF ServingSteps, MemoryServing, RouterServing
  <2>2. QED
    BY <1>1, <2>1 DEF MemoryServing, RouterServing
<1>2. CASE op.do \in RouterServing
  <2>1. ServingSteps(op) = {"read", "need", "write", "slots", "route"}
    BY <1>2 DEF ServingSteps, MemoryServing, RouterServing
  <2>2. QED
    BY <1>2, <2>1 DEF MemoryServing, RouterServing
<1>3. CASE op.do = "discover"
  <2>1. ServingSteps(op) = {"read", "need", "call", "remember"}
    BY <1>3 DEF ServingSteps, MemoryServing, RouterServing
  <2>2. QED
    BY <1>3, <2>1 DEF MemoryServing, RouterServing
<1>4. QED
  BY <1>1, <1>2, <1>3 DEF Serving

\* ReadStore: what is read is what the file holds.
LEMMA ReadStoreCalm ==
  ASSUME SettingsInv, CalmInv, NEW s \in Slots, ReadStore(s)
  PROVE  CalmInv'
<1> DEFINE q == req[s]
           store == Instruction(q).store
           r == [q EXCEPT !.seen[store] = Content(store)]
<1>1. Busy(q) /\ Instruction(q).do = "read"
  BY DEF ReadStore, At
<1>2. /\ Instruction(q) = Head(q.todo) /\ Head(q.todo) \in Steps(q.op) /\ DOMAIN q.seen = StoreNames
      /\ ReqFields \subseteq DOMAIN q
  BY <1>1, BusyFacts DEF Like
<1>3. store \in StoreNames /\ Head(q.todo) = Read(store)
  BY <1>1, <1>2 DEF Steps, Read, OwnSteps
<1>4. /\ ReqFields \subseteq DOMAIN r /\ r.op = q.op /\ r.todo = q.todo /\ r.cands = q.cands /\ r.first = q.first
      /\ r.served = q.served /\ r.seen = [q.seen EXCEPT ![store] = Content(store)]
  BY <1>2 DEF ReqFields
<1>5. req' = [req EXCEPT ![s] = Advance(r)] /\ UNCHANGED <<disk, calm, built>>
  BY DEF ReadStore
<1> HIDE DEF r
<1>6. ASSUME NEW x \in InputStores PROVE r.seen[x] = IF Head(q.todo) = Read(x) THEN disk[x] ELSE q.seen[x]
  <2>1. x \in StoreNames /\ x # "modules"
    BY DEF InputStores, StoreNames
  <2>2. Read(store) = Read(x) <=> store = x
    BY DEF Read
  <2>3. Content(x) = disk[x]
    BY <2>1 DEF Content
  <2> HIDE DEF store
  <2>4. QED
    BY <1>2, <1>3, <1>4, <2>1, <2>2, <2>3
<1>7. Head(q.todo).do = "read"
  BY <1>1, <1>2
<1>8. QED
  BY <1>1, <1>4, <1>5, <1>6, <1>7, CalmAdvance

\* Most steps read nothing, pick nothing and find nothing.
LEMMA PlainCalm ==
  ASSUME SettingsInv, CalmInv, NEW s \in Slots, Busy(req[s]),
         Instruction(req[s]).do \notin {"write", "read", "clearCaches"},
         calm /\ Serving(req[s].op) => Instruction(req[s]).do \notin {"candidates", "pick", "slots"},
         NEW r, ReqFields \subseteq DOMAIN r, r.op = req[s].op, r.todo = req[s].todo,
         calm /\ Serving(req[s].op) =>
            /\ r.seen = req[s].seen /\ r.cands = req[s].cands /\ r.first = req[s].first
            /\ r.served = req[s].served \/ (Instruction(req[s]).do \in {"route", "call"} /\ RightIn(r, disk)),
         req' = [req EXCEPT ![s] = Advance(r)], UNCHANGED <<disk, built, calm>>
  PROVE  CalmInv'
<1>1. Instruction(req[s]) = Head(req[s].todo)
  BY BusyFacts
<1>2. \A x : Head(req[s].todo) # Read(x)
  BY <1>1 DEF Read
<1>3. QED
  BY <1>1, <1>2, CalmAdvance

\* CheckRequest.
LEMMA CheckRequestCalm ==
  ASSUME SettingsInv, CalmInv, NEW s \in Slots, CheckRequest(s)
  PROVE  CalmInv'
<1> DEFINE q == req[s]
           i == Instruction(q)
<1>1. Busy(q) /\ i.do = "need" /\ UNCHANGED <<disk, built, calm>>
  BY DEF CheckRequest, At
<1>2. i = Head(q.todo) /\ ReqFields \subseteq DOMAIN q
  BY <1>1, BusyFacts DEF RequestOK
<1>3. CASE Holds(i.test, q)
  <2>1. req' = [req EXCEPT ![s] = Advance(q)]
    BY <1>3 DEF CheckRequest
  <2>2. QED
    BY <1>1, <1>2, <2>1, PlainCalm
<1>4. CASE ~Holds(i.test, q)
  <2>1. req' = [req EXCEPT ![s] = End(q, i.code)]
    BY <1>4 DEF CheckRequest
  <2>2. Head(q.todo).do = "need"
    BY <1>1, <1>2
  <2>3. QED
    BY <1>1, <1>2, <2>1, <2>2, CalmEnd
<1>5. QED
  BY <1>3, <1>4

\* Lookup, CallProvider and Remember: what a refresh shows is the record as it is.
LEMMA DiscoveryCalm ==
  ASSUME SettingsInv, CalmInv, NEW s \in Slots,
         Lookup(s) \/ (\E ok \in BOOLEAN : CallProvider(s, ok)) \/ Remember(s)
  PROVE  CalmInv'
<1> DEFINE q == req[s]
<1>1. Busy(q) /\ Instruction(q).do \in {"lookup", "call", "remember"} /\ UNCHANGED <<disk, built, calm>>
  BY DEF Lookup, CallProvider, Remember, At
<1>2. Instruction(q) = Head(q.todo) /\ ReqFields \subseteq DOMAIN q
  BY <1>1, BusyFacts DEF RequestOK
<1>3. ASSUME calm, Serving(q.op)
      PROVE  /\ Instruction(q).do # "lookup"
             /\ Instruction(q).do = "call" =>
                    /\ q.op.do \notin MemoryServing \cup RouterServing
                    /\ q.first = None /\ q.seen.providers = disk.providers
  <2>1. /\ Head(q.todo).do \in ServingSteps(q.op)
        /\ \A x \in Inputs(Head(q.todo).do) : q.seen[x] = disk[x]
        /\ q.op.do = "discover" => q.first = None
    BY <1>1, <1>3, ServingHead
  <2>2. Inputs("call") = {"providers"}
    BY DEF Inputs
  <2>3. QED
    BY <1>2, <1>3, <2>1, <2>2, ServingKinds
<1>4. CASE Lookup(s)
  <2> DEFINE hit == discovered[q.op.id]
             r == [q EXCEPT !.served = hit]
             code == IF hit.ok THEN 200 ELSE 502
  <2>1. ReqFields \subseteq DOMAIN r /\ r.op = q.op /\ r.first = q.first
    BY <1>2 DEF ReqFields
  <2>2. req' = [req EXCEPT ![s] = IF hit = None THEN Advance(q) ELSE End(r, code)]
    BY <1>4 DEF Lookup
  <2>3. Instruction(q).do = "lookup"
    BY <1>4 DEF Lookup, At
  <2> HIDE DEF r, code
  <2>4. CASE hit = None
    <3>1. req' = [req EXCEPT ![s] = Advance(q)]
      BY <2>2, <2>4
    <3>2. QED
      BY <1>1, <1>2, <2>3, <3>1, PlainCalm
  <2>5. CASE hit # None
    <3>1. req' = [req EXCEPT ![s] = End(r, code)]
      BY <2>2, <2>5
    <3>2. QED
      BY <1>1, <1>2, <1>3, <2>1, <2>3, <3>1, CalmEnd
  <2>6. QED
    BY <2>4, <2>5
<1>5. ASSUME NEW ok \in BOOLEAN, CallProvider(s, ok) PROVE CalmInv'
  <2> DEFINE id == IF q.first = None THEN q.op.id ELSE q.first
             x == [ok |-> ok, at |-> Rec(q.seen.providers.recs, id).at, key |-> q.seen.secrets[id]]
             r == [q EXCEPT !.served = x, !.code = IF ok THEN 200 ELSE 502]
  <2>1. /\ ReqFields \subseteq DOMAIN r /\ r.op = q.op /\ r.todo = q.todo /\ r.seen = q.seen
        /\ r.cands = q.cands /\ r.first = q.first /\ r.served = x
    BY <1>2 DEF ReqFields
  <2>2. req' = [req EXCEPT ![s] = Advance(r)] /\ Instruction(q).do = "call"
    BY <1>5 DEF CallProvider, At
  <2>3. x.at = Rec(q.seen.providers.recs, id).at
    OBVIOUS
  <2> HIDE DEF r, x
  <2>4. calm /\ Serving(q.op) => RightIn(r, disk)
    BY <1>3, <2>1, <2>2, <2>3 DEF RightIn
  <2>5. QED
    BY <1>1, <2>1, <2>2, <2>4, PlainCalm
<1>6. CASE Remember(s)
  <2>1. req' = [req EXCEPT ![s] = Advance(q)] /\ Instruction(q).do = "remember"
    BY <1>6 DEF Remember, At
  <2>2. QED
    BY <1>1, <1>2, <2>1, PlainCalm
<1>7. QED
  BY <1>4, <1>5, <1>6

\* Choose, RememberSlots and Route: what was remembered and read is what the files hold.
LEMMA RouterCalm ==
  ASSUME SettingsInv, CalmInv, NEW s \in Slots, Choose(s) \/ RememberSlots(s) \/ Route(s)
  PROVE  CalmInv'
<1> DEFINE q == req[s]
           First(x) == [q EXCEPT !.first = x]
           Served(x) == [q EXCEPT !.served = x]
<1>1. Busy(q) /\ Instruction(q).do \in {"choose", "slots", "route"} /\ UNCHANGED <<disk, built, calm>>
  BY DEF Choose, RememberSlots, Route, At
<1>2. Instruction(q) = Head(q.todo) /\ ReqFields \subseteq DOMAIN q
  BY <1>1, BusyFacts DEF RequestOK
<1>3. ASSUME NEW x
      PROVE  /\ ReqFields \subseteq DOMAIN First(x) /\ First(x).op = q.op /\ First(x).todo = q.todo
             /\ First(x).seen = q.seen /\ First(x).cands = q.cands /\ First(x).first = x
             /\ First(x).served = q.served
             /\ ReqFields \subseteq DOMAIN Served(x) /\ Served(x).op = q.op /\ Served(x).todo = q.todo
             /\ Served(x).seen = q.seen /\ Served(x).cands = q.cands /\ Served(x).first = q.first
             /\ Served(x).served = x
  BY <1>2 DEF ReqFields
<1> HIDE DEF First, Served
<1>4. ASSUME calm, Serving(q.op)
      PROVE  /\ Instruction(q).do # "choose"
             /\ q.op.do \in RouterServing \ MemoryServing /\ q.op.do # "discover"
             /\ Instruction(q).do = "slots" => q.seen.providers = disk.providers
             /\ Instruction(q).do = "route" =>
                    /\ q.seen.providers = disk.providers /\ q.seen.assignments = disk.assignments
                    /\ q.seen.secrets = disk.secrets /\ q.first = disk.providers.recs
  <2>1. /\ Head(q.todo).do \in ServingSteps(q.op)
        /\ \A x \in Inputs(Head(q.todo).do) : q.seen[x] = disk[x]
        /\ Head(q.todo).do = "route" => q.first = disk.providers.recs
    BY <1>1, <1>4, ServingHead
  <2>2. Inputs("slots") = {"providers"} /\ Inputs("route") = {"assignments", "providers", "secrets"}
    BY DEF Inputs
  <2>3. Head(q.todo).do \in {"slots", "route"} /\ Head(q.todo).do # "choose"
        /\ q.op.do \in RouterServing \ MemoryServing /\ q.op.do # "discover"
    BY <1>1, <1>2, <1>4, <2>1, ServingKinds
  <2>4. QED
    BY <1>2, <2>1, <2>2, <2>3
<1>5. CASE Choose(s)
  <2>1. Instruction(q).do = "choose"
    BY <1>5 DEF Choose, At
  <2>2. PICK x : req' = [req EXCEPT ![s] = End(q, 200)] \/ req' = [req EXCEPT ![s] = Advance(First(x))]
    <3>1. \E x : req' = [req EXCEPT ![s] = End(q, 200)] \/ req' = [req EXCEPT ![s] = Advance(First(x))]
      BY <1>5 DEF Choose, First
    <3>2. QED
      BY <3>1
  <2>3. CASE req' = [req EXCEPT ![s] = End(q, 200)]
    <3>1. Head(q.todo).do = "choose"
      BY <1>2, <2>1
    <3>2. QED
      BY <1>1, <1>2, <2>3, <3>1, CalmEnd
  <2>4. CASE req' = [req EXCEPT ![s] = Advance(First(x))]
    BY <1>1, <1>3, <1>4, <2>1, <2>4, PlainCalm
  <2>5. QED
    BY <2>2, <2>3, <2>4
<1>6. CASE RememberSlots(s)
  <2> DEFINE x == q.seen.providers.recs
             r == First(x)
  <2>1. Head(q.todo).do = "slots" /\ req' = [req EXCEPT ![s] = Advance(r)]
    BY <1>2, <1>6 DEF RememberSlots, At, First
  <2>2. /\ ReqFields \subseteq DOMAIN r /\ r.op = q.op /\ r.todo = q.todo
        /\ r.seen = q.seen /\ r.cands = q.cands /\ r.first = x /\ r.served = q.served
    BY <1>3
  <2> HIDE DEF r
  <2>3. calm /\ Serving(q.op) => r.first = disk.providers.recs
    BY <1>2, <1>4, <2>1, <2>2
  <2>4. \A y : Head(q.todo) # Read(y)
    BY <2>1 DEF Read
  <2>5. QED
    BY <1>1, <2>1, <2>2, <2>3, <2>4, CalmAdvance
<1>7. CASE Route(s)
  <2> DEFINE x == routerSelection(q.seen.assignments, q.first, q.seen.providers.recs, q.seen.secrets,
                                  q.op.role, q.op.scope)
             r == Served(x)
  <2>1. Instruction(q).do = "route" /\ req' = [req EXCEPT ![s] = Advance(r)]
    BY <1>7 DEF Route, At, Served
  <2>2. /\ ReqFields \subseteq DOMAIN r /\ r.op = q.op /\ r.todo = q.todo
        /\ r.seen = q.seen /\ r.cands = q.cands /\ r.first = q.first /\ r.served = x
    BY <1>3
  <2> HIDE DEF r
  <2>3. calm /\ Serving(q.op) => RightIn(r, disk)
    BY <1>4, <2>1, <2>2 DEF RightIn
  <2>4. QED
    BY <1>1, <2>1, <2>2, <2>3, PlainCalm
<1>8. QED
  BY <1>5, <1>6, <1>7

\* SetRegistry and SaveDraft.
LEMMA InMemoryCalm ==
  ASSUME SettingsInv, CalmInv, NEW s \in Slots, SetRegistry(s) \/ SaveDraft(s)
  PROVE  CalmInv'
<1> DEFINE q == req[s]
           Wrote(x) == [q EXCEPT !.wrote = @ \cup {x}]
<1>1. Busy(q) /\ Instruction(q).do \in {"registry", "saveDraft"} /\ UNCHANGED <<disk, built, calm>>
  BY DEF SetRegistry, SaveDraft, At
<1>2. ReqFields \subseteq DOMAIN q
  BY <1>1, BusyFacts DEF RequestOK
<1>3. PICK x \in {"registry", "drafts"} : req' = [req EXCEPT ![s] = Advance(Wrote(x))]
  <2>1. req' = [req EXCEPT ![s] = Advance(Wrote("registry"))] \/ req' = [req EXCEPT ![s] = Advance(Wrote("drafts"))]
    BY DEF SetRegistry, SaveDraft
  <2> HIDE DEF Wrote
  <2>2. QED
    BY <2>1
<1> DEFINE r == Wrote(x)
<1>4. /\ ReqFields \subseteq DOMAIN r /\ r.op = q.op /\ r.todo = q.todo /\ r.seen = q.seen
      /\ r.cands = q.cands /\ r.first = q.first /\ r.served = q.served
  BY <1>2 DEF ReqFields
<1>5. req' = [req EXCEPT ![s] = Advance(r)]
  BY <1>3
<1> HIDE DEF r
<1>6. QED
  BY <1>1, <1>4, <1>5, PlainCalm

\* SettingsDeadline.
LEMMA DeadlineCalm ==
  ASSUME SettingsInv, CalmInv, NEW s \in Slots, SettingsDeadline(s)
  PROVE  CalmInv'
<1> DEFINE q == req[s]
           r == [q EXCEPT !.answer = 504]
<1>1. Busy(q) /\ req' = [req EXCEPT ![s] = r] /\ UNCHANGED <<disk, built, calm>>
  BY DEF SettingsDeadline
<1>2. ReqFields \subseteq DOMAIN q
  BY <1>1, BusyFacts DEF RequestOK
<1>3. /\ ReqFields \subseteq DOMAIN r /\ r.op = q.op /\ r.todo = q.todo /\ r.seen = q.seen
      /\ r.cands = q.cands /\ r.first = q.first /\ r.served = q.served /\ r.snap = q.snap
  BY <1>2 DEF ReqFields
<1> HIDE DEF r
<1>4. QED
  BY <1>1, <1>3, CalmSame

\* Candidates: the list is made of what the files hold.
LEMMA CandidatesCalm ==
  ASSUME SettingsInv, CalmInv, NEW s \in Slots, Candidates(s)
  PROVE  CalmInv'
<1> DEFINE q == req[s]
           x == MemoryCandidates(selectMemoryAssignmentForRole(q.seen.memoryAssignments, "semanticMemory",
                                                               q.op.scope), q.seen.memory.active)
           r == [q EXCEPT !.cands = x]
<1>1. Busy(q) /\ Instruction(q).do = "candidates" /\ UNCHANGED <<disk, built, calm>>
      /\ req' = [req EXCEPT ![s] = Advance(r)]
  BY DEF Candidates, At
<1>2. Instruction(q) = Head(q.todo) /\ ReqFields \subseteq DOMAIN q
  BY <1>1, BusyFacts DEF RequestOK
<1>3. /\ ReqFields \subseteq DOMAIN r /\ r.op = q.op /\ r.todo = q.todo /\ r.seen = q.seen
      /\ r.cands = x /\ r.first = q.first /\ r.served = q.served
  BY <1>2 DEF ReqFields
<1> HIDE DEF r
<1>4. ASSUME calm, Serving(q.op) PROVE CandsOK(r, disk)
  <2>1. \A y \in Inputs(Head(q.todo).do) : q.seen[y] = disk[y]
    BY <1>1, <1>4, ServingHead
  <2>2. Inputs("candidates") = {"memoryAssignments", "memory"}
    BY DEF Inputs
  <2>3. q.seen.memoryAssignments = disk.memoryAssignments /\ q.seen.memory = disk.memory
    BY <1>1, <1>2, <2>1, <2>2
  <2>4. r.cands = RefsIn(disk, r.op.scope)
    BY <1>3, <2>3 DEF RefsIn
  <2>5. QED
    BY <2>4, CandsStart
<1> HIDE DEF x
<1>5. \A y : Head(q.todo) # Read(y)
  BY <1>1, <1>2 DEF Read
<1>6. Head(q.todo).do = "candidates"
  BY <1>1, <1>2
<1>7. QED
  BY <1>1, <1>3, <1>4, <1>5, <1>6, CalmAdvance

\* What a record of the file is built into.
LEMMA BuiltFrom ==
  ASSUME NEW d, NEW id, Rec(d.memory.recs, id) # None
  PROVE  LET rec == Rec(d.memory.recs, id)
             b == buildMemoryProviderFromRecord(rec, d.secrets[id])
         IN  rec.id = id /\ b.provider.id = id /\ b.provider.at = rec.at
             /\ (id # "local" => (FitIn(d, id) <=> b.ok))
<1>1. Rec(d.memory.recs, id).id = id
  BY DEF Rec, findProviderRecord
<1>2. QED
  BY <1>1 DEF buildMemoryProviderFromRecord, FitIn

\* PickMemory: a cached provider is what would be built anew.
LEMMA PickMemoryCalm ==
  ASSUME SettingsInv, CalmInv, NEW s \in Slots, PickMemory(s)
  PROVE  CalmInv'
<1> DEFINE q == req[s]
           id == Head(q.cands)
           rec == Rec(q.seen.memory.recs, id)
           Served(x) == [q EXCEPT !.served = x]
           n == nextCandidate(q)
           code == 200
           Ends(x) == req' = [req EXCEPT ![s] = End(Served(x), code)]
<1>1. Busy(q) /\ Instruction(q).do = "pick" /\ UNCHANGED <<disk, built, calm>>
  BY DEF PickMemory, At
<1>2. Head(q.todo).do = "pick" /\ ReqFields \subseteq DOMAIN q
  BY <1>1, BusyFacts DEF RequestOK
<1>3. \/ q.cands = << >> /\ Ends(NoMemory)
      \/ q.cands # << >> /\ id = "local" /\ Ends(LocalProvider)
      \/ q.cands # << >> /\ id # "local" /\ rec = None /\ req' = [req EXCEPT ![s] = n]
      \/ q.cands # << >> /\ id # "local" /\ rec # None /\ cachedProvider(built, rec) # None
            /\ Ends(cachedProvider(built, rec))
      \/ q.cands # << >> /\ id # "local" /\ rec # None /\ req' = [req EXCEPT ![s] = Advance(q)]
  BY DEF PickMemory
<1>4. ASSUME NEW x
      PROVE  /\ ReqFields \subseteq DOMAIN Served(x) /\ Served(x).op = q.op /\ Served(x).first = q.first
             /\ Served(x).served = x
  BY <1>2 DEF ReqFields
<1>5. /\ ReqFields \subseteq DOMAIN n /\ n.op = q.op /\ n.todo = q.todo /\ n.seen = q.seen /\ n.first = q.first
      /\ n.served = q.served /\ n.snap = q.snap /\ n.cands = Tail(q.cands)
  BY <1>2 DEF nextCandidate, ReqFields
<1> HIDE DEF Served, n, code
<1>6. ASSUME calm, Serving(q.op)
      PROVE  /\ CandsOK(q, disk) /\ q.seen.memory = disk.memory /\ CacheRight(disk, built)
             /\ q.op.do \in MemoryServing \ RouterServing /\ q.op.do # "discover"
  <2>1. /\ Head(q.todo).do \in ServingSteps(q.op)
        /\ \A y \in Inputs(Head(q.todo).do) : q.seen[y] = disk[y]
        /\ Head(q.todo).do = "pick" => CandsOK(q, disk)
    BY <1>1, <1>6, ServingHead
  <2>2. Inputs("pick") = {"memoryAssignments", "memory"}
    BY DEF Inputs
  <2>3. q.op.do \in MemoryServing \ RouterServing /\ q.op.do # "discover"
    BY <1>2, <1>6, <2>1, ServingKinds
  <2>4. ~Owes(q)
    BY <2>3 DEF Owes, MemoryServing, MemoryRoutes
  <2>5. CacheRight(disk, built)
    BY <1>1, <1>6, <2>4, CalmFacts
  <2>6. QED
    BY <1>2, <2>1, <2>2, <2>3, <2>5
<1>7. ASSUME NEW x, Ends(x), calm /\ Serving(q.op) => x = ExpectedIn(disk, q.op.scope) PROVE CalmInv'
  <2> DEFINE r == Served(x)
  <2>1. ReqFields \subseteq DOMAIN r /\ r.op = q.op /\ r.first = q.first /\ r.served = x
    BY <1>4
  <2>2. req' = [req EXCEPT ![s] = End(r, code)]
    BY <1>7
  <2> HIDE DEF r
  <2>3. calm /\ Serving(q.op) => RightIn(r, disk)
    BY <1>6, <1>7, <2>1 DEF RightIn
  <2>4. QED
    BY <1>1, <1>2, <2>1, <2>2, <2>3, CalmEnd
<1> HIDE DEF Ends
<1>8. CASE q.cands = << >> /\ Ends(NoMemory)
  BY <1>6, <1>7, <1>8, CandsFacts
<1>9. CASE q.cands # << >> /\ id = "local" /\ Ends(LocalProvider)
  <2>1. FitIn(disk, id)
    BY <1>9 DEF FitIn
  <2>2. QED
    BY <1>6, <1>7, <1>9, <2>1, CandsFacts
<1>10. CASE q.cands # << >> /\ id # "local" /\ rec = None /\ req' = [req EXCEPT ![s] = n]
  <2>1. calm /\ Serving(q.op) => CandsOK(n, disk)
    <3>1. q.seen.memory = disk.memory => ~FitIn(disk, id)
      BY <1>10 DEF FitIn
    <3>2. QED
      BY <1>5, <1>6, <1>10, <3>1, CandsFacts
  <2>2. QED
    BY <1>1, <1>2, <1>5, <1>10, <2>1, CalmSame
<1>11. CASE q.cands # << >> /\ id # "local" /\ rec # None /\ cachedProvider(built, rec) # None
            /\ Ends(cachedProvider(built, rec))
  <2> DEFINE p == cachedProvider(built, rec)
             b == buildMemoryProviderFromRecord(rec, disk.secrets[id])
  <2>1. p \in built /\ p.id = rec.id /\ p.at = rec.at
    <3>1. \E y \in built : y.id = rec.id /\ y.at = rec.at
      BY <1>11 DEF cachedProvider
    <3>2. QED
      BY <3>1 DEF cachedProvider
  <2>2. ASSUME calm, Serving(q.op) PROVE p = ExpectedIn(disk, q.op.scope)
    <3>1. rec = Rec(disk.memory.recs, id) /\ CacheRight(disk, built) /\ CandsOK(q, disk)
      BY <1>6, <2>2
    <3>2. rec.id = id /\ (FitIn(disk, id) <=> b.ok)
      BY <1>11, <3>1, BuiltFrom
    <3> HIDE DEF rec, p, b
    <3>3. b.ok /\ p = b.provider
      BY <1>11, <2>1, <3>1, <3>2 DEF CacheRight, b
    <3>4. QED
      BY <1>11, <3>1, <3>2, <3>3, CandsFacts DEF b
  <2> HIDE DEF p
  <2>3. Ends(p)
    BY <1>11 DEF p
  <2>4. QED
    BY <1>7, <2>2, <2>3
<1>12. CASE q.cands # << >> /\ id # "local" /\ rec # None /\ req' = [req EXCEPT ![s] = Advance(q)]
  <2> DEFINE r == q
  <2>1. calm /\ Serving(q.op) => ChosenOK(r, disk)
    BY <1>6, <1>12 DEF ChosenOK
  <2>2. \A y : Head(q.todo) # Read(y)
    BY <1>2 DEF Read
  <2>3. /\ ReqFields \subseteq DOMAIN r /\ r.op = q.op /\ r.todo = q.todo /\ r.seen = q.seen /\ r.cands = q.cands
        /\ r.first = q.first /\ r.served = q.served /\ req' = [req EXCEPT ![s] = Advance(r)]
    BY <1>2, <1>12
  <2> HIDE DEF r
  <2>4. QED
    BY <1>1, <1>2, <2>1, <2>2, <2>3, CalmAdvance
<1>13. QED
  BY <1>3, <1>8, <1>9, <1>10, <1>11, <1>12

\* BuildMemory: what is built is what the files name, and joins the cache as that.
LEMMA BuildMemoryCalm ==
  ASSUME SettingsInv, CalmInv, NEW s \in Slots, BuildMemory(s)
  PROVE  CalmInv'
<1> DEFINE q == req[s]
           id == Head(q.cands)
           rec == Rec(q.seen.memory.recs, id)
           b == buildMemoryProviderFromRecord(rec, q.seen.secrets[rec.id])
<1>1. Busy(q) /\ Instruction(q).do = "build" /\ UNCHANGED <<disk, calm>>
  BY DEF BuildMemory, At
<1>2. /\ Head(q.todo).do = "build" /\ ReqFields \subseteq DOMAIN q /\ RequestOK(q, Mixes[mix], published, gone)
      /\ q.todo \in Seq(Steps(q.op)) /\ q.todo # << >> /\ q.op.do \in MemoryServing
      /\ Len(q.todo) = 1
  <2>1. /\ Head(q.todo).do = "build" /\ RequestOK(q, Mixes[mix], published, gone) /\ q.todo # << >>
        /\ StepFits(Head(q.todo), q.op) /\ Head(q.todo) = q.todo[1] /\ 1 \in 1 .. Len(q.todo)
    BY <1>1, BusyFacts
  <2>2. q.op.do \in MemoryServing
    BY <2>1 DEF StepFits
  <2>3. 1 = Len(q.todo)
    BY <2>1 DEF RequestOK, BuildOK
  <2>4. QED
    BY <2>1, <2>2, <2>3 DEF RequestOK
<1>3. /\ Serving(q.op) /\ q.op.do \notin RouterServing /\ q.op.do # "discover" /\ ~Owes(q)
      /\ q.op.do \notin MemoryRoutes
  BY <1>2 DEF Serving, MemoryServing, RouterServing, MemoryRoutes, Owes
<1>4. ASSUME calm
      PROVE  /\ CandsOK(q, disk) /\ q.cands # << >> /\ id # "local" /\ rec # None
             /\ rec = Rec(disk.memory.recs, id) /\ b = buildMemoryProviderFromRecord(rec, disk.secrets[id])
             /\ b.provider.id = id /\ b.provider.at = rec.at /\ rec.id = id
             /\ (FitIn(disk, id) <=> b.ok) /\ CacheRight(disk, built)
  <2>1. (\A y \in Inputs(Head(q.todo).do) : q.seen[y] = disk[y]) /\ ChosenOK(q, disk)
    BY <1>1, <1>2, <1>3, <1>4, ServingHead
  <2>2. Inputs("build") = {"memoryAssignments", "memory", "secrets"}
    BY DEF Inputs
  <2>3. q.seen.memory = disk.memory /\ q.seen.secrets = disk.secrets
    BY <1>2, <2>1, <2>2
  <2>4. CandsOK(q, disk) /\ q.cands # << >> /\ id # "local" /\ Rec(disk.memory.recs, id) # None
    BY <2>1 DEF ChosenOK
  <2>5. CacheRight(disk, built)
    BY <1>1, <1>3, <1>4, CalmFacts
  <2>6. LET c == buildMemoryProviderFromRecord(Rec(disk.memory.recs, id), disk.secrets[id])
        IN  /\ Rec(disk.memory.recs, id).id = id /\ c.provider.id = id
            /\ c.provider.at = Rec(disk.memory.recs, id).at /\ (FitIn(disk, id) <=> c.ok)
    BY <2>4, BuiltFrom
  <2>7. rec = Rec(disk.memory.recs, id) /\ rec.id = id
    BY <2>3, <2>6
  <2>8. b = buildMemoryProviderFromRecord(rec, disk.secrets[id])
    BY <2>3, <2>7
  <2> HIDE DEF rec, b
  <2>9. QED
    BY <2>4, <2>5, <2>6, <2>7, <2>8
<1>5. CASE b.ok
  <2> DEFINE r == [q EXCEPT !.served = b.provider]
  <2>1. /\ req' = [req EXCEPT ![s] = Advance(r)]
        /\ built' = {p \in built : ~(p.id = rec.id /\ p.at = rec.at)} \cup {b.provider}
    BY <1>5 DEF BuildMemory
  <2>2. /\ ReqFields \subseteq DOMAIN r /\ r.op = q.op /\ r.todo = q.todo /\ r.seen = q.seen /\ r.cands = q.cands
        /\ r.first = q.first /\ r.served = b.provider
    BY <1>2 DEF ReqFields
  <2> HIDE DEF r
  <2>3. ASSUME calm PROVE RightIn(r, disk)
    <3> HIDE DEF id, rec, b
    <3>1. ExpectedIn(disk, q.op.scope) = b.provider
      BY <1>4, <1>5, <2>3, CandsFacts DEF id
    <3>2. QED
      BY <1>3, <2>2, <3>1 DEF RightIn
  <2>4. ASSUME calm PROVE CacheRight(disk, built')
    <3> DEFINE bt == built'
    <3> HIDE DEF id, rec, b
    <3>1. \A p \in bt : p \in built \/ p = b.provider
      BY <2>1
    <3>2. CacheRight(disk, {b.provider})
      BY <1>4, <1>5, <2>4 DEF CacheRight
    <3> HIDE DEF bt
    <3>3. CacheRight(disk, bt)
      BY <1>4, <2>4, <3>1, <3>2 DEF CacheRight
    <3>4. QED
      BY <3>3 DEF bt
  <2>5. \A y : Head(q.todo) # Read(y)
    BY <1>2 DEF Read
  <2> HIDE DEF b
  <2>6. QED
    BY <1>1, <1>2, <2>1, <2>2, <2>3, <2>4, <2>5, CalmAdvance
<1>6. CASE ~b.ok
  <2> DEFINE r == [nextCandidate(q) EXCEPT !.todo = <<Do("pick"), Read("secrets")>> \o @]
  <2>1. req' = [req EXCEPT ![s] = r] /\ UNCHANGED built
    BY <1>6 DEF BuildMemory
  <2>2. /\ ReqFields \subseteq DOMAIN r /\ r.op = q.op /\ r.todo = <<Do("pick"), Read("secrets")>> \o q.todo
        /\ r.seen = q.seen /\ r.first = q.first /\ r.served = q.served /\ r.cands = Tail(q.cands)
    BY <1>2 DEF ReqFields, nextCandidate
  <2> HIDE DEF r
  <2>3. calm => CandsOK(r, disk)
    BY <1>4, <1>6, <2>2, CandsFacts
  <2>4. calm => ServesOK(r, disk)
    <3>1. calm => ServesOK(q, disk)
      BY <1>1, CalmFacts
    <3> HIDE DEF q
    <3>2. QED
      BY <1>2, <2>2, <2>3, <3>1, RebuildServes
  <2>5. Dropping(r.todo, r.op)
    BY <1>3, <2>2 DEF Dropping
  <2>6. SnapRight(r, disk)
    <3>1. r.todo # << >> => Head(r.todo).do = "pick"
      <4> DEFINE x == Do("pick")
                 y == Read("secrets")
                 a == <<x, y>>
                 T == Steps(q.op) \cup {x, y}
      <4>1. a \in Seq(T) /\ Len(a) = 2 /\ a[1] = x /\ q.todo \in Seq(T)
        BY <1>2
      <4>2. x.do = "pick"
        BY DEF Do
      <4>3. r.todo = a \o q.todo
        BY <2>2
      <4> HIDE DEF x, y, a, T
      <4>4. r.todo \in Seq(T) /\ r.todo[1] = x
        BY <4>1, <4>3, ConcatIndex
      <4>5. QED
        BY <4>2, <4>4, TailFacts
    <3>2. QED
      BY <3>1 DEF SnapRight
  <2>7. calm => CacheRight(disk, built)
    BY <1>4
  <2> HIDE DEF b
  <2>8. QED
    BY <1>1, <2>1, <2>2, <2>4, <2>5, <2>6, <2>7, CalmMove
<1>7. QED
  BY <1>5, <1>6

\* ClearCaches: nothing that serves is cached any more.
LEMMA ClearCachesCalm ==
  ASSUME SettingsInv, CalmInv, NEW s \in Slots, ClearCaches(s)
  PROVE  CalmInv'
<1> DEFINE q == req[s]
<1>1. /\ Busy(q) /\ Instruction(q).do = "clearCaches" /\ UNCHANGED <<disk, calm>> /\ built' = {}
      /\ req' = [req EXCEPT ![s] = Advance(q)]
  BY DEF ClearCaches, At
<1>2. Head(q.todo).do = "clearCaches" /\ ReqFields \subseteq DOMAIN q
  BY <1>1, BusyFacts DEF RequestOK
<1>3. \A x : Head(q.todo) # Read(x)
  BY <1>2 DEF Read
<1> DEFINE cache == built'
<1>4. CacheRight(disk, cache)
  BY <1>1 DEF CacheRight
<1> HIDE DEF cache
<1>5. CacheRight(disk, built')
  BY <1>4 DEF cache
<1>6. QED
  BY <1>1, <1>2, <1>3, <1>5, CalmAdvance

\* BeginWrite: what is read of the secrets file is what it holds.
LEMMA BeginWriteCalm ==
  ASSUME SettingsInv, CalmInv, NEW s \in Slots, BeginWrite(s)
  PROVE  CalmInv'
<1> DEFINE q == req[s]
           i == Instruction(q)
           content == Content(i.store)
           r == [q EXCEPT !.snap = content]
<1>1. Busy(q) /\ i.do = "write" /\ UNCHANGED <<disk, built, calm>>
  BY DEF BeginWrite, At
<1>2. i = Head(q.todo) /\ Head(q.todo).do = "write" /\ ReqFields \subseteq DOMAIN q
  BY <1>1, BusyFacts DEF RequestOK
<1>3. \/ req' = [req EXCEPT ![s] = r]
      \/ req' = [req EXCEPT ![s] = Advance(q)]
  BY DEF BeginWrite
<1>4. /\ ReqFields \subseteq DOMAIN r /\ r.op = q.op /\ r.todo = q.todo /\ r.seen = q.seen /\ r.cands = q.cands
      /\ r.first = q.first /\ r.served = q.served /\ r.snap = content
  BY <1>2 DEF ReqFields
<1>5. Head(q.todo).store = "secrets" => content = disk.secrets
  BY <1>2 DEF Content
<1> HIDE DEF content, r
<1>6. CASE req' = [req EXCEPT ![s] = r]
  BY <1>1, <1>4, <1>5, <1>6, CalmSame
<1>7. CASE req' = [req EXCEPT ![s] = Advance(q)]
  BY <1>1, <1>2, <1>7, CalmWrite
<1>8. QED
  BY <1>3, <1>6, <1>7

\* PublishWrite: only the memory routes write what the cached providers were made of.
LEMMA PublishWriteCalm ==
  ASSUME SettingsInv, CalmInv, NEW s \in Slots, PublishWrite(s)
  PROVE  CalmInv'
<1> DEFINE q == req[s]
           i == Instruction(q)
           r == [q EXCEPT !.wrote = q.wrote \cup {i.store}]
           new == Change(i, q.snap, q)
<1>1. /\ Busy(q) /\ i.do = "write" /\ q.snap # None /\ UNCHANGED <<built, calm>>
      /\ disk' = [disk EXCEPT ![i.store] = new]
      /\ req' = [req EXCEPT ![s] = Advance(r)]
  BY DEF PublishWrite, At
<1>2. /\ RequestOK(q, Mixes[mix], published, gone) /\ i = Head(q.todo) /\ q.todo # << >> /\ StepFits(i, q.op)
  BY <1>1, BusyFacts
<1>3. ReqFields \subseteq DOMAIN q /\ q.op \in Mixes[mix] /\ mix \in DOMAIN Mixes /\ Head(q.todo).do = "write"
  BY <1>1, <1>2 DEF RequestOK, SettingsInv
<1>4. /\ ReqFields \subseteq DOMAIN r /\ r.op = q.op /\ r.todo = q.todo /\ r.first = q.first /\ r.served = q.served
  BY <1>3 DEF ReqFields
<1> HIDE DEF r
<1>5. /\ {"memory", "secrets"} \subseteq DOMAIN disk /\ SecretsOK(disk.secrets, gone)
      /\ \A p \in built : p.id \in Naming(Mixes[mix], MemoryRoutes)
  BY DEF SettingsInv, FilesOK, FileOK
<1>6. ASSUME calm, q.op.do \notin MemoryRoutes, CacheRight(disk, built)
      PROVE  CacheRight(disk', built')
  <2> DEFINE d2 == disk'
  <2>1. i.store # "memory" /\ (i.store = "secrets" => i.what \in {"setSecret", "deleteSecret"}
                                                      /\ q.op.do \in ProviderRoutes)
    BY <1>1, <1>6, <1>2 DEF StepFits
  <2>2. /\ d2.memory = disk.memory
        /\ i.store = "secrets" => d2.secrets = new
        /\ i.store # "secrets" => d2.secrets = disk.secrets
    BY <1>1, <1>5, <2>1
  <2>3. i.store = "secrets" => q.snap = disk.secrets
    BY <1>1, <1>2, <1>3, <1>6, CalmFacts DEF SnapRight
  <2>4. ASSUME i.store = "secrets", NEW x \in Naming(Mixes[mix], MemoryRoutes)
        PROVE  new[x] = disk.secrets[x]
    <3>1. x \in Ids /\ x # q.op.id
      BY <1>3, <2>1, <2>4, NamedId, MixesAssumption
    <3>2. x \in DOMAIN disk.secrets
      BY <1>5, <3>1 DEF SecretsOK
    <3>3. new \in {setSecret(disk.secrets, q), deleteSecret(disk.secrets, q)}
      BY <2>1, <2>3, <2>4 DEF Change
    <3>4. QED
      BY <3>1, <3>2, <3>3 DEF setSecret, deleteSecret
  <2> HIDE DEF d2, new
  <2>5. \A x \in Naming(Mixes[mix], MemoryRoutes) : d2.secrets[x] = disk.secrets[x]
    BY <2>2, <2>4
  <2>6. \A p \in built : d2.secrets[p.id] = disk.secrets[p.id]
    BY <1>5, <2>5
  <2>7. CacheRight(d2, built)
    BY <1>6, <2>2, <2>6 DEF CacheRight
  <2>8. QED
    BY <1>1, <2>7 DEF d2
<1>7. QED
  BY <1>1, <1>3, <1>4, <1>6, CalmWrite

\* FailWrite: from here on it is no longer calm.
LEMMA FailWriteCalm ==
  ASSUME SettingsInv, CalmInv, NEW s \in Slots, FailWrite(s)
  PROVE  CalmInv'
BY DEF FailWrite, CalmInv

\* OpenTemp, FillTemp and RenameTemp: nothing that serves is kept in modules.json.
LEMMA TempCalm ==
  ASSUME SettingsInv, CalmInv, NEW s \in Slots, OpenTemp(s) \/ FillTemp(s) \/ RenameTemp(s)
  PROVE  CalmInv'
<1> DEFINE q == req[s]
           Opened(n) == [q EXCEPT !.inode = n]
           Filled == [q EXCEPT !.wrote = @ \cup {"filled"}]
           Renamed == [q EXCEPT !.wrote = (@ \ {"filled"}) \cup {"modules"}, !.inode = 0]
           Lost == [Renamed EXCEPT !.failed = TRUE]
<1>1. Busy(q) /\ Instruction(q).do = "write" /\ UNCHANGED <<disk, built, calm>>
  BY DEF OpenTemp, FillTemp, RenameTemp, At
<1>2. /\ RequestOK(q, Mixes[mix], published, gone) /\ Instruction(q) = Head(q.todo) /\ q.todo # << >>
  BY <1>1, BusyFacts
<1>3. ReqFields \subseteq DOMAIN q /\ SnapOK(q, Mixes[mix], published, gone) /\ Head(q.todo).do = "write"
  BY <1>1, <1>2 DEF RequestOK
<1>4. CASE OpenTemp(s)
  <2>1. PICK n : req' = [req EXCEPT ![s] = Opened(n)]
    BY <1>4 DEF OpenTemp
  <2> DEFINE r == Opened(n)
  <2>2. /\ ReqFields \subseteq DOMAIN r /\ r.op = q.op /\ r.todo = q.todo /\ r.seen = q.seen /\ r.cands = q.cands
        /\ r.first = q.first /\ r.served = q.served /\ r.snap = q.snap /\ req' = [req EXCEPT ![s] = r]
    BY <1>3, <2>1 DEF ReqFields
  <2> HIDE DEF r
  <2>3. QED
    BY <1>1, <2>2, CalmSame
<1>5. CASE FillTemp(s)
  <2> DEFINE r == Filled
  <2>1. req' = [req EXCEPT ![s] = r]
    BY <1>5 DEF FillTemp
  <2>2. /\ ReqFields \subseteq DOMAIN r /\ r.op = q.op /\ r.todo = q.todo /\ r.seen = q.seen /\ r.cands = q.cands
        /\ r.first = q.first /\ r.served = q.served /\ r.snap = q.snap
    BY <1>3 DEF ReqFields
  <2> HIDE DEF r
  <2>3. QED
    BY <1>1, <2>1, <2>2, CalmSame
<1>6. CASE RenameTemp(s)
  <2>1. Head(q.todo).store = "modules"
    BY <1>2, <1>3, <1>6 DEF RenameTemp, SnapOK
  <2>2. \/ req' = [req EXCEPT ![s] = End(Lost, 500)]
        \/ req' = [req EXCEPT ![s] = Advance(Renamed)]
    BY <1>6 DEF RenameTemp
  <2>3. /\ ReqFields \subseteq DOMAIN Renamed /\ Renamed.op = q.op /\ Renamed.todo = q.todo
        /\ Renamed.first = q.first /\ Renamed.served = q.served
    BY <1>3 DEF ReqFields
  <2> HIDE DEF Renamed
  <2>4. /\ ReqFields \subseteq DOMAIN Lost /\ Lost.op = q.op /\ Lost.first = q.first /\ Lost.served = q.served
    BY <2>3 DEF ReqFields
  <2> HIDE DEF Lost
  <2>5. CASE req' = [req EXCEPT ![s] = End(Lost, 500)]
    <3> DEFINE code == 500
    <3>1. req' = [req EXCEPT ![s] = End(Lost, code)]
      BY <2>5
    <3> HIDE DEF code
    <3>2. Head(q.todo).do \notin {"read", "clearCaches"}
      BY <1>3
    <3>3. calm /\ Serving(q.op) => Lost.served = q.served \/ RightIn(Lost, disk)
      BY <2>4
    <3>4. QED
      BY <1>1, <2>1, <2>4, <3>1, <3>2, <3>3, CalmEnd
  <2>6. CASE req' = [req EXCEPT ![s] = Advance(Renamed)]
    BY <1>1, <1>3, <2>3, <2>6, CalmWrite
  <2>7. QED
    BY <2>2, <2>5, <2>6
<1>7. QED
  BY <1>4, <1>5, <1>6

(***************************************************************************)
(* Requests arrive, entries expire, the process is killed.                 *)
(***************************************************************************)
\* Issue: a request that arrives alone has everything before it, and finds nothing owed.
LEMMA IssueCalm ==
  ASSUME SettingsInv, CalmInv, NEW s \in Slots, NEW op \in Mixes[mix], Issue(s, op)
  PROVE  CalmInv'
<1> DEFINE overlaps == \E t \in Slots \ {s} : Busy(req[t])
           new == [op |-> op, at |-> issued + 1, todo |-> Program(op), seen |-> NotStarted, snap |-> None, inode |-> 0,
                   cands |-> << >>, first |-> None, served |-> None, code |-> 200, answer |-> 0,
                   wrote |-> {}, alone |-> ~overlaps, failed |-> FALSE]
           Other(q) == [q EXCEPT !.alone = FALSE]
<1>1. /\ req' = [t \in Slots |-> IF t = s THEN new ELSE IF Busy(req[t]) THEN Other(req[t]) ELSE Idle]
      /\ calm' = (calm /\ ~overlaps) /\ ~Busy(req[s]) /\ UNCHANGED <<disk, built>>
  BY DEF Issue
<1>2. new.op = op /\ new.todo = Program(op) /\ new.snap = None /\ new.first = None /\ new.served = None
  OBVIOUS
<1> HIDE DEF new
<1> SUFFICES ASSUME calm' PROVE CalmInv'
  BY DEF CalmInv
<1>3. calm /\ \A t \in Slots : ~Busy(req[t])
  <2>1. calm /\ ~overlaps
    BY <1>1
  <2>2. QED
    BY <1>1, <2>1 DEF overlaps
<1> HIDE DEF Other, overlaps
<1>4. req'[s] = new /\ \A t \in Slots \ {s} : req'[t] = Idle
  BY <1>1, <1>3
<1>5. ServesOK(new, disk)
  <2> SUFFICES ASSUME Serving(op) PROVE ServesOK(new, disk)
    BY <1>2 DEF ServesOK
  <2>1. Servable(new.todo, op) /\ Afresh(new.todo, 0)
    BY <1>2, ServingPrograms
  <2>2. new.todo \in Seq(Steps(op))
    <3>1. Good(Program(op), op)
      BY ProgramGood DEF SettingsInv
    <3>2. QED
      BY <1>2, <3>1 DEF Good, Part
  <2>3. FreshOK(new, disk)
    BY <2>1, <2>2, FreshAnew
  <2>4. ServedOK(new, disk)
    BY <1>2 DEF ServedOK
  <2>5. QED
    BY <1>2, <2>1, <2>3, <2>4 DEF ServesOK
<1>6. SnapRight(new, disk) /\ Dropping(new.todo, new.op)
  BY <1>2, DroppingPrograms DEF SnapRight
<1>7. CacheRight(disk, built)
  <2> SUFFICES ASSUME NEW t \in Slots, req[t] # Idle, Owes(req[t]) PROVE FALSE
    BY <1>3 DEF CalmInv
  <2>1. RequestOK(req[t], Mixes[mix], published, gone) /\ mix \in DOMAIN Mixes
    BY DEF SettingsInv
  <2>2. req[t].op # None /\ req[t].todo \in Seq(Steps(req[t].op))
    BY <2>1, MixesAssumption DEF RequestOK
  <2>3. req[t].todo # << >>
    BY DEF Owes
  <2>4. Busy(req[t])
    BY <2>2, <2>3 DEF Busy
  <2>5. QED
    BY <1>3, <2>4
<1>8. QED
  BY <1>1, <1>4, <1>5, <1>6, <1>7 DEF CalmInv

\* Restart: no request is left, and nothing is cached.
LEMMA RestartCalm ==
  ASSUME Restart
  PROVE  CalmInv'
<1>1. (\A s \in Slots : req'[s] = Idle) /\ built' = {}
  BY DEF Restart
<1>2. CacheRight(disk', built')
  BY <1>1 DEF CacheRight
<1>3. QED
  BY <1>1, <1>2 DEF CalmInv

\* Nothing that the invariant speaks of changes.
LEMMA StillCalm ==
  ASSUME CalmInv, UNCHANGED <<disk, built, req, calm>>
  PROVE  CalmInv'
BY DEF CalmInv

\* Nothing is there at first.
LEMMA CalmInitial ==
  ASSUME SettingsInit
  PROVE  CalmInv
<1>1. (\A s \in Slots : req[s] = Idle) /\ built = {}
  BY DEF SettingsInit
<1>2. CacheRight(disk, built)
  BY <1>1 DEF CacheRight
<1>3. QED
  BY <1>1, <1>2 DEF CalmInv

\* Every step keeps the invariant.
LEMMA CalmNextKeeps ==
  ASSUME SettingsInv, CalmInv, [SettingsNext]_vars
  PROVE  CalmInv'
<1>1. ASSUME NEW s \in Slots, Step(s) PROVE CalmInv'
  BY <1>1, ReadStoreCalm, CheckRequestCalm, BeginWriteCalm, PublishWriteCalm, TempCalm, DiscoveryCalm,
     CandidatesCalm, PickMemoryCalm, BuildMemoryCalm, ClearCachesCalm, RouterCalm, InMemoryCalm DEF Step
<1>2. ASSUME NEW s \in Slots, FailWrite(s) \/ SettingsDeadline(s) \/ \E op \in Mixes[mix] : Issue(s, op)
      PROVE  CalmInv'
  BY <1>2, FailWriteCalm, DeadlineCalm, IssueCalm
<1>3. ASSUME NEW i \in Ids, ExpireEntry(i) PROVE CalmInv'
  BY <1>3, StillCalm DEF ExpireEntry
<1>4. CASE UNCHANGED vars
  BY <1>4, StillCalm DEF vars
<1>5. QED
  BY <1>1, <1>2, <1>3, <1>4, RestartCalm DEF SettingsNext

\* The invariant holds throughout.
LEMMA CalmInvariant == SettingsSpec => [](SettingsInv /\ CalmInv)
<1>1. SettingsInit => SettingsInv /\ CalmInv
  BY SettingsInitial, CalmInitial
<1>2. SettingsInv /\ CalmInv /\ [SettingsNext]_vars => (SettingsInv /\ CalmInv)'
  BY SettingsNextKeeps, CalmNextKeeps
<1>3. QED
  BY <1>1, <1>2, PTL DEF SettingsSpec

\* As long as requests come one after the other and no write fails, a memory role is served by
\* the provider the files name, the router selects the record it names with its current key,
\* and a discovery that is asked to refresh shows the record as it is.
THEOREM ServedFromCurrentCorrect == SettingsSpec => []ServedFromCurrent
<1>1. SettingsInv /\ CalmInv => ServedFromCurrent
  <2> SUFFICES ASSUME SettingsInv, CalmInv, NEW s \in Slots, calm, req[s].op # None, req[s].served # None
               PROVE  LET q == req[s]
                      IN  /\ q.op.do \in {"resolveMemory", "putMemoryAssignment", "planMemoryMigration"} =>
                                q.served = ExpectedMemory(q.op.scope)
                          /\ q.op.do \in {"router", "activate"} =>
                                q.served = routerSelection(disk.assignments, disk.providers.recs,
                                                disk.providers.recs, disk.secrets, q.op.role, q.op.scope)
                          /\ q.op.do = "discover" /\ q.op.refresh =>
                                q.served.at = Rec(disk.providers.recs, q.op.id).at
    BY DEF ServedFromCurrent
  <2> DEFINE q == req[s]
  <2>1. q # Idle
    BY DEF Idle
  <2>2. ServesOK(q, disk)
    BY <2>1 DEF CalmInv
  <2>3. Serving(q.op) => RightIn(q, disk)
    BY <2>2 DEF ServesOK, ServedOK
  <2>4. \A scope : ExpectedMemory(scope) = ExpectedIn(disk, scope)
    BY Zenon DEF ExpectedMemory, ExpectedIn, RefsIn, FitIn
  <2>5. q.op.do \in MemoryServing => q.served = ExpectedMemory(q.op.scope)
    BY <2>3, <2>4 DEF RightIn, Serving
  <2>6. q.op.do \in RouterServing =>
            q.served = routerSelection(disk.assignments, disk.providers.recs, disk.providers.recs, disk.secrets,
                                       q.op.role, q.op.scope)
    BY <2>3 DEF RightIn, Serving
  <2>7. q.op.do = "discover" /\ q.op.refresh => q.served.at = Rec(disk.providers.recs, q.op.id).at
    BY <2>3 DEF RightIn, Serving
  <2>8. QED
    BY <2>5, <2>6, <2>7 DEF MemoryServing, RouterServing
<1>2. QED
  BY <1>1, CalmInvariant, PTL
=============================================================================
