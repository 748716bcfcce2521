---------------------------- MODULE ChatRunProofs ----------------------------
(***************************************************************************)
(* Proofs about ChatRun for every number of runs, interrupts and steering  *)
(* messages, every size of the steering queue and every healing bound.     *)
(***************************************************************************)
EXTENDS ChatRun, SequenceTheorems, TLAPS

\* Before the work of a run.
Early == {"idle", "create", "register"}

Points == Work \cup {"idle", "create", "register", "replay", "resolved",
                     "throwing", "returned", "rejected"}

\* A run is stored once: before createRun it is not known.
KnownOnce ==
  /\ known \in Seq(Runs)
  /\ \A r \in Runs : pc[r] \in {"idle", "create"} => \A i \in DOMAIN known : known[i] # r

TypeInv == TypeOK /\ KnownOnce

------------------------------------------------------------------------------
(***************************************************************************)
(* Control states.                                                         *)
(***************************************************************************)
LEMMA BoundedAttempts == boundedLiveAttempts \in Nat \ {0}
BY ChatRunAssumption DEF boundedLiveAttempts

\* createRunControlState: an empty queue.
LEMMA CreatedState == createRunControlState \in ControlState
                      /\ Len(createRunControlState.steerQueue) = 0
BY DEF createRunControlState, ControlState

\* A control state whose queue is within its bound.
Within(state) == state \in ControlState /\ Len(state.steerQueue) <= MAX_STEER_QUEUE_SIZE

\* touch changes the time stamp only.
LEMMA TouchWithin ==
  ASSUME NEW state, Within(state) PROVE Within(touch(state))
BY DEF Within, touch, ControlState

\* requestInterrupt leaves the queue alone.
LEMMA InterruptWithin ==
  ASSUME NEW state, Within(state) PROVE Within(requestInterrupt(state))
<1> DEFINE s == [state EXCEPT !.interruptRequested = TRUE, !.aborted = TRUE]
<1>1. Within(s)
  BY DEF Within, ControlState
<1>2. QED
  BY <1>1, TouchWithin DEF requestInterrupt

\* enqueueSteer keeps the bound: at capacity the oldest message leaves.
LEMMA SteerWithin ==
  ASSUME NEW state, Within(state), NEW q \in Steers
  PROVE  Within([state EXCEPT !.steerQueue = enqueueSteer(state.steerQueue, q)])
<1> DEFINE queue == state.steerQueue
           after == enqueueSteer(queue, q)
<1>1. queue \in Seq(Steers) /\ Len(queue) <= MAX_STEER_QUEUE_SIZE
  BY DEF Within, ControlState
<1>2. MAX_STEER_QUEUE_SIZE \in Nat /\ MAX_STEER_QUEUE_SIZE >= 1
  BY RunControlAssumption
<1>3. after \in Seq(Steers) /\ Len(after) <= MAX_STEER_QUEUE_SIZE
  <2>1. CASE Len(queue) >= MAX_STEER_QUEUE_SIZE
    <3>1. queue # << >>
      BY <1>1, <1>2, <2>1
    <3>2. Tail(queue) \in Seq(Steers) /\ Len(Tail(queue)) = Len(queue) - 1
      BY <1>1, <3>1
    <3>3. after = Append(Tail(queue), q)
      BY <2>1 DEF enqueueSteer
    <3>4. QED
      BY <1>1, <1>2, <3>2, <3>3
  <2>2. CASE ~(Len(queue) >= MAX_STEER_QUEUE_SIZE)
    <3>1. after = Append(queue, q)
      BY <2>2 DEF enqueueSteer
    <3>2. QED
      BY <1>1, <1>2, <2>2, <3>1
  <2>3. QED
    BY <2>1, <2>2
<1> HIDE DEF after
<1>4. QED
  BY <1>3 DEF Within, ControlState, after

\* drainSteer only shortens the queue.
LEMMA DrainWithin ==
  ASSUME NEW state, Within(state)
  PROVE  Within(touch([state EXCEPT !.steerQueue = IF @ = << >> THEN @ ELSE Tail(@)]))
<1> DEFINE queue == state.steerQueue
           after == IF queue = << >> THEN queue ELSE Tail(queue)
<1>1. queue \in Seq(Steers) /\ Len(queue) <= MAX_STEER_QUEUE_SIZE
      /\ MAX_STEER_QUEUE_SIZE \in Nat
  BY RunControlAssumption DEF Within, ControlState
<1>2. after \in Seq(Steers) /\ Len(after) <= MAX_STEER_QUEUE_SIZE
  BY <1>1
<1> HIDE DEF after
<1>3. Within([state EXCEPT !.steerQueue = after])
  BY <1>2 DEF Within, ControlState
<1>4. QED
  BY <1>3, TouchWithin DEF after

\* The control states and the registry, as a whole.
ControlOk == /\ control \in [Runs -> [Which -> ControlState]]
             /\ \A r \in Runs, w \in Which : Within(control[r][w])
             /\ registry \in [Runs -> Which \cup {"none"}]

\* A control state within its bound may replace another.
LEMMA ControlSet ==
  ASSUME ControlOk, NEW r \in Runs, NEW w \in Which, NEW state, Within(state),
         control' = [control EXCEPT ![r][w] = state],
         registry' \in [Runs -> Which \cup {"none"}]
  PROVE  ControlOk'
<1>1. state \in ControlState
  BY DEF Within
<1>2. control' \in [Runs -> [Which -> ControlState]]
  BY <1>1 DEF ControlOk
<1>3. ASSUME NEW p \in Runs, NEW v \in Which PROVE Within(control'[p][v])
  <2>1. control'[p][v] = IF p = r /\ v = w THEN state ELSE control[p][v]
    BY DEF ControlOk
  <2>2. QED
    BY <2>1 DEF ControlOk
<1>4. QED
  BY <1>2, <1>3 DEF ControlOk, Within, ControlState

\* Cleaning up and registering change entries to entries.
LEMMA CleanupTyped ==
  ASSUME ControlOk
  PROVE  /\ cleanupRunControlStates \in [Runs -> Which \cup {"none"}]
         /\ \A r \in Runs, w \in Which : registered(r, w) \in [Runs -> Which \cup {"none"}]
BY DEF ControlOk, cleanupRunControlStates, registered

\* What a request finds: a state within its bound, and where it is put.
LEMMA StateForTyped ==
  ASSUME ControlOk, NEW r \in Runs
  PROVE  stateFor(r) \in Which /\ Within(stateBefore(r))
<1>1. CASE registry[r] = "none"
  <2>1. Within(createRunControlState)
    BY CreatedState, RunControlAssumption DEF Within
  <2>2. QED
    BY <1>1, <2>1 DEF stateFor, stateBefore, Which
<1>2. CASE registry[r] # "none"
  BY <1>2 DEF stateFor, stateBefore, ControlOk
<1>3. QED
  BY <1>1, <1>2

(***************************************************************************)
(* Each part of a step keeps the types.                                    *)
(***************************************************************************)
RequestsOk == /\ target \in [Requests -> Runs]
              /\ reply \in [Requests -> {"unsent", "read", "already_terminal", "aborting",
                                         "queued", "empty"}]
              /\ announced \subseteq Requests

ChatOk == /\ phase \in [Runs -> RunPhase]
          /\ conversation \in [Runs -> {"parent", "child"}]
          /\ pc \in [Runs -> Points]
          /\ verdict \in [Runs -> CrucibleVerdict \cup {"none"}]
          /\ execution \in [Runs -> DagStatus \cup {"none"}]
          /\ attempts \in [Runs -> 0 .. boundedLiveAttempts]
          /\ script \in [Runs -> Seq(RunPhase)]
          /\ answer \in [Runs -> Status]
          /\ timedOut \in [Runs -> BOOLEAN]
          /\ thrown \in [Runs -> {"none", "compile", "transition"}]

KnownOk == /\ KnownOnce
           /\ \A i, j \in DOMAIN known : known[i] = known[j] => i = j

\* The type invariant, in the parts that the steps change separately.
LEMMA TypeParts == TypeInv <=> ControlOk /\ RequestsOk /\ ChatOk /\ KnownOk
<1>1. RunControlTypeOK <=> ControlOk /\ RequestsOk
  BY DEF RunControlTypeOK, ControlOk, RequestsOk, Within
<1>2. QED
  BY <1>1 DEF TypeInv, TypeOK, ChatOk, KnownOk, Points

\* The same for the next state.
LEMMA TypePartsNext == ControlOk' /\ RequestsOk' /\ ChatOk' /\ KnownOk' => TypeInv'
BY TypeParts, PTL

\* The registry entry of a run is dropped, and nothing else changes.
LEMMA RegistryTyped ==
  ASSUME ControlOk, UNCHANGED control, registry' \in [Runs -> Which \cup {"none"}]
  PROVE  ControlOk'
BY DEF ControlOk, Within, ControlState

\* clearRunControl drops an entry.
LEMMA ClearTyped ==
  ASSUME ControlOk, NEW r \in Runs, clearRunControl(r), UNCHANGED control
  PROVE  ControlOk'
<1>1. registry' \in [Runs -> Which \cup {"none"}]
  BY DEF ControlOk, clearRunControl
<1>2. QED
  BY <1>1, RegistryTyped

\* A run that goes on leaves no duplicate behind.
LEMMA KnownKept ==
  ASSUME KnownOk, UNCHANGED known,
         \A r \in Runs : pc'[r] \in {"idle", "create"} => pc[r] \in {"idle", "create"}
  PROVE  KnownOk'
BY DEF KnownOk, KnownOnce

------------------------------------------------------------------------------
(***************************************************************************)
(* Walks: sequences of allowed phases that end where a client stops        *)
(* waiting.                                                                *)
(***************************************************************************)
IsWalk(from, phases) ==
  /\ phases = << >> => isTerminalRunPhase(from)
  /\ phases # << >> => /\ validateTransition(from, phases[1], FALSE)
                      /\ isTerminalRunPhase(phases[Len(phases)])
  /\ \A i \in 1..(Len(phases) - 1) : validateTransition(phases[i], phases[i+1], FALSE)

\* Where the walk ends.
EndOf(from, phases) == IF phases = << >> THEN from ELSE phases[Len(phases)]

\* The phases of a script in their order, and the exits each of them allows.
LEMMA Edges ==
  /\ ExternalPrefixPhases \in Seq(RunPhase) /\ Len(ExternalPrefixPhases) = 8
  /\ validateTransition("CHAT_RECEIVED", ExternalPrefixPhases[1], FALSE)
  /\ \A i \in 1..7 : validateTransition(ExternalPrefixPhases[i], ExternalPrefixPhases[i+1], FALSE)
  /\ \A i \in 1..8, x \in Exits : validateTransition(ExternalPrefixPhases[i], x, FALSE)
  /\ validateTransition(ExternalPrefixPhases[8], "SYNTHESIZING", FALSE)
  /\ \A x \in Exits \cup {"DONE"} : validateTransition("SYNTHESIZING", x, FALSE)
<1> DEFINE E == ExternalPrefixPhases
<1>1. E \in Seq(RunPhase) /\ Len(E) = 8
  BY DEF ExternalPrefixPhases, RunPhase
<1>2. /\ E[1] = "TRIAGE" /\ E[2] = "CONTEXT_BUILDING" /\ E[3] = "PLANNING"
      /\ E[4] = "SKEPTIC_REVIEW" /\ E[5] = "CRUCIBLE" /\ E[6] = "DAG_COMPILATION"
      /\ E[7] = "EXECUTING" /\ E[8] = "VALIDATING"
  BY DEF ExternalPrefixPhases
<1> HIDE DEF E
<1>3. \A i \in 1..7 : i = 1 \/ i = 2 \/ i = 3 \/ i = 4 \/ i = 5 \/ i = 6 \/ i = 7
  OBVIOUS
<1>4. validateTransition("CHAT_RECEIVED", E[1], FALSE)
  BY <1>2 DEF validateTransition, isAllowedRunPhaseTransition, ALLOWED_RUN_PHASE_TRANSITIONS
<1>5. ASSUME NEW i \in 1..7 PROVE validateTransition(E[i], E[i+1], FALSE)
  BY <1>2, <1>3 DEF validateTransition, isAllowedRunPhaseTransition, ALLOWED_RUN_PHASE_TRANSITIONS
<1>6. ASSUME NEW i \in 1..8, NEW x \in Exits PROVE validateTransition(E[i], x, FALSE)
  <2>1. i \in 1..7 \/ i = 8
    OBVIOUS
  <2>2. QED
    BY <1>2, <1>3, <2>1
    DEF validateTransition, isAllowedRunPhaseTransition, ALLOWED_RUN_PHASE_TRANSITIONS
<1>7. validateTransition(E[8], "SYNTHESIZING", FALSE)
  BY <1>2 DEF validateTransition, isAllowedRunPhaseTransition, ALLOWED_RUN_PHASE_TRANSITIONS
<1>8. ASSUME NEW x \in Exits \cup {"DONE"} PROVE validateTransition("SYNTHESIZING", x, FALSE)
  BY DEF validateTransition, isAllowedRunPhaseTransition, ALLOWED_RUN_PHASE_TRANSITIONS
<1>9. QED
  BY <1>1, <1>4, <1>5, <1>6, <1>7, <1>8 DEF E

\* A sequence of known length has a first element.
LEMMA NonEmpty ==
  ASSUME NEW S, NEW s \in Seq(S), NEW n \in Nat, n > 0, Len(s) = n
  PROVE  s # << >>
OBVIOUS

\* The elements of an initial part.
LEMMA Elements ==
  ASSUME NEW S, NEW s \in Seq(S), NEW n \in Nat, NEW m \in 1..n, Len(s) = n
  PROVE  \A i \in 1..m : s[i] \in S
OBVIOUS

\* Two phases appended.
LEMMA TwoMore ==
  ASSUME NEW S, NEW s \in Seq(S), NEW n \in Nat, Len(s) = n, NEW a \in S, NEW b \in S
  PROVE  /\ s \o <<a, b>> \in Seq(S) /\ Len(s \o <<a, b>>) = n + 2
         /\ (s \o <<a, b>>)[n + 1] = a /\ (s \o <<a, b>>)[n + 2] = b
         /\ \A i \in 1..n : (s \o <<a, b>>)[i] = s[i]
<1> DEFINE u == <<a, b>>
<1>1. u \in Seq(S) /\ Len(u) = 2 /\ u[1] = a /\ u[2] = b
  OBVIOUS
<1> HIDE DEF u
<1>2. QED
  BY <1>1 DEF u

\* The first n phases of the external script.
LEMMA PrefixFacts ==
  ASSUME NEW n \in 1..8
  PROVE  /\ Prefix(n) \in Seq(RunPhase) /\ Len(Prefix(n)) = n
         /\ \A i \in 1..n : Prefix(n)[i] = ExternalPrefixPhases[i]
<1> HIDE DEF ExternalPrefixPhases
<1>1. ExternalPrefixPhases \in Seq(RunPhase) /\ Len(ExternalPrefixPhases) = 8
  BY Edges
<1>2. \A i \in 1..n : ExternalPrefixPhases[i] \in RunPhase
  BY <1>1, Elements
<1>3. /\ SubSeq(ExternalPrefixPhases, 1, n) \in Seq(RunPhase)
      /\ Len(SubSeq(ExternalPrefixPhases, 1, n)) = n
      /\ \A i \in 1..n : SubSeq(ExternalPrefixPhases, 1, n)[i] = ExternalPrefixPhases[i]
  BY <1>1, <1>2, SubSeqProperties
<1>4. QED
  BY <1>3 DEF Prefix

\* A prefix and an exit: a walk to that exit.
LEMMA ExitWalk ==
  ASSUME NEW n \in 1..8, NEW x \in Exits
  PROVE  LET phases == Prefix(n) \o <<x>>
         IN  /\ phases \in Seq(RunPhase)
             /\ IsWalk("CHAT_RECEIVED", phases)
             /\ EndOf("CHAT_RECEIVED", phases) = x
             /\ \A i \in 1..Len(phases) : phases[i] # "DONE"
<1> DEFINE E == ExternalPrefixPhases
           s == Prefix(n) \o <<x>>
<1>1. x \in RunPhase /\ isTerminalRunPhase(x) /\ x # "DONE"
  BY DEF Exits, RunPhase, isTerminalRunPhase, TerminalRunPhases
<1>2. Prefix(n) \in Seq(RunPhase) /\ Len(Prefix(n)) = n /\ \A i \in 1..n : Prefix(n)[i] = E[i]
  BY PrefixFacts
<1> HIDE DEF E
<1>3. s \in Seq(RunPhase) /\ Len(s) = n + 1 /\ s[n+1] = x
  BY <1>1, <1>2
<1>4. \A i \in 1..n : s[i] = E[i]
  BY <1>1, <1>2
<1> HIDE DEF s
<1>5. s # << >> /\ s[1] = E[1]
  BY <1>3, <1>4
<1>6. ASSUME NEW i \in 1..(Len(s) - 1) PROVE validateTransition(s[i], s[i+1], FALSE)
  <2>1. i \in 1..n /\ s[i] = E[i]
    BY <1>3, <1>4
  <2>2. CASE i = n
    BY <1>3, <2>1, <2>2, Edges DEF E
  <2>3. CASE i # n
    <3>1. i + 1 \in 1..n /\ i \in 1..7
      BY <2>1, <2>3
    <3>2. QED
      BY <1>4, <2>1, <3>1, Edges DEF E
  <2>4. QED
    BY <2>2, <2>3
<1>7. IsWalk("CHAT_RECEIVED", s)
  BY <1>1, <1>3, <1>5, <1>6, Edges DEF IsWalk, E
<1>8. ASSUME NEW i \in 1..Len(s) PROVE s[i] # "DONE"
  <2>1. CASE i = n + 1
    BY <1>1, <1>3, <2>1
  <2>2. CASE i # n + 1
    <3>1. i \in 1..8 /\ s[i] = E[i]
      BY <1>3, <1>4, <2>2
    <3>2. \A j \in 1..8 : E[j] # "DONE"
      BY DEF E, ExternalPrefixPhases
    <3>3. QED
      BY <3>1, <3>2
  <2>3. QED
    BY <2>1, <2>2
<1>9. EndOf("CHAT_RECEIVED", s) = x
  BY <1>3, <1>5 DEF EndOf
<1>10. QED
  BY <1>3, <1>7, <1>8, <1>9 DEF s

\* The whole way to the synthesis and beyond.
LEMMA LongWalk ==
  ASSUME NEW x \in {"ABORTED", "DONE"}
  PROVE  LET phases == Prefix(8) \o <<"SYNTHESIZING", x>>
         IN  /\ phases \in Seq(RunPhase)
             /\ IsWalk("CHAT_RECEIVED", phases)
             /\ EndOf("CHAT_RECEIVED", phases) = x
             /\ x = "ABORTED" => \A i \in 1..Len(phases) : phases[i] # "DONE"
<1> DEFINE E == ExternalPrefixPhases
           s == Prefix(8) \o <<"SYNTHESIZING", x>>
<1>1. x \in RunPhase /\ isTerminalRunPhase(x) /\ "SYNTHESIZING" \in RunPhase
      /\ x \in Exits \cup {"DONE"}
  BY DEF Exits, RunPhase, isTerminalRunPhase, TerminalRunPhases
<1>2. Prefix(8) \in Seq(RunPhase) /\ Len(Prefix(8)) = 8 /\ \A i \in 1..8 : Prefix(8)[i] = E[i]
  BY PrefixFacts
<1> HIDE DEF E
<1>3. s \in Seq(RunPhase) /\ Len(s) = 10 /\ s[9] = "SYNTHESIZING" /\ s[10] = x
  <2>1. 8 + 1 = 9 /\ 8 + 2 = 10 /\ 8 \in Nat
    OBVIOUS
  <2>2. QED
    BY <1>1, <1>2, <2>1, TwoMore
<1>4. \A i \in 1..8 : s[i] = E[i]
  BY <1>1, <1>2
<1> HIDE DEF s
<1>5. s # << >> /\ s[1] = E[1]
  <2>1. 1 \in 1..8
    OBVIOUS
  <2>2. s # << >>
    BY <1>3, NonEmpty
  <2>3. s[1] = E[1]
    BY <1>4, <2>1
  <2>4. QED
    BY <2>2, <2>3
<1>6. ASSUME NEW i \in 1..(Len(s) - 1) PROVE validateTransition(s[i], s[i+1], FALSE)
  <2>1. i \in 1..7 \/ i = 8 \/ i = 9
    BY <1>3
  <2>2. CASE i \in 1..7
    <3>1. i \in 1..8 /\ i + 1 \in 1..8
      BY <2>2
    <3>2. QED
      BY <1>4, <2>2, <3>1, Edges DEF E
  <2>3. CASE i = 8
    <3>1. s[8] = E[8] /\ s[9] = "SYNTHESIZING"
      BY <1>3, <1>4
    <3>2. validateTransition(s[8], s[9], FALSE)
      BY <3>1, Edges DEF E
    <3>3. i + 1 = 9
      BY <2>3
    <3>4. QED
      BY <2>3, <3>2, <3>3
  <2>4. CASE i = 9
    <3>1. validateTransition(s[9], s[10], FALSE)
      BY <1>1, <1>3, Edges
    <3>2. i + 1 = 10
      BY <2>4
    <3>3. QED
      BY <2>4, <3>1, <3>2
  <2>5. QED
    BY <2>1, <2>2, <2>3, <2>4
<1>7. IsWalk("CHAT_RECEIVED", s)
  BY <1>1, <1>3, <1>5, <1>6, Edges DEF IsWalk, E
<1>8. ASSUME x = "ABORTED", NEW i \in 1..Len(s) PROVE s[i] # "DONE"
  <2>1. i \in 1..8 \/ i = 9 \/ i = 10
    BY <1>3
  <2>2. \A j \in 1..8 : E[j] # "DONE"
    BY DEF E, ExternalPrefixPhases
  <2>3. QED
    BY <1>3, <1>4, <1>8, <2>1, <2>2
<1>9. EndOf("CHAT_RECEIVED", s) = x
  BY <1>3, <1>5 DEF EndOf
<1>10. QED
  BY <1>3, <1>7, <1>8, <1>9 DEF s

\* One step of a walk leaves a walk with the same end.
LEMMA WalkOn ==
  ASSUME NEW from, NEW phases \in Seq(RunPhase), phases # << >>, IsWalk(from, phases)
  PROVE  /\ validateTransition(from, Head(phases), FALSE)
         /\ Head(phases) \in RunPhase /\ Tail(phases) \in Seq(RunPhase)
         /\ IsWalk(Head(phases), Tail(phases))
         /\ EndOf(Head(phases), Tail(phases)) = EndOf(from, phases)
<1> DEFINE t == Tail(phases)
           n == Len(phases)
<1>1. /\ n \in Nat /\ n >= 1 /\ Head(phases) = phases[1] /\ Head(phases) \in RunPhase
      /\ t \in Seq(RunPhase) /\ Len(t) = n - 1
  OBVIOUS
<1>2. \A i \in 1..(n-1) : t[i] = phases[i+1]
  OBVIOUS
<1>3. validateTransition(from, Head(phases), FALSE)
  BY <1>1 DEF IsWalk
<1>4. /\ isTerminalRunPhase(phases[n])
      /\ \A i \in 1..(n-1) : validateTransition(phases[i], phases[i+1], FALSE)
  BY DEF IsWalk
<1> HIDE DEF t, n
<1>5. CASE n = 1
  <2>1. t = << >> /\ \A i \in 1..(Len(t) - 1) : FALSE
    BY <1>1, <1>5
  <2>2. IsWalk(Head(phases), t)
    BY <1>1, <1>4, <1>5, <2>1 DEF IsWalk, isTerminalRunPhase
  <2>3. EndOf(Head(phases), t) = EndOf(from, phases)
    BY <1>1, <1>5, <2>1 DEF EndOf, n
  <2>4. QED
    BY <1>1, <1>3, <2>2, <2>3 DEF t
<1>6. CASE n # 1
  <2>1. t # << >> /\ n - 1 \in 1..(n-1) /\ 1 \in 1..(n-1)
    BY <1>1, <1>6
  <2>2. t[Len(t)] = phases[n] /\ t[1] = phases[2]
    BY <1>1, <1>2, <2>1
  <2>3. validateTransition(phases[1], phases[2], FALSE)
    <3>1. \A i \in 1..(n-1) : i = 1 => validateTransition(phases[i], phases[2], FALSE)
      <4>1. \A i \in 1..(n-1) : i = 1 => i + 1 = 2
        OBVIOUS
      <4>2. QED
        BY <1>4, <4>1
    <3>2. QED
      BY <2>1, <3>1
  <2>4. ASSUME NEW i \in 1..(Len(t) - 1) PROVE validateTransition(t[i], t[i+1], FALSE)
    <3>1. i \in 1..(n-1) /\ i + 1 \in 1..(n-1)
      BY <1>1
    <3>2. QED
      BY <1>2, <1>4, <3>1
  <2>5. IsWalk(Head(phases), t)
    BY <1>1, <1>4, <2>1, <2>2, <2>3, <2>4 DEF IsWalk
  <2>6. EndOf(Head(phases), t) = EndOf(from, phases)
    BY <2>1, <2>2 DEF EndOf, n
  <2>7. QED
    BY <1>1, <1>3, <2>5, <2>6 DEF t
<1>7. QED
  BY <1>5, <1>6

------------------------------------------------------------------------------
(***************************************************************************)
(* What a step of the work does to its run: it goes on to another step, or *)
(* it decides a walk and an answer that fits where the walk ends.          *)
(***************************************************************************)
Sets(r, point, phases, status) ==
  /\ pc' = [pc EXCEPT ![r] = point]
  /\ script' = [script EXCEPT ![r] = phases]
  /\ answer' = [answer EXCEPT ![r] = status]

ranWell(r) == execution[r] \in {"SUCCESS", "SKIPPED"}

\* The answer of a run and the phase it ends in.
Agrees(end, status, ok, late) ==
  /\ end = "FAILED" => status = "FAILED"
  /\ status \in {"VALIDATED", "HEALED"} => end \in {"DONE", "ABORTED"} /\ ok
  /\ end = "DONE" /\ status = "FAILED" => late

NoDone(phases) == \A i \in 1..Len(phases) : phases[i] # "DONE"

GoesOn(r) ==
  \E step \in Work : /\ Sets(r, step, script[r], answer[r])
                     /\ step = "synthesize" => passed(r)'

Decides(r) ==
  \E phases \in Seq(RunPhase), status \in Status :
    /\ Sets(r, "replay", phases, status)
    /\ IsWalk("CHAT_RECEIVED", phases)
    /\ Agrees(EndOf("CHAT_RECEIVED", phases), status, ranWell(r)', FALSE)
    /\ isInterrupted(r) => NoDone(phases)

\* Going on writes no script and no answer.
LEMMA GoOnSets ==
  ASSUME ChatOk, NEW r \in Runs, NEW step, GoOn(r, step)
  PROVE  Sets(r, step, script[r], answer[r])
BY DEF ChatOk, GoOn, Sets

\* Going on to a step other than the synthesis.
LEMMA GoOnGoes ==
  ASSUME ChatOk, NEW r \in Runs, NEW step \in Work \ {"synthesize"}, GoOn(r, step)
  PROVE  GoesOn(r)
BY GoOnSets DEF GoesOn

\* Leaving after n phases through an exit decides the run.
LEMMA ExitDecides ==
  ASSUME NEW r \in Runs, NEW n \in 1..8, NEW x \in Exits, NEW status \in Status,
         Decide(r, Prefix(n) \o <<x>>, status),
         status \notin {"VALIDATED", "HEALED"}, x = "FAILED" => status = "FAILED"
  PROVE  Decides(r)
<1> DEFINE s == Prefix(n) \o <<x>>
<1>1. s \in Seq(RunPhase) /\ IsWalk("CHAT_RECEIVED", s) /\ EndOf("CHAT_RECEIVED", s) = x
      /\ NoDone(s)
  BY ExitWalk DEF NoDone
<1>2. x # "DONE"
  BY DEF Exits
<1>3. Sets(r, "replay", s, status)
  BY DEF Decide, Sets
<1> HIDE DEF s
<1>4. Agrees(EndOf("CHAT_RECEIVED", s), status, ranWell(r)', FALSE)
  BY <1>1, <1>2 DEF Agrees
<1>5. QED
  BY <1>1, <1>3, <1>4 DEF Decides

\* The planner goes on, or its blocker decides.
LEMMA PlanMoves ==
  ASSUME ChatOk, NEW r \in Runs, Plan(r)
  PROVE  GoesOn(r) \/ Decides(r)
<1>1. PICK result \in LivePlannerResult :
        IF result = "plan" THEN GoOn(r, "review") ELSE resolvePlannerBlocker(r, result)
  BY DEF Plan
<1>2. CASE result = "plan"
  BY <1>1, <1>2, GoOnGoes DEF Work
<1>3. CASE result = "PLANNER_INVALID"
  <2>1. Decide(r, Prefix(2) \o <<"FAILED">>, "FAILED")
    BY <1>1, <1>3 DEF resolvePlannerBlocker
  <2>2. QED
    BY <2>1, ExitDecides DEF Exits, Status
<1>4. CASE result \notin {"plan", "PLANNER_INVALID"}
  <2>1. Decide(r, Prefix(2) \o <<"NEEDS_DECISION">>, "NEEDS_DECISION")
    BY <1>1, <1>4 DEF resolvePlannerBlocker
  <2>2. QED
    BY <2>1, ExitDecides DEF Exits, Status
<1>5. QED
  BY <1>2, <1>3, <1>4

\* The skeptic goes on, or its blocker decides.
LEMMA ReviewMoves ==
  ASSUME ChatOk, NEW r \in Runs, Review(r)
  PROVE  GoesOn(r) \/ Decides(r)
<1>1. GoOn(r, "compile") \/ resolveSkepticBlocker(r)
  BY DEF Review
<1>2. CASE GoOn(r, "compile")
  BY <1>2, GoOnGoes DEF Work
<1>3. CASE resolveSkepticBlocker(r)
  <2>1. Decide(r, Prefix(4) \o <<"FAILED">>, "FAILED")
    BY <1>3 DEF resolveSkepticBlocker
  <2>2. QED
    BY <2>1, ExitDecides DEF Exits, Status
<1>4. QED
  BY <1>1, <1>2, <1>3

\* Compiling may also throw.
CompileThrowsStep(r) ==
  /\ r \in MayThrow
  /\ thrown' = [thrown EXCEPT ![r] = "compile"]
  /\ Sets(r, "throwing", script[r], answer[r])
  /\ clearRunControl(r)

\* The compilation goes on, decides, or throws.
LEMMA CompileMoves ==
  ASSUME ChatOk, NEW r \in Runs, Compile(r)
  PROVE  \/ (GoesOn(r) \/ Decides(r)) /\ UNCHANGED <<registry, thrown>>
         \/ CompileThrowsStep(r)
<1>1. CASE GoOn(r, "execute") /\ UNCHANGED <<registry, thrown>>
  BY <1>1, GoOnGoes DEF Work
<1>2. CASE resolveCodeEditWithoutSandbox(r) /\ UNCHANGED <<registry, thrown>>
  <2>1. Decide(r, Prefix(6) \o <<"NEEDS_DECISION">>, "SKIPPED")
    BY <1>2 DEF resolveCodeEditWithoutSandbox
  <2>2. QED
    BY <1>2, <2>1, ExitDecides DEF Exits, Status
<1>3. CASE /\ r \in MayThrow /\ thrown' = [thrown EXCEPT ![r] = "compile"]
           /\ GoOn(r, "throwing") /\ clearRunControl(r)
  BY <1>3, GoOnSets DEF CompileThrowsStep
<1>4. QED
  BY <1>1, <1>2, <1>3 DEF Compile

\* The execution goes on, or an interrupt decides.
LEMMA ExecuteMoves ==
  ASSUME ChatOk, NEW r \in Runs, Execute(r)
  PROVE  GoesOn(r) \/ Decides(r)
<1>1. CASE isInterrupted(r)
  <2>1. Decide(r, Prefix(7) \o <<"ABORTED">>, "FAILED")
    BY <1>1 DEF Execute
  <2>2. QED
    BY <2>1, ExitDecides DEF Exits, Status
<1>2. CASE ~isInterrupted(r)
  BY <1>2, GoOnGoes DEF Work, Execute
<1>3. QED
  BY <1>1, <1>2

\* The end of healing goes on to the synthesis, or decides.
LEMMA HealedMoves ==
  ASSUME ChatOk, NEW r \in Runs, NEW status \in {"VALIDATED", "HEALED", "FAILED", "NEEDS_DECISION"},
         Healed(r, status), status \in {"VALIDATED", "HEALED"} => passed(r)'
  PROVE  GoesOn(r) \/ Decides(r)
<1>1. CASE isInterrupted(r)
  <2>1. Decide(r, Prefix(8) \o <<"ABORTED">>, "FAILED")
    BY <1>1 DEF Healed
  <2>2. QED
    BY <2>1, ExitDecides DEF Exits, Status
<1>2. CASE ~isInterrupted(r) /\ status \in {"VALIDATED", "HEALED"}
  <2>1. GoOn(r, "synthesize")
    BY <1>2 DEF Healed
  <2>2. QED
    BY <1>2, <2>1, GoOnSets DEF GoesOn, Work
<1>3. CASE ~isInterrupted(r) /\ status \in {"FAILED", "NEEDS_DECISION"}
  <2>1. Decide(r, Prefix(8) \o <<status>>, "FAILED")
    BY <1>3 DEF Healed
  <2>2. QED
    BY <1>3, <2>1, ExitDecides DEF Exits, Status
<1>4. QED
  BY <1>1, <1>2, <1>3

\* The validation passes, fails, or asks for a repair.
LEMMA ValidateMoves ==
  ASSUME ChatOk, NEW r \in Runs, Validate(r)
  PROVE  GoesOn(r) \/ Decides(r)
<1>1. UNCHANGED <<verdict, execution>>
  BY DEF Validate
<1>2. passed(r)' = passed(r)
  BY <1>1 DEF passed, compiled
<1>3. \/ passed(r) /\ Healed(r, IF attempts[r] > 0 THEN "HEALED" ELSE "VALIDATED")
      \/ Healed(r, "NEEDS_DECISION")
      \/ Healed(r, "FAILED")
      \/ GoOn(r, "repair")
  BY DEF Validate
<1>4. CASE passed(r) /\ Healed(r, IF attempts[r] > 0 THEN "HEALED" ELSE "VALIDATED")
  BY <1>2, <1>4, HealedMoves
<1>5. CASE Healed(r, "NEEDS_DECISION")
  BY <1>5, HealedMoves
<1>6. CASE Healed(r, "FAILED")
  BY <1>6, HealedMoves
<1>7. CASE GoOn(r, "repair")
  BY <1>7, GoOnGoes DEF Work
<1>8. QED
  BY <1>3, <1>4, <1>5, <1>6, <1>7

\* A repair is validated again, or healing ends.
LEMMA RepairMoves ==
  ASSUME ChatOk, NEW r \in Runs, Repair(r)
  PROVE  GoesOn(r) \/ Decides(r)
<1>1. (\E status \in {"FAILED", "NEEDS_DECISION"} : Healed(r, status)) \/ GoOn(r, "validate")
  BY DEF Repair
<1>2. CASE GoOn(r, "validate")
  BY <1>2, GoOnGoes DEF Work
<1>3. ASSUME NEW status \in {"FAILED", "NEEDS_DECISION"}, Healed(r, status)
      PROVE  GoesOn(r) \/ Decides(r)
  BY <1>3, HealedMoves
<1>4. QED
  BY <1>1, <1>2, <1>3

\* The synthesis decides: DONE, or ABORTED after an interrupt.
LEMMA SynthesizeMoves ==
  ASSUME ChatOk, NEW r \in Runs, Synthesize(r), passed(r)
  PROVE  Decides(r)
<1> DEFINE x == IF isInterrupted(r) THEN "ABORTED" ELSE "DONE"
           s == Prefix(8) \o <<"SYNTHESIZING", x>>
           status == synthesisStatus(r)
<1>1. Decide(r, s, status)
  BY DEF Synthesize
<1>2. status \in {"VALIDATED", "HEALED", "BLOCKED", "NEEDS_DECISION"}
      /\ (status \in {"VALIDATED", "HEALED"} => verdict[r] = "ACCEPTED")
  BY DEF synthesisStatus
<1>3. ranWell(r)' <=> ranWell(r)
  BY DEF Synthesize, outcomeVars, ranWell
<1>4. status \in {"VALIDATED", "HEALED"} => ranWell(r)'
  BY <1>2, <1>3 DEF passed, compiled, ranWell
<1>5. x \in {"ABORTED", "DONE"} /\ (isInterrupted(r) => x = "ABORTED")
  OBVIOUS
<1> HIDE DEF x, status
<1>6. /\ s \in Seq(RunPhase) /\ IsWalk("CHAT_RECEIVED", s) /\ EndOf("CHAT_RECEIVED", s) = x
      /\ (x = "ABORTED" => NoDone(s))
  BY <1>5, LongWalk DEF NoDone
<1> HIDE DEF s
<1>7. Agrees(EndOf("CHAT_RECEIVED", s), status, ranWell(r)', FALSE)
  BY <1>2, <1>4, <1>5, <1>6 DEF Agrees
<1>8. QED
  BY <1>1, <1>2, <1>5, <1>6, <1>7 DEF Decides, Decide, Sets, Status

------------------------------------------------------------------------------
(***************************************************************************)
(* What holds of every run whatever happens to the others.                 *)
(***************************************************************************)
BaseOk(r) ==
  /\ pc[r] = "synthesize" => passed(r)
  /\ pc[r] \in Early \cup Work => phase[r] # "DONE"

BaseInv == TypeInv /\ \A r \in Runs : BaseOk(r)

\* Before the first message.
LEMMA InitBaseInv == Init => BaseInv
<1> SUFFICES ASSUME Init PROVE BaseInv
  OBVIOUS
<1>1. ChatOk
  <2>1. "CHAT_RECEIVED" \in RunPhase /\ "idle" \in Points /\ << >> \in Seq(RunPhase)
        /\ 0 \in 0..boundedLiveAttempts /\ "none" \in Status
    BY BoundedAttempts DEF RunPhase, Points, Status
  <2>2. QED
    BY <2>1 DEF Init, ChatOk
<1>2. ControlOk
  <2>1. Within(createRunControlState)
    BY CreatedState, RunControlAssumption DEF Within
  <2>2. control \in [Runs -> [Which -> ControlState]]
    BY CreatedState DEF Init, RunControlInit
  <2>3. ASSUME NEW r \in Runs, NEW w \in Which PROVE Within(control[r][w])
    BY <2>1 DEF Init, RunControlInit
  <2>4. QED
    BY <2>2, <2>3 DEF Init, RunControlInit, ControlOk
<1>3. RequestsOk
  BY DEF Init, RunControlInit, RequestsOk
<1>4. KnownOk
  BY DEF Init, KnownOk, KnownOnce
<1>5. ASSUME NEW r \in Runs PROVE BaseOk(r)
  BY DEF Init, BaseOk
<1>6. QED
  BY <1>1, <1>2, <1>3, <1>4, <1>5, TypeParts DEF BaseInv

\* A step of the work keeps the types if what it learned is typed.
LEMMA MovesTyped ==
  ASSUME ChatOk, NEW r \in Runs, GoesOn(r) \/ Decides(r),
         UNCHANGED <<phase, conversation, timedOut>>,
         verdict' \in [Runs -> CrucibleVerdict \cup {"none"}],
         execution' \in [Runs -> DagStatus \cup {"none"}],
         attempts' \in [Runs -> 0 .. boundedLiveAttempts],
         thrown' \in [Runs -> {"none", "compile", "transition"}]
  PROVE  ChatOk' /\ (\A q \in Runs : pc'[q] \in {"idle", "create"} => pc[q] \in {"idle", "create"})
<1>1. PICK point \in Points \ {"idle", "create"}, phases \in Seq(RunPhase), status \in Status :
        Sets(r, point, phases, status)
  <2>1. CASE GoesOn(r)
    BY <2>1 DEF GoesOn, ChatOk, Points, Work
  <2>2. CASE Decides(r)
    BY <2>2 DEF Decides, Points
  <2>3. QED
    BY <2>1, <2>2
<1>2. pc' \in [Runs -> Points] /\ script' \in [Runs -> Seq(RunPhase)] /\ answer' \in [Runs -> Status]
  BY <1>1 DEF ChatOk, Sets
<1>3. \A q \in Runs : pc'[q] \in {"idle", "create"} => pc[q] \in {"idle", "create"}
  BY <1>1 DEF ChatOk, Sets
<1>4. QED
  BY <1>2, <1>3 DEF ChatOk

\* The types of a step that moves along the work.
LEMMA WorkTyped ==
  ASSUME TypeInv, NEW r \in Runs, pc[r] = "synthesize" => passed(r),
         Plan(r) \/ Review(r) \/ Execute(r) \/ Validate(r) \/ Repair(r) \/ Synthesize(r)
  PROVE  TypeInv' /\ (GoesOn(r) \/ Decides(r))
<1>1. ChatOk /\ ControlOk /\ RequestsOk /\ KnownOk
  BY TypeParts
<1>2. GoesOn(r) \/ Decides(r)
  <2>1. CASE Plan(r)
    BY <1>1, <2>1, PlanMoves
  <2>2. CASE Review(r)
    BY <1>1, <2>2, ReviewMoves
  <2>3. CASE Execute(r)
    BY <1>1, <2>3, ExecuteMoves
  <2>4. CASE Validate(r)
    BY <1>1, <2>4, ValidateMoves
  <2>5. CASE Repair(r)
    BY <1>1, <2>5, RepairMoves
  <2>6. CASE Synthesize(r)
    BY <1>1, <2>6, SynthesizeMoves DEF Synthesize
  <2>7. QED
    BY <2>1, <2>2, <2>3, <2>4, <2>5, <2>6
<1>3. /\ UNCHANGED <<phase, conversation, timedOut, thrown, verdict>>
      /\ UNCHANGED <<known, control, registry, target, reply, announced>>
  BY DEF Plan, Review, Execute, Validate, Repair, Synthesize, outcomeVars, controlVars, requestVars
<1>4. execution' \in [Runs -> DagStatus \cup {"none"}]
  BY <1>1 DEF ChatOk, Plan, Review, Execute, Validate, Repair, Synthesize, outcomeVars
<1>5. attempts' \in [Runs -> 0 .. boundedLiveAttempts]
  <2>1. CASE UNCHANGED attempts
    BY <1>1, <2>1 DEF ChatOk
  <2>2. CASE Validate(r) /\ mayRepair(r) /\ attempts' = [attempts EXCEPT ![r] = @ + 1]
    <3>1. attempts[r] + 1 \in 0 .. boundedLiveAttempts
      BY <1>1, <2>2, BoundedAttempts DEF ChatOk, mayRepair
    <3>2. QED
      BY <1>1, <2>2, <3>1 DEF ChatOk
  <2>3. QED
    BY <2>1, <2>2 DEF Plan, Review, Execute, Validate, Repair, Synthesize, outcomeVars
<1>6. verdict' \in [Runs -> CrucibleVerdict \cup {"none"}]
      /\ thrown' \in [Runs -> {"none", "compile", "transition"}]
  BY <1>1, <1>3 DEF ChatOk
<1>7. ChatOk' /\ KnownOk'
  BY <1>1, <1>2, <1>3, <1>4, <1>5, <1>6, MovesTyped, KnownKept
<1>8. ControlOk' /\ RequestsOk'
  BY <1>1, <1>3, RegistryTyped DEF ControlOk, RequestsOk
<1>9. QED
  BY <1>2, <1>7, <1>8, TypePartsNext

\* Compilation keeps the types, also when it throws.
LEMMA CompileTyped ==
  ASSUME TypeInv, NEW r \in Runs, Compile(r)
  PROVE  TypeInv'
<1>1. ChatOk /\ ControlOk /\ RequestsOk /\ KnownOk
  BY TypeParts
<1>2. UNCHANGED <<phase, known, control, target, reply, announced, conversation, execution,
                  attempts, timedOut>>
  BY DEF Compile, requestVars
<1>3. verdict' \in [Runs -> CrucibleVerdict \cup {"none"}]
  BY <1>1 DEF Compile, ChatOk, CrucibleVerdict
<1>4. RequestsOk'
  BY <1>1, <1>2 DEF RequestsOk
<1>5. execution' \in [Runs -> DagStatus \cup {"none"}] /\ attempts' \in [Runs -> 0 .. boundedLiveAttempts]
  BY <1>1, <1>2 DEF ChatOk
<1>6. CASE (GoesOn(r) \/ Decides(r)) /\ UNCHANGED <<registry, thrown>>
  <2>1. thrown' \in [Runs -> {"none", "compile", "transition"}]
    BY <1>1, <1>6 DEF ChatOk
  <2>2. ChatOk' /\ KnownOk'
    BY <1>1, <1>2, <1>3, <1>5, <1>6, <2>1, MovesTyped, KnownKept
  <2>3. ControlOk'
    BY <1>1, <1>2, <1>6, RegistryTyped DEF ControlOk
  <2>4. QED
    BY <1>4, <2>2, <2>3, TypePartsNext
<1>7. CASE CompileThrowsStep(r)
  <2>1. ChatOk'
    BY <1>1, <1>2, <1>3, <1>5, <1>7 DEF ChatOk, CompileThrowsStep, Sets, Points
  <2>2. KnownOk'
    BY <1>1, <1>2, <1>7, KnownKept DEF ChatOk, CompileThrowsStep, Sets
  <2>3. ControlOk'
    BY <1>1, <1>2, <1>7, ClearTyped DEF CompileThrowsStep
  <2>4. QED
    BY <1>4, <2>1, <2>2, <2>3, TypePartsNext
<1>8. QED
  BY <1>1, <1>6, <1>7, CompileMoves

\* The steps before the work.
LEMMA EarlyTyped ==
  ASSUME TypeInv, NEW r \in Runs, Start(r) \/ CreateRun(r) \/ Register(r) \/ Prepare(r)
  PROVE  TypeInv'
<1>1. ChatOk /\ ControlOk /\ RequestsOk /\ KnownOk
  BY TypeParts
<1>2. UNCHANGED <<phase, target, reply, announced, verdict, execution, attempts, script, answer,
                  timedOut, thrown>>
  BY DEF Start, CreateRun, Register, Prepare, outcomeVars, requestVars
<1>3. RequestsOk'
  BY <1>1, <1>2 DEF RequestsOk
<1>4. ChatOk'
  <2>0. PICK p \in {"create", "register", "prepare", "plan"} : pc' = [pc EXCEPT ![r] = p]
    BY DEF Start, CreateRun, Register, Prepare
  <2>1. pc' \in [Runs -> Points]
    BY <1>1, <2>0 DEF ChatOk, Points, Work
  <2>2. conversation' \in [Runs -> {"parent", "child"}]
    BY <1>1 DEF ChatOk, Start, CreateRun, Register, Prepare
  <2>3. QED
    BY <1>1, <1>2, <2>1, <2>2 DEF ChatOk
<1>5. ControlOk'
  <2>1. CASE Start(r)
    BY <1>1, <2>1, CleanupTyped, RegistryTyped DEF Start
  <2>2. CASE CreateRun(r) \/ Prepare(r)
    BY <1>1, <2>2, RegistryTyped DEF CreateRun, Prepare, controlVars, ControlOk
  <2>3. CASE Register(r)
    <3>1. control' = [control EXCEPT ![r]["own"] = touch(control[r]["own"])]
      BY <1>1, <2>3 DEF Register, ControlOk
    <3>2. registry' \in [Runs -> Which \cup {"none"}] /\ "own" \in Which
      BY <1>1, <2>3, CleanupTyped DEF Register, Which
    <3>3. Within(touch(control[r]["own"]))
      BY <1>1, <3>2, TouchWithin DEF ControlOk
    <3>4. QED
      BY <1>1, <3>1, <3>2, <3>3, ControlSet
  <2>4. QED
    BY <2>1, <2>2, <2>3
<1>6. KnownOk'
  <2>1. CASE CreateRun(r)
    <3>1. known' = Append(known, r) /\ pc' = [pc EXCEPT ![r] = "register"] /\ pc[r] = "create"
      BY <2>1 DEF CreateRun
    <3>2. known \in Seq(Runs) /\ \A i \in DOMAIN known : known[i] # r
      BY <1>1, <3>1 DEF KnownOk, KnownOnce
    <3>3. known' \in Seq(Runs) /\ DOMAIN known' = DOMAIN known \cup {Len(known) + 1}
          /\ known'[Len(known) + 1] = r /\ \A i \in DOMAIN known : known'[i] = known[i]
      BY <3>1, <3>2
    <3>4. \A i, j \in DOMAIN known' : known'[i] = known'[j] => i = j
      BY <1>1, <3>2, <3>3 DEF KnownOk
    <3>5. ASSUME NEW q \in Runs, pc'[q] \in {"idle", "create"}
          PROVE  \A i \in DOMAIN known' : known'[i] # q
      <4>1. q # r /\ pc[q] \in {"idle", "create"}
        BY <1>1, <3>1, <3>5 DEF ChatOk
      <4>2. QED
        BY <1>1, <3>3, <4>1 DEF KnownOk, KnownOnce
    <3>6. QED
      BY <3>3, <3>4, <3>5 DEF KnownOk, KnownOnce
  <2>2. CASE Start(r) \/ Register(r) \/ Prepare(r)
    BY <1>1, <2>2, KnownKept DEF Start, Register, Prepare, ChatOk
  <2>3. QED
    BY <2>1, <2>2
<1>7. QED
  BY <1>3, <1>4, <1>5, <1>6, TypePartsNext

\* The steps of the walk and after it.
LEMMA WalkTyped ==
  ASSUME TypeInv, NEW r \in Runs,
         Advance(r) \/ Resolve(r) \/ Return(r) \/ OrchestrationTimeoutResult(r)
  PROVE  TypeInv'
<1>1. ChatOk /\ ControlOk /\ RequestsOk /\ KnownOk
  BY TypeParts
<1>2. UNCHANGED <<known, control, target, reply, announced, conversation, verdict, execution,
                  attempts, timedOut>>
  BY DEF Advance, Resolve, Return, OrchestrationTimeoutResult, outcomeVars, requestVars
<1>3. RequestsOk'
  BY <1>1, <1>2 DEF RequestsOk
<1>4. ControlOk'
  <2>1. CASE clearRunControl(r)
    BY <1>1, <1>2, <2>1, ClearTyped
  <2>2. CASE UNCHANGED registry
    BY <1>1, <1>2, <2>2, RegistryTyped DEF ControlOk
  <2>3. QED
    BY <2>1, <2>2 DEF Advance, Resolve, Return, OrchestrationTimeoutResult
<1>5. phase' \in [Runs -> RunPhase]
  <2>1. CASE Advance(r)
    <3>1. script[r] \in Seq(RunPhase) /\ (script[r] # << >> => Head(script[r]) \in RunPhase)
      BY <1>1 DEF ChatOk
    <3>2. QED
      BY <1>1, <2>1, <3>1 DEF Advance, ChatOk
  <2>2. CASE Resolve(r) \/ Return(r)
    BY <1>1, <2>2 DEF Resolve, Return, ChatOk
  <2>3. CASE OrchestrationTimeoutResult(r)
    <3>1. "FAILED" \in RunPhase
      BY DEF RunPhase
    <3>2. QED
      BY <1>1, <2>3, <3>1 DEF OrchestrationTimeoutResult, ChatOk
  <2>4. QED
    BY <2>1, <2>2, <2>3
<1>a. \/ pc' = pc
      \/ \E p \in {"throwing", "resolved", "returned", "rejected"} : pc' = [pc EXCEPT ![r] = p]
  <2>1. CASE Advance(r)
    BY <2>1 DEF Advance, GoOn
  <2>2. CASE Resolve(r)
    BY <2>2 DEF Resolve, GoOn
  <2>3. CASE Return(r)
    BY <2>3 DEF Return
  <2>4. CASE OrchestrationTimeoutResult(r)
    BY <2>4 DEF OrchestrationTimeoutResult, GoOn
  <2>5. QED
    BY <2>1, <2>2, <2>3, <2>4
<1>6. pc' \in [Runs -> Points]
  BY <1>1, <1>a DEF ChatOk, Points
<1>7. script' \in [Runs -> Seq(RunPhase)]
  <2>1. script[r] \in Seq(RunPhase) /\ (script[r] # << >> => Tail(script[r]) \in Seq(RunPhase))
    BY <1>1 DEF ChatOk
  <2>2. script' = script \/ (script[r] # << >> /\ script' = [script EXCEPT ![r] = Tail(script[r])])
    <3>1. CASE Advance(r)
      BY <1>1, <3>1 DEF Advance, GoOn, ChatOk
    <3>2. CASE Resolve(r) \/ Return(r) \/ OrchestrationTimeoutResult(r)
      BY <3>2 DEF Resolve, Return, OrchestrationTimeoutResult, GoOn
    <3>3. QED
      BY <3>1, <3>2
  <2>3. CASE script' = script
    BY <1>1, <2>3 DEF ChatOk
  <2>4. CASE script[r] # << >> /\ script' = [script EXCEPT ![r] = Tail(script[r])]
    BY <1>1, <2>1, <2>4 DEF ChatOk
  <2>5. QED
    BY <2>2, <2>3, <2>4
<1>8. answer' \in [Runs -> Status]
  BY <1>1 DEF Advance, Resolve, Return, OrchestrationTimeoutResult, GoOn, ChatOk, Status
<1>9. thrown' \in [Runs -> {"none", "compile", "transition"}]
  BY <1>1 DEF Advance, Resolve, Return, OrchestrationTimeoutResult, ChatOk
<1>10. ChatOk'
  BY <1>1, <1>2, <1>5, <1>6, <1>7, <1>8, <1>9 DEF ChatOk
<1>11. \A q \in Runs : pc'[q] \in {"idle", "create"} => pc[q] \in {"idle", "create"}
  BY <1>1, <1>a DEF ChatOk
<1>12. KnownOk'
  BY <1>1, <1>2, <1>11, KnownKept
<1>13. QED
  BY <1>3, <1>4, <1>10, <1>12, TypePartsNext

\* Requests, steering, time and the timer: the runs themselves do not move.
LEMMA AsideTyped ==
  ASSUME TypeInv, UNCHANGED <<phase, known, conversation, pc, verdict, execution, attempts, script,
                              answer, thrown>>,
         timedOut' \in [Runs -> BOOLEAN], ControlOk', RequestsOk'
  PROVE  TypeInv'
<1>1. ChatOk /\ KnownOk
  BY TypeParts
<1>2. ChatOk'
  BY <1>1 DEF ChatOk
<1>3. KnownOk'
  BY <1>1, KnownKept
<1>4. QED
  BY <1>2, <1>3, TypePartsNext

\* A node drains one steering message.
LEMMA RunNodeTyped ==
  ASSUME TypeInv, NEW r \in Runs, RunNode(r)
  PROVE  TypeInv'
<1>1. ControlOk /\ RequestsOk /\ ChatOk
  BY TypeParts
<1> DEFINE own == control[r]["own"]
           after == touch([own EXCEPT !.steerQueue = IF @ = << >> THEN @ ELSE Tail(@)])
<1>2. control' = [control EXCEPT ![r]["own"] = after] /\ "own" \in Which
  <2>1. "own" \in Which
    BY DEF Which
  <2>2. control' = [control EXCEPT ![r]["own"] = after]
    BY DEF RunNode, drainSteer
  <2>3. QED
    BY <2>1, <2>2
<1>3. Within(own)
  BY <1>1, <1>2 DEF ControlOk
<1>4. Within(after)
  BY <1>3, DrainWithin
<1> HIDE DEF after
<1>5. UNCHANGED registry
  BY DEF RunNode
<1>6. ControlOk'
  BY <1>1, <1>2, <1>4, <1>5, ControlSet DEF ControlOk
<1>7. RequestsOk'
  BY <1>1 DEF RunNode, requestVars, RequestsOk
<1>8. QED
  BY <1>1, <1>6, <1>7, AsideTyped DEF RunNode, chatVars, outcomeVars, ChatOk

\* The timer aborts the control state of its own run.
LEMMA TimeOutTyped ==
  ASSUME TypeInv, NEW r \in Runs, TimeOut(r)
  PROVE  TypeInv'
<1>1. ControlOk /\ RequestsOk /\ ChatOk
  BY TypeParts
<1> DEFINE own == control[r]["own"]
           after == [own EXCEPT !.aborted = TRUE]
<1>2. control' = [control EXCEPT ![r]["own"] = after] /\ "own" \in Which
  BY <1>1 DEF TimeOut, ControlOk, Which
<1>3. Within(own)
  BY <1>1, <1>2 DEF ControlOk
<1>4. Within(after)
  BY <1>3 DEF Within, ControlState
<1> HIDE DEF after
<1>5. ControlOk'
  BY <1>1, <1>2, <1>4, ControlSet DEF ControlOk, TimeOut
<1>6. RequestsOk' /\ timedOut' \in [Runs -> BOOLEAN]
  BY <1>1 DEF TimeOut, requestVars, RequestsOk, ChatOk
<1>7. QED
  BY <1>5, <1>6, AsideTyped DEF TimeOut, outcomeVars

\* A control state that outlives its time to live is marked.
LEMMA OutliveTyped ==
  ASSUME TypeInv, NEW r \in Runs, OutliveTimeToLive(r), UNCHANGED chatVars
  PROVE  TypeInv'
<1>1. ControlOk /\ RequestsOk /\ ChatOk
  BY TypeParts
<1> DEFINE w == registry[r]
           after == [control[r][w] EXCEPT !.stale = TRUE]
<1>2. control' = [control EXCEPT ![r][w] = after] /\ w \in Which /\ UNCHANGED registry
  BY <1>1 DEF OutliveTimeToLive, ControlOk
<1>3. Within(control[r][w])
  BY <1>1, <1>2 DEF ControlOk
<1>4. Within(after)
  BY <1>3 DEF Within, ControlState
<1> HIDE DEF after, w
<1>5. ControlOk'
  BY <1>1, <1>2, <1>4, ControlSet DEF ControlOk
<1>6. RequestsOk'
  BY <1>1 DEF OutliveTimeToLive, requestVars, RequestsOk
<1>7. QED
  BY <1>1, <1>5, <1>6, AsideTyped DEF OutliveTimeToLive, chatVars, outcomeVars, ChatOk

\* Interrupts and steers change a control state within its bound.
LEMMA RequestTyped ==
  ASSUME TypeInv, NEW q \in Requests, Request(q)
  PROVE  TypeInv'
<1>1. ControlOk /\ RequestsOk /\ ChatOk
  BY TypeParts
<1> DEFINE r == target[q]
<1>2. r \in Runs
  BY <1>1 DEF RequestsOk
<1>3. stateFor(r) \in Which /\ Within(stateBefore(r))
      /\ registered(r, stateFor(r)) \in [Runs -> Which \cup {"none"}]
  BY <1>1, <1>2, StateForTyped, CleanupTyped
<1>4. UNCHANGED chatVars /\ UNCHANGED <<phase, known, target>>
  BY DEF Request, ReadRun, interruptRun, steerRun
<1>5. RequestsOk'
  BY <1>1, <1>4 DEF RequestsOk, Request, ReadRun, interruptRun, steerRun
<1>6. ControlOk'
  <2>1. CASE ReadRun(q)
    BY <1>1, <2>1, RegistryTyped DEF ReadRun, controlVars, ControlOk
  <2>2. CASE interruptRun(q)
    <3>1. Within(requestInterrupt(stateBefore(r)))
      BY <1>3, InterruptWithin
    <3>2. QED
      BY <1>1, <1>2, <1>3, <2>2, <3>1, ControlSet DEF interruptRun
  <2>3. CASE steerRun(q)
    <3> DEFINE before == stateBefore(r)
               after == [before EXCEPT !.steerQueue = enqueueSteer(before.steerQueue, q)]
    <3>1. q \in Steers
      BY <2>3 DEF steerRun
    <3>2. Within(touch(after))
      BY <1>3, <3>1, SteerWithin, TouchWithin
    <3>3. control' = [control EXCEPT ![r][stateFor(r)] = touch(after)]
          /\ registry' = registered(r, stateFor(r))
      BY <2>3 DEF steerRun
    <3> HIDE DEF after, r
    <3>4. QED
      BY <1>1, <1>2, <1>3, <3>2, <3>3, ControlSet
  <2>4. QED
    BY <2>1, <2>2, <2>3 DEF Request
<1>7. QED
  BY <1>1, <1>4, <1>5, <1>6, AsideTyped DEF chatVars, outcomeVars, ChatOk

\* Every step keeps the types.
LEMMA TypeNext == BaseInv /\ [Next]_vars => TypeInv'
<1> SUFFICES ASSUME BaseInv, [Next]_vars PROVE TypeInv'
  OBVIOUS
<1>0. TypeInv /\ \A r \in Runs : pc[r] = "synthesize" => passed(r)
  BY DEF BaseInv, BaseOk
<1>1. ASSUME NEW r \in Runs, Step(r) PROVE TypeInv'
  BY <1>0, <1>1, EarlyTyped, WorkTyped, CompileTyped, WalkTyped DEF Step
<1>2. ASSUME NEW r \in Runs, RunNode(r) PROVE TypeInv'
  BY <1>0, <1>2, RunNodeTyped
<1>3. ASSUME NEW r \in Runs, TimeOut(r) PROVE TypeInv'
  BY <1>0, <1>3, TimeOutTyped
<1>4. ASSUME NEW r \in Runs, OutliveTimeToLive(r) /\ UNCHANGED chatVars PROVE TypeInv'
  BY <1>0, <1>4, OutliveTyped
<1>5. ASSUME NEW q \in Requests, Request(q) PROVE TypeInv'
  BY <1>0, <1>5, RequestTyped
<1>6. CASE UNCHANGED vars
  <2>1. ControlOk /\ RequestsOk /\ ChatOk
    BY <1>0, TypeParts
  <2>2. ControlOk' /\ RequestsOk' /\ timedOut' \in [Runs -> BOOLEAN]
    BY <1>6, <2>1, RegistryTyped
    DEF vars, controlVars, requestVars, chatVars, ControlOk, RequestsOk, ChatOk
  <2>3. QED
    BY <1>0, <1>6, <2>2, AsideTyped DEF vars, chatVars, outcomeVars
<1>7. QED
  BY <1>1, <1>2, <1>3, <1>4, <1>5, <1>6 DEF Next

(***************************************************************************)
(* Who is touched by a step: the run that takes it; a timeout may also     *)
(* fail another one.                                                       *)
(***************************************************************************)
Same(d) == /\ pc'[d] = pc[d] /\ script'[d] = script[d] /\ answer'[d] = answer[d]
           /\ verdict'[d] = verdict[d] /\ execution'[d] = execution[d]
           /\ thrown'[d] = thrown[d]

\* A step of one run leaves the others alone.
LEMMA StepElsewhere ==
  ASSUME ChatOk, NEW r \in Runs, Step(r), NEW d \in Runs \ {r}
  PROVE  Same(d) /\ timedOut'[d] = timedOut[d]
<1>1. CASE Start(r) \/ CreateRun(r) \/ Register(r) \/ Prepare(r)
  BY <1>1 DEF Start, CreateRun, Register, Prepare, outcomeVars, Same, ChatOk
<1>2. CASE Plan(r) \/ Review(r)
  BY <1>2 DEF Plan, Review, resolvePlannerBlocker, resolveSkepticBlocker, GoOn, Decide,
              outcomeVars, Same, ChatOk
<1>3. CASE Compile(r)
  <2>1. UNCHANGED <<execution, timedOut>>
    BY <1>3 DEF Compile
  <2>2. verdict'[d] = verdict[d] /\ thrown'[d] = thrown[d]
    BY <1>3 DEF Compile, ChatOk
  <2>3. pc'[d] = pc[d] /\ script'[d] = script[d] /\ answer'[d] = answer[d]
    BY <1>3 DEF Compile, resolveCodeEditWithoutSandbox, GoOn, Decide, ChatOk
  <2>4. QED
    BY <2>1, <2>2, <2>3 DEF Same
<1>4. CASE Execute(r)
  BY <1>4 DEF Execute, GoOn, Decide, Same, ChatOk
<1>5. CASE Validate(r)
  BY <1>5 DEF Validate, Healed, GoOn, Decide, Same, ChatOk
<1>6. CASE Repair(r)
  BY <1>6 DEF Repair, Healed, GoOn, Decide, Same, ChatOk
<1>7. CASE Synthesize(r)
  BY <1>7 DEF Synthesize, Decide, outcomeVars, Same, ChatOk
<1>8. CASE Advance(r) \/ Resolve(r)
  BY <1>8 DEF Advance, Resolve, GoOn, outcomeVars, Same, ChatOk
<1>9. CASE Return(r)
  BY <1>9 DEF Return, outcomeVars, Same, ChatOk
<1>10. CASE OrchestrationTimeoutResult(r)
  BY <1>10 DEF OrchestrationTimeoutResult, GoOn, outcomeVars, Same, ChatOk
<1>11. QED
  BY <1>1, <1>2, <1>3, <1>4, <1>5, <1>6, <1>7, <1>8, <1>9, <1>10 DEF Step

\* A timeout leaves a phase alone or fails it; no other step touches another run's.
LEMMA PhaseElsewhere ==
  ASSUME ChatOk, NEW r \in Runs, Step(r), NEW d \in Runs \ {r}
  PROVE  phase'[d] = phase[d] \/ (OrchestrationTimeoutResult(r) /\ phase'[d] = "FAILED")
<1>1. CASE OrchestrationTimeoutResult(r)
  BY <1>1 DEF OrchestrationTimeoutResult, ChatOk
<1>2. CASE Advance(r)
  BY <1>2 DEF Advance, ChatOk
<1>3. CASE ~OrchestrationTimeoutResult(r) /\ ~Advance(r)
  <2>1. UNCHANGED phase
    BY <1>3 DEF Step, Start, CreateRun, Register, Prepare, Plan, Review, Compile, Execute,
                Validate, Repair, Synthesize, Resolve, Return
  <2>2. QED
    BY <2>1
<1>4. QED
  BY <1>1, <1>2, <1>3

\* What is no step of a run's own function moves no run.
LEMMA OthersAside ==
  ASSUME ChatOk, [Next]_vars, \A r \in Runs : ~Step(r), NEW d \in Runs
  PROVE  Same(d) /\ phase'[d] = phase[d]
<1>1. CASE \E r \in Runs : RunNode(r)
  BY <1>1 DEF RunNode, chatVars, outcomeVars, Same
<1>2. CASE \E r \in Runs : TimeOut(r)
  BY <1>2 DEF TimeOut, outcomeVars, Same
<1>3. CASE \E r \in Runs : OutliveTimeToLive(r) /\ UNCHANGED chatVars
  BY <1>3 DEF OutliveTimeToLive, chatVars, outcomeVars, Same
<1>4. CASE \E q \in Requests : Request(q)
  BY <1>4 DEF Request, ReadRun, interruptRun, steerRun, chatVars, outcomeVars, Same
<1>5. CASE UNCHANGED vars
  BY <1>5 DEF vars, chatVars, outcomeVars, Same
<1>6. QED
  BY <1>1, <1>2, <1>3, <1>4, <1>5 DEF Next

\* The steps of the work, and what they leave alone.
WorkStep(r) == \/ Plan(r) \/ Review(r) \/ Execute(r) \/ Validate(r) \/ Repair(r)
               \/ Synthesize(r) \/ Compile(r)

\* Every step of the work goes on, decides, or throws in the compilation.
LEMMA WorkStepMoves ==
  ASSUME BaseInv, NEW r \in Runs, WorkStep(r)
  PROVE  /\ pc[r] \in Work
         /\ UNCHANGED <<phase, timedOut, control>>
         /\ \/ (GoesOn(r) \/ Decides(r)) /\ UNCHANGED thrown
            \/ CompileThrowsStep(r)
<1>1. TypeInv /\ ChatOk /\ (pc[r] = "synthesize" => passed(r))
  BY TypeParts DEF BaseInv, BaseOk
<1>2. pc[r] \in Work /\ UNCHANGED <<phase, timedOut, control>>
  BY DEF WorkStep, Plan, Review, Compile, Execute, Validate, Repair, Synthesize, Work, controlVars
<1>3. CASE Compile(r)
  BY <1>1, <1>2, <1>3, CompileMoves
<1>4. CASE ~Compile(r)
  <2>1. GoesOn(r) \/ Decides(r)
    BY <1>1, <1>4, WorkTyped DEF WorkStep
  <2>2. UNCHANGED thrown
    BY <1>4 DEF WorkStep, Plan, Review, Execute, Validate, Repair, Synthesize
  <2>3. QED
    BY <1>2, <2>1, <2>2
<1>5. QED
  BY <1>3, <1>4

\* Every step keeps the base invariant.
LEMMA BaseNext == BaseInv /\ [Next]_vars => BaseInv'
<1> SUFFICES ASSUME BaseInv, [Next]_vars PROVE BaseInv'
  OBVIOUS
<1>1. TypeInv'
  BY TypeNext
<1>2. ChatOk
  BY TypeParts DEF BaseInv
<1>3. ASSUME NEW d \in Runs, Same(d), phase'[d] = phase[d] \/ phase'[d] = "FAILED"
      PROVE  BaseOk(d)'
  BY <1>3 DEF BaseInv, BaseOk, Same, passed, compiled
<1>4. ASSUME NEW r \in Runs, Step(r) PROVE \A d \in Runs : BaseOk(d)'
  <2>1. ASSUME NEW d \in Runs \ {r} PROVE BaseOk(d)'
    BY <1>2, <1>3, <1>4, StepElsewhere, PhaseElsewhere
  <2>2. BaseOk(r)'
    <3>1. CASE Start(r) \/ CreateRun(r) \/ Register(r) \/ Prepare(r)
      <4>1. PICK p \in {"create", "register", "prepare", "plan"} : pc' = [pc EXCEPT ![r] = p]
        BY <3>1 DEF Start, CreateRun, Register, Prepare
      <4>2. pc[r] \in Early \cup Work /\ UNCHANGED phase
        BY <3>1 DEF Start, CreateRun, Register, Prepare, Early, Work
      <4>3. QED
        BY <1>2, <4>1, <4>2 DEF BaseInv, BaseOk, ChatOk
    <3>2. CASE WorkStep(r)
      <4>1. /\ pc[r] \in Work /\ UNCHANGED phase
            /\ GoesOn(r) \/ Decides(r) \/ CompileThrowsStep(r)
        BY <3>2, WorkStepMoves
      <4>2. CASE GoesOn(r)
        BY <1>2, <4>1, <4>2 DEF GoesOn, Sets, BaseInv, BaseOk, ChatOk
      <4>3. CASE Decides(r) \/ CompileThrowsStep(r)
        BY <1>2, <4>3 DEF Decides, CompileThrowsStep, Sets, BaseOk, ChatOk, Early, Work
      <4>4. QED
        BY <4>1, <4>2, <4>3
    <3>3. CASE Advance(r) \/ Resolve(r) \/ Return(r) \/ OrchestrationTimeoutResult(r)
      <4>1. pc'[r] \in {"replay", "throwing", "resolved", "returned", "rejected"}
        BY <1>2, <3>3 DEF Advance, Resolve, Return, OrchestrationTimeoutResult, GoOn, ChatOk
      <4>2. QED
        BY <4>1 DEF BaseOk, Early, Work
    <3>4. QED
      BY <1>4, <3>1, <3>2, <3>3 DEF Step, WorkStep
  <2>3. QED
    BY <2>1, <2>2
<1>5. CASE \A r \in Runs : ~Step(r)
  BY <1>1, <1>2, <1>3, <1>5, OthersAside DEF BaseInv
<1>6. QED
  BY <1>1, <1>4, <1>5 DEF BaseInv

------------------------------------------------------------------------------
(***************************************************************************)
(* An interrupted run.  From the moment its own control state says so, a   *)
(* working run can only decide on a walk without DONE.                     *)
(***************************************************************************)
Stopped(r) ==
  /\ phase[r] # "DONE"
  /\ \/ pc[r] \in Work /\ isInterrupted(r)
     \/ pc[r] = "replay" /\ NoDone(script[r])
     \/ pc[r] \in {"resolved", "throwing", "returned", "rejected"}

\* Nothing takes an interrupt back.
LEMMA InterruptStays ==
  ASSUME BaseInv, [Next]_vars, NEW r \in Runs, isInterrupted(r)
  PROVE  isInterrupted(r)'
<1>1. ControlOk /\ RequestsOk
  BY TypeParts DEF BaseInv
<1>2. CASE control' = control
  BY <1>2 DEF isInterrupted
<1>3. ASSUME NEW p \in Runs, Register(p) PROVE isInterrupted(r)'
  BY <1>1, <1>3 DEF Register, touch, isInterrupted, ControlOk, ControlState, Which
<1>4. ASSUME NEW p \in Runs, RunNode(p) PROVE isInterrupted(r)'
  BY <1>1, <1>4 DEF RunNode, drainSteer, touch, isInterrupted, ControlOk, ControlState, Which
<1>5. ASSUME NEW p \in Runs, TimeOut(p) PROVE isInterrupted(r)'
  BY <1>1, <1>5 DEF TimeOut, isInterrupted, ControlOk, ControlState, Which
<1>6. ASSUME NEW p \in Runs, OutliveTimeToLive(p) PROVE isInterrupted(r)'
  BY <1>1, <1>6 DEF OutliveTimeToLive, isInterrupted, ControlOk, ControlState, Which
<1>7. ASSUME NEW p \in Runs, NEW state,
             control' = [control EXCEPT ![p][stateFor(p)] = state],
             stateBefore(p).aborted => state.aborted,
             stateBefore(p).interruptRequested => state.interruptRequested
      PROVE  isInterrupted(r)'
  <2>1. CASE p = r /\ stateFor(p) = "own"
    <3>1. stateBefore(p) = control[r]["own"]
      BY <1>1, <2>1 DEF stateFor, stateBefore, ControlOk, Which
    <3>2. control'[r]["own"] = state
      BY <1>1, <1>7, <2>1 DEF ControlOk, Which
    <3>3. QED
      BY <1>7, <3>1, <3>2 DEF isInterrupted
  <2>2. CASE ~(p = r /\ stateFor(p) = "own")
    <3>1. control'[r]["own"] = control[r]["own"]
      BY <1>1, <1>7, <2>2 DEF ControlOk, Which
    <3>2. QED
      BY <3>1 DEF isInterrupted
  <2>3. QED
    BY <2>1, <2>2
<1>8. ASSUME NEW q \in Requests, interruptRun(q) PROVE isInterrupted(r)'
  <2>1. target[q] \in Runs /\ Within(stateBefore(target[q]))
    BY <1>1, StateForTyped DEF RequestsOk
  <2> DEFINE state == requestInterrupt(stateBefore(target[q]))
  <2>2. state.aborted /\ state.interruptRequested
    BY <2>1 DEF requestInterrupt, touch, Within, ControlState
  <2>3. control' = [control EXCEPT ![target[q]][stateFor(target[q])] = state]
    BY <1>8 DEF interruptRun
  <2> HIDE DEF state
  <2>4. QED
    BY <1>7, <2>1, <2>2, <2>3
<1>9. ASSUME NEW q \in Requests, steerRun(q) PROVE isInterrupted(r)'
  <2> DEFINE before == stateBefore(target[q])
             state == touch([before EXCEPT !.steerQueue = enqueueSteer(before.steerQueue, q)])
  <2>1. target[q] \in Runs /\ Within(before)
    BY <1>1, StateForTyped DEF RequestsOk
  <2>2. state.aborted = before.aborted /\ state.interruptRequested = before.interruptRequested
    BY <2>1 DEF touch, Within, ControlState
  <2>3. control' = [control EXCEPT ![target[q]][stateFor(target[q])] = state]
    BY <1>9 DEF steerRun
  <2> HIDE DEF state
  <2>4. QED
    BY <1>7, <2>1, <2>2, <2>3
<1>10. ASSUME NEW q \in Requests, ReadRun(q) PROVE isInterrupted(r)'
  BY <1>2, <1>10 DEF ReadRun, controlVars
<1>11. ASSUME NEW p \in Runs, Step(p), ~Register(p) PROVE isInterrupted(r)'
  <2>1. control' = control
    BY <1>11 DEF Step, Start, CreateRun, Prepare, Plan, Review, Compile, Execute, Validate,
                Repair, Synthesize, Advance, Resolve, Return, OrchestrationTimeoutResult, controlVars
  <2>2. QED
    BY <1>2, <2>1
<1>12. CASE UNCHANGED vars
  BY <1>2, <1>12 DEF vars, controlVars
<1>13. QED
  BY <1>3, <1>4, <1>5, <1>6, <1>8, <1>9, <1>10, <1>11, <1>12 DEF Next, Request

\* A run that was told to stop never forgets it.
LEMMA StoppedStays ==
  ASSUME BaseInv, [Next]_vars, NEW r \in Runs, Stopped(r)
  PROVE  Stopped(r)'
<1>1. ChatOk
  BY TypeParts DEF BaseInv
<1>2. ASSUME Same(r), phase'[r] = phase[r] \/ phase'[r] = "FAILED" PROVE Stopped(r)'
  <2>1. pc[r] \in Work /\ isInterrupted(r) => isInterrupted(r)'
    BY InterruptStays
  <2>2. NoDone(script[r]) => NoDone(script[r])'
    BY <1>2 DEF Same, NoDone
  <2>3. QED
    BY <1>2, <2>1, <2>2 DEF Stopped, Same
<1>3. ASSUME NEW p \in Runs, Step(p), p # r PROVE Stopped(r)'
  BY <1>1, <1>2, <1>3, StepElsewhere, PhaseElsewhere
<1>4. CASE \A p \in Runs : ~Step(p)
  BY <1>1, <1>2, <1>4, OthersAside
<1>5. CASE Step(r)
  <2>1. CASE Start(r) \/ CreateRun(r) \/ Register(r)
    BY <2>1 DEF Stopped, Start, CreateRun, Register, Work
  <2>2. CASE Prepare(r)
    <3>1. pc[r] = "prepare" /\ pc'[r] = "plan" /\ phase' = phase
      BY <1>1, <2>2 DEF Prepare, ChatOk
    <3>2. isInterrupted(r)'
      BY <3>1, InterruptStays DEF Stopped
    <3>3. QED
      BY <3>1, <3>2 DEF Stopped, Work
  <2>3. CASE WorkStep(r)
    <3>1. /\ pc[r] \in Work /\ UNCHANGED phase
          /\ GoesOn(r) \/ Decides(r) \/ CompileThrowsStep(r)
      BY <2>3, WorkStepMoves
    <3>2. isInterrupted(r) /\ isInterrupted(r)'
      BY <3>1, InterruptStays DEF Stopped, Work
    <3>3. CASE GoesOn(r)
      BY <1>1, <3>1, <3>2, <3>3 DEF GoesOn, Sets, ChatOk, Stopped
    <3>4. CASE Decides(r)
      <4>1. PICK phases \in Seq(RunPhase), status \in Status :
              Sets(r, "replay", phases, status) /\ NoDone(phases)
        BY <3>2, <3>4 DEF Decides
      <4>2. pc'[r] = "replay" /\ script'[r] = phases
        BY <1>1, <4>1 DEF Sets, ChatOk
      <4>3. QED
        BY <3>1, <4>1, <4>2 DEF Stopped, NoDone
    <3>5. CASE CompileThrowsStep(r)
      BY <1>1, <3>1, <3>5 DEF CompileThrowsStep, Sets, ChatOk, Stopped
    <3>6. QED
      BY <3>1, <3>3, <3>4, <3>5
  <2>4. CASE Advance(r)
    <3>1. pc[r] = "replay" /\ script[r] # << >> /\ NoDone(script[r]) /\ script[r] \in Seq(RunPhase)
      BY <1>1, <2>4 DEF Advance, Stopped, Work, ChatOk
    <3>2. Head(script[r]) # "DONE" /\ NoDone(Tail(script[r]))
      BY <3>1 DEF NoDone
    <3>3. CASE /\ phase' = [phase EXCEPT ![r] = Head(script[r])]
               /\ script' = [script EXCEPT ![r] = Tail(@)] /\ UNCHANGED pc
      <4>1. phase'[r] = Head(script[r]) /\ script'[r] = Tail(script[r]) /\ pc'[r] = "replay"
        BY <1>1, <3>1, <3>3 DEF ChatOk
      <4>2. QED
        BY <3>2, <4>1 DEF Stopped, NoDone
    <3>4. CASE GoOn(r, "throwing") /\ UNCHANGED phase
      BY <1>1, <3>4 DEF GoOn, Stopped, ChatOk
    <3>5. QED
      BY <2>4, <3>3, <3>4 DEF Advance
  <2>5. CASE Resolve(r) \/ Return(r)
    BY <1>1, <2>5 DEF Resolve, Return, GoOn, Stopped, ChatOk
  <2>6. CASE OrchestrationTimeoutResult(r)
    BY <1>1, <2>6 DEF OrchestrationTimeoutResult, GoOn, Stopped, ChatOk
  <2>7. QED
    BY <1>5, <2>1, <2>2, <2>3, <2>4, <2>5, <2>6 DEF Step, WorkStep
<1>6. QED
  BY <1>3, <1>4, <1>5

(***************************************************************************)
(* However many runs, interrupts, steering messages and timeouts there     *)
(* are, whatever the work comes to and wherever between two checks the     *)
(* interrupt falls: once the control state that a working run watches is   *)
(* interrupted, that run never completes.                                  *)
(***************************************************************************)
THEOREM InterruptCorrect == Spec => InterruptStopsRun
<1>1. ASSUME NEW r \in Runs
      PROVE  Spec => [](isInterrupted(r) /\ pc[r] \in Work => [](phase[r] # "DONE"))
  <2>1. BaseInv /\ isInterrupted(r) /\ pc[r] \in Work => Stopped(r)
    BY DEF BaseInv, BaseOk, Stopped
  <2>2. BaseInv /\ [Next]_vars /\ Stopped(r) => Stopped(r)'
    BY StoppedStays
  <2>3. Stopped(r) => phase[r] # "DONE"
    BY DEF Stopped
  <2>4. QED
    BY <2>1, <2>2, <2>3, InitBaseInv, BaseNext, PTL DEF Spec
<1>2. QED
  BY <1>1 DEF InterruptStopsRun

------------------------------------------------------------------------------
(***************************************************************************)
(* The walk of a run.  A timeout of a run that threw is charged to the     *)
(* newest run of the conversation (chatRunner.ts:199-213).  Where that may *)
(* be another message's run, the walk of that run is cut short and what    *)
(* follows is false; so it is assumed here that no run both throws and     *)
(* times out unless it is the only one.                                    *)
(***************************************************************************)
TimeoutsStayHome == \A r \in MayThrow \cap MayTimeOut : Runs = {r}

RunOk(r) ==
  /\ thrown[r] # "transition"
  /\ timedOut[r] => r \in MayTimeOut
  /\ pc[r] \in Early \cup Work => phase[r] = "CHAT_RECEIVED" /\ thrown[r] = "none"
  /\ pc[r] = "throwing" => thrown[r] = "compile" /\ r \in MayThrow
  /\ pc[r] = "replay" => thrown[r] = "none" /\ IsWalk(phase[r], script[r])
  /\ pc[r] = "resolved" => thrown[r] = "none"
  /\ pc[r] \in {"resolved", "returned"} /\ thrown[r] = "none" =>
       script[r] = << >> /\ isTerminalRunPhase(phase[r])
  /\ pc[r] \in {"replay", "resolved", "returned"} /\ thrown[r] = "none" =>
       Agrees(EndOf(phase[r], script[r]), answer[r], ranWell(r), timedOut[r])

WalkInv == BaseInv /\ \A r \in Runs : RunOk(r)

\* Before the first message.
LEMMA InitWalkInv == Init => WalkInv
<1> SUFFICES ASSUME Init PROVE WalkInv
  OBVIOUS
<1>1. ASSUME NEW r \in Runs PROVE RunOk(r)
  BY DEF Init, RunOk, Early
<1>2. QED
  BY <1>1, InitBaseInv DEF WalkInv

\* A run that only its timer touched is as good as it was.
LEMMA RunOkKept ==
  ASSUME WalkInv, NEW d \in Runs, Same(d), phase'[d] = phase[d],
         timedOut[d] => timedOut'[d], timedOut'[d] => d \in MayTimeOut
  PROVE  RunOk(d)'
<1>1. RunOk(d)
  BY DEF WalkInv
<1>2. ranWell(d)' = ranWell(d)
  BY DEF Same, ranWell
<1>3. IsWalk(phase[d], script[d]) => IsWalk(phase'[d], script'[d])
  BY DEF Same, IsWalk
<1>4. EndOf(phase'[d], script'[d]) = EndOf(phase[d], script[d])
  BY DEF Same, EndOf
<1>5. Agrees(EndOf(phase[d], script[d]), answer[d], ranWell(d), timedOut[d])
      => Agrees(EndOf(phase'[d], script'[d]), answer'[d], ranWell(d)', timedOut'[d])
  BY <1>2, <1>4 DEF Same, Agrees
<1>6. QED
  BY <1>1, <1>3, <1>5 DEF Same, RunOk

\* A timeout is charged to the run that timed out, or to one that threw and is alone.
LEMMA ChargedAtHome ==
  ASSUME TimeoutsStayHome, WalkInv, NEW r \in Runs, OrchestrationTimeoutResult(r),
         NEW d \in Runs \ {r}
  PROVE  phase'[d] = phase[d]
<1>1. RunOk(r) /\ timedOut[r] /\ pc[r] \in {"resolved", "throwing"}
  BY DEF WalkInv, OrchestrationTimeoutResult
<1>2. CASE pc[r] = "resolved"
  <2>1. d \notin chargedRuns(r)
    BY <1>2 DEF chargedRuns
  <2>2. QED
    BY <2>1 DEF OrchestrationTimeoutResult
<1>3. CASE pc[r] = "throwing"
  BY <1>1, <1>3 DEF RunOk, TimeoutsStayHome
<1>4. QED
  BY <1>1, <1>2, <1>3

\* One phase of the script is stored: the rest is still a walk.
LEMMA AdvanceOk ==
  ASSUME WalkInv, NEW r \in Runs, Advance(r)
  PROVE  RunOk(r)'
<1>1. ChatOk /\ RunOk(r) /\ pc[r] = "replay" /\ script[r] # << >>
  BY TypeParts DEF WalkInv, BaseInv, Advance
<1> DEFINE s == script[r]
<1>2. s \in Seq(RunPhase) /\ IsWalk(phase[r], s) /\ thrown[r] = "none"
  BY <1>1 DEF ChatOk, RunOk
<1>3. /\ validateTransition(phase[r], Head(s), FALSE)
      /\ IsWalk(Head(s), Tail(s)) /\ EndOf(Head(s), Tail(s)) = EndOf(phase[r], s)
  BY <1>1, <1>2, WalkOn
<1>4. /\ phase' = [phase EXCEPT ![r] = Head(s)] /\ script' = [script EXCEPT ![r] = Tail(s)]
      /\ UNCHANGED <<pc, answer, thrown, execution, timedOut>>
  BY <1>1, <1>3 DEF Advance, ChatOk, outcomeVars
<1>5. phase'[r] = Head(s) /\ script'[r] = Tail(s)
  BY <1>1, <1>4 DEF ChatOk
<1> HIDE DEF s
<1>6. Agrees(EndOf(phase[r], s), answer[r], ranWell(r), timedOut[r])
  BY <1>1, <1>2 DEF RunOk, s
<1>7. Agrees(EndOf(phase'[r], script'[r]), answer'[r], ranWell(r)', timedOut'[r])
  BY <1>3, <1>4, <1>5, <1>6 DEF ranWell, Agrees
<1>8. pc'[r] = "replay" /\ thrown'[r] = "none" /\ IsWalk(phase'[r], script'[r])
      /\ (timedOut'[r] => r \in MayTimeOut)
  BY <1>1, <1>2, <1>3, <1>4, <1>5 DEF RunOk
<1>9. QED
  BY <1>7, <1>8 DEF RunOk, Early, Work

\* The script that a step decides on is a walk from CHAT_RECEIVED.
LEMMA DecidesOk ==
  ASSUME WalkInv, NEW r \in Runs, pc[r] \in Work, Decides(r), UNCHANGED <<phase, timedOut, thrown>>
  PROVE  RunOk(r)'
<1>1. ChatOk /\ RunOk(r)
  BY TypeParts DEF WalkInv, BaseInv
<1>2. phase[r] = "CHAT_RECEIVED" /\ thrown[r] = "none"
  BY <1>1 DEF RunOk
<1>3. PICK phases \in Seq(RunPhase), status \in Status :
         /\ Sets(r, "replay", phases, status)
         /\ IsWalk("CHAT_RECEIVED", phases)
         /\ Agrees(EndOf("CHAT_RECEIVED", phases), status, ranWell(r)', FALSE)
  BY DEF Decides
<1>4. pc'[r] = "replay" /\ script'[r] = phases /\ answer'[r] = status
      /\ phase'[r] = "CHAT_RECEIVED" /\ thrown'[r] = "none" /\ timedOut'[r] = timedOut[r]
  BY <1>1, <1>2, <1>3 DEF Sets, ChatOk
<1>5. Agrees(EndOf(phase'[r], script'[r]), answer'[r], ranWell(r)', timedOut'[r])
  BY <1>3, <1>4 DEF Agrees
<1>6. QED
  BY <1>1, <1>3, <1>4, <1>5 DEF RunOk, Early, Work

\* The result of a run whose timer won.
LEMMA TimeoutOk ==
  ASSUME WalkInv, NEW r \in Runs, OrchestrationTimeoutResult(r)
  PROVE  RunOk(r)'
<1>1. ChatOk /\ RunOk(r) /\ timedOut[r] /\ pc[r] \in {"resolved", "throwing"}
  BY TypeParts DEF WalkInv, BaseInv, OrchestrationTimeoutResult
<1>2. UNCHANGED <<script, timedOut, thrown, execution>>
  BY DEF OrchestrationTimeoutResult, outcomeVars, GoOn
<1>3. phase'[r] = phase[r] \/ phase'[r] = "FAILED"
  BY DEF OrchestrationTimeoutResult
<1>4. \/ pc'[r] = "returned" /\ answer'[r] = "FAILED"
      \/ pc'[r] = "rejected"
  BY <1>1 DEF OrchestrationTimeoutResult, GoOn, ChatOk
<1>5. thrown[r] = "none" => script[r] = << >> /\ isTerminalRunPhase(phase[r])
  BY <1>1 DEF RunOk
<1>6. isTerminalRunPhase("FAILED")
  BY DEF isTerminalRunPhase, TerminalRunPhases
<1>7. ASSUME pc'[r] = "returned"
      PROVE  Agrees(EndOf(phase'[r], script'[r]), answer'[r], ranWell(r)', timedOut'[r])
  BY <1>1, <1>2, <1>4, <1>7 DEF Agrees
<1>8. thrown[r] = "none" => isTerminalRunPhase(phase'[r])
  BY <1>3, <1>5, <1>6
<1>9. QED
  BY <1>1, <1>2, <1>4, <1>5, <1>7, <1>8 DEF RunOk, Early, Work

\* Every step keeps the invariant of the walks.
LEMMA WalkNext == TimeoutsStayHome /\ WalkInv /\ [Next]_vars => WalkInv'
<1> SUFFICES ASSUME TimeoutsStayHome, WalkInv, [Next]_vars PROVE WalkInv'
  OBVIOUS
<1>1. BaseInv'
  BY BaseNext DEF WalkInv
<1>2. BaseInv /\ ChatOk
  BY TypeParts DEF WalkInv, BaseInv
<1>3. ASSUME NEW r \in Runs, Step(r) PROVE \A d \in Runs : RunOk(d)'
  <2>1. ASSUME NEW d \in Runs \ {r} PROVE RunOk(d)'
    <3>1. Same(d) /\ timedOut'[d] = timedOut[d] /\ phase'[d] = phase[d]
      BY <1>2, <1>3, StepElsewhere, PhaseElsewhere, ChargedAtHome
    <3>2. QED
      BY <3>1, RunOkKept DEF WalkInv, RunOk
  <2>2. RunOk(r)
    BY DEF WalkInv
  <2>3. CASE Start(r) \/ CreateRun(r) \/ Register(r) \/ Prepare(r)
    <3>1. PICK p \in {"create", "register", "prepare", "plan"} : pc' = [pc EXCEPT ![r] = p]
      BY <2>3 DEF Start, CreateRun, Register, Prepare
    <3>2. pc[r] \in Early \cup Work /\ UNCHANGED <<phase, thrown, timedOut>>
      BY <2>3 DEF Start, CreateRun, Register, Prepare, Early, Work
    <3>3. pc'[r] \in {"create", "register", "prepare", "plan"}
      BY <1>2, <3>1 DEF ChatOk
    <3>4. RunOk(r)'
      BY <2>2, <3>2, <3>3 DEF RunOk
    <3>5. QED
      BY <2>1, <3>4
  <2>4. CASE WorkStep(r)
    <3>1. /\ pc[r] \in Work
          /\ UNCHANGED <<phase, timedOut>>
          /\ \/ (GoesOn(r) \/ Decides(r)) /\ UNCHANGED thrown
             \/ CompileThrowsStep(r)
      BY <1>2, <2>4, WorkStepMoves
    <3>2. CASE GoesOn(r) /\ UNCHANGED thrown
      <4>1. pc'[r] \in Work
        BY <1>2, <3>2 DEF GoesOn, Sets, ChatOk
      <4>2. RunOk(r)'
        BY <2>2, <3>1, <3>2, <4>1 DEF RunOk, Work
      <4>3. QED
        BY <2>1, <4>2
    <3>3. CASE Decides(r) /\ UNCHANGED thrown
      BY <2>1, <3>1, <3>3, DecidesOk
    <3>4. CASE CompileThrowsStep(r)
      <4>1. pc'[r] = "throwing" /\ thrown'[r] = "compile" /\ r \in MayThrow
        BY <1>2, <3>4 DEF CompileThrowsStep, Sets, ChatOk
      <4>2. RunOk(r)'
        BY <2>2, <3>1, <4>1 DEF RunOk, Early, Work
      <4>3. QED
        BY <2>1, <4>2
    <3>5. QED
      BY <3>1, <3>2, <3>3, <3>4
  <2>5. CASE Advance(r)
    BY <2>1, <2>5, AdvanceOk
  <2>6. CASE Resolve(r)
    <3>1. /\ pc[r] = "replay" /\ script[r] = << >> /\ pc'[r] = "resolved"
          /\ UNCHANGED <<phase, timedOut, thrown, execution, script, answer>>
      BY <1>2, <2>6 DEF Resolve, GoOn, outcomeVars, ChatOk
    <3>2. thrown[r] = "none" /\ isTerminalRunPhase(phase[r])
          /\ Agrees(EndOf(phase[r], script[r]), answer[r], ranWell(r), timedOut[r])
      BY <2>2, <3>1 DEF RunOk, IsWalk
    <3>3. Agrees(EndOf(phase'[r], script'[r]), answer'[r], ranWell(r)', timedOut'[r])
      BY <3>1, <3>2 DEF Agrees, ranWell, EndOf
    <3>4. RunOk(r)'
      BY <2>2, <3>1, <3>2, <3>3 DEF RunOk, Early, Work
    <3>5. QED
      BY <2>1, <3>4
  <2>7. CASE Return(r)
    <3>1. /\ UNCHANGED <<phase, timedOut, thrown, execution, script, answer>>
          /\ \/ pc[r] = "resolved" /\ pc'[r] = "returned"
             \/ pc'[r] = "rejected"
      BY <1>2, <2>7 DEF Return, outcomeVars, ChatOk
    <3>2. pc[r] = "resolved" => Agrees(EndOf(phase[r], script[r]), answer[r], ranWell(r), timedOut[r])
      BY <2>2 DEF RunOk
    <3>3. pc[r] = "resolved" =>
            Agrees(EndOf(phase'[r], script'[r]), answer'[r], ranWell(r)', timedOut'[r])
      BY <3>1, <3>2 DEF Agrees, ranWell, EndOf
    <3>4. RunOk(r)'
      BY <2>2, <3>1, <3>3 DEF RunOk, Early, Work
    <3>5. QED
      BY <2>1, <3>4
  <2>8. CASE OrchestrationTimeoutResult(r)
    BY <2>1, <2>8, TimeoutOk
  <2>9. QED
    BY <1>3, <2>3, <2>4, <2>5, <2>6, <2>7, <2>8 DEF Step, WorkStep
<1>4. CASE \A r \in Runs : ~Step(r)
  <2>1. ASSUME NEW d \in Runs
        PROVE  (timedOut[d] => timedOut'[d]) /\ (timedOut'[d] => d \in MayTimeOut)
    <3>1. timedOut[d] => d \in MayTimeOut
      BY DEF WalkInv, RunOk
    <3>2. CASE \E r \in Runs : TimeOut(r)
      BY <1>2, <3>1, <3>2 DEF TimeOut, ChatOk
    <3>3. CASE UNCHANGED timedOut
      BY <3>1, <3>3
    <3>4. UNCHANGED timedOut \/ \E r \in Runs : TimeOut(r)
      BY <1>4 DEF Next, RunNode, Request, chatVars, vars
    <3>5. QED
      BY <3>2, <3>3, <3>4
  <2>2. ASSUME NEW d \in Runs PROVE RunOk(d)'
    BY <1>2, <1>4, <2>1, OthersAside, RunOkKept
  <2>3. QED
    BY <1>1, <2>2 DEF WalkInv
<1>5. QED
  BY <1>1, <1>3, <1>4 DEF WalkInv

\* What clients see follows from the invariant.
LEMMA WalkInvImplies == WalkInv => WalkSettlesRun /\ AnswerAgreesWithRun
<1> SUFFICES ASSUME WalkInv PROVE WalkSettlesRun /\ AnswerAgreesWithRun
  OBVIOUS
<1>1. TypeOK
  BY DEF WalkInv, BaseInv, TypeInv
<1>2. \A r \in Runs : RunOk(r)
  BY DEF WalkInv
<1>3. ScriptsAreAllowed /\ ReturnedRunIsSettled
  BY <1>2 DEF RunOk, ScriptsAreAllowed, ReturnedRunIsSettled
<1>4. ASSUME NEW r \in Runs, pc[r] = "returned", thrown[r] = "none"
      PROVE  Agrees(phase[r], answer[r], ranWell(r), timedOut[r])
  BY <1>2, <1>4 DEF RunOk, EndOf
<1>5. AnswerAgreesWithRun
  BY <1>4 DEF AnswerAgreesWithRun, Agrees, ranWell
<1>6. QED
  BY <1>1, <1>3, <1>5 DEF WalkSettlesRun

(***************************************************************************)
(* Whatever the work of a run comes to, and whenever it is interrupted,    *)
(* steered or timed out, the phases it then walks through are allowed one  *)
(* after the other, and a run that comes back without a throw is in a      *)
(* phase a client stops waiting at (advanceExternalPhases).                *)
(***************************************************************************)
THEOREM WalkCorrect == TimeoutsStayHome /\ Spec => []WalkSettlesRun
<1>1. TimeoutsStayHome /\ Spec => []WalkInv
  <2>1. SUFFICES ASSUME TimeoutsStayHome PROVE Spec => []WalkInv
    OBVIOUS
  <2>2. WalkInv /\ [Next]_vars => WalkInv'
    BY <2>1, WalkNext
  <2>3. QED
    BY <2>2, InitWalkInv, PTL DEF Spec
<1>2. QED
  BY <1>1, WalkInvImplies, PTL

(***************************************************************************)
(* The status a client is answered and the phase that is stored tell the   *)
(* same story: FAILED is answered for a failed run, VALIDATED and HEALED   *)
(* only for a run that came to the end of its walk after an execution that *)
(* went well, and a completed run is called FAILED only if it timed out.   *)
(***************************************************************************)
THEOREM AnswerCorrect == TimeoutsStayHome /\ Spec => []AnswerAgreesWithRun
<1>1. TimeoutsStayHome /\ Spec => []WalkInv
  <2>1. SUFFICES ASSUME TimeoutsStayHome PROVE Spec => []WalkInv
    OBVIOUS
  <2>2. WalkInv /\ [Next]_vars => WalkInv'
    BY <2>1, WalkNext
  <2>3. QED
    BY <2>2, InitWalkInv, PTL DEF Spec
<1>2. QED
  BY <1>1, WalkInvImplies, PTL
==============================================================================
