----------------------------- MODULE RunControl ------------------------------
(***************************************************************************)
(* The process-wide registry of run-control states                         *)
(* (src/orchestration/runControl.ts): how a request to interrupt or steer  *)
(* a run finds the state its orchestration watches.                        *)
(*                                                                         *)
(* A run has at most two control states: `own', which its orchestration    *)
(* created and watches, and `fresh', which a request creates when the      *)
(* registry has no entry for the run.  The clock is reduced to what        *)
(* cleanupRunControlStates asks of it: whether a state has gone untouched  *)
(* for longer than the TTL.                                                *)
(***************************************************************************)
EXTENDS RunPhases, Sequences, FiniteSets, Naturals

CONSTANTS
  Runs,                  \* the runs of one conversation
  Interrupts, Steers,    \* the requests clients make, each once
  MAX_STEER_QUEUE_SIZE,
  OutliveTTL             \* whether a run may last longer than the TTL

Requests == Interrupts \cup Steers

ASSUME RunControlAssumption ==
  /\ Interrupts \cap Steers = {}
  /\ MAX_STEER_QUEUE_SIZE \in Nat \ {0}
  /\ OutliveTTL \in BOOLEAN

VARIABLES
  phase,     \* the stored phase of each run
  known,     \* the runs createRun has stored, oldest first
  control,   \* the two control states of each run
  registry,  \* stateByRunId: which of them a request finds
  target,    \* the run each request names
  reply,     \* how far each request got, then its answer
  announced  \* the requests with an event in the run's log

controlVars == <<control, registry>>
requestVars == <<target, reply, announced>>

Which == {"own", "fresh"}

createRunControlState ==
  [interruptRequested |-> FALSE, aborted |-> FALSE, steerQueue |-> << >>,
   stale |-> FALSE]

Exists(r) == \E i \in DOMAIN known : known[i] = r

(***************************************************************************)
(* cleanupRunControlStates, which every registration runs first, and       *)
(* registerRunControl itself.                                              *)
(***************************************************************************)
cleanupRunControlStates ==
  [q \in Runs |->
     IF registry[q] \in Which /\ control[q][registry[q]].stale
     THEN "none" ELSE registry[q]]

registered(r, which) == [cleanupRunControlStates EXCEPT ![r] = which]

touch(state) == [state EXCEPT !.stale = FALSE]

\* registry[r] ?? createRunControlState(r): the argument is read first.
stateFor(r) == IF registry[r] = "none" THEN "fresh" ELSE registry[r]

stateBefore(r) ==
  IF registry[r] = "none" THEN createRunControlState ELSE control[r][registry[r]]

requestInterrupt(state) ==
  touch([state EXCEPT !.interruptRequested = TRUE, !.aborted = TRUE])

\* enqueueSteer: at capacity the oldest message makes room for the new one.
enqueueSteer(queue, message) ==
  Append(IF Len(queue) >= MAX_STEER_QUEUE_SIZE THEN Tail(queue) ELSE queue, message)

(***************************************************************************)
(* interruptRun and steerRun.  Both read the run, and act on the registry  *)
(* when the read has come back.                                            *)
(***************************************************************************)
ReadRun(q) ==
  /\ reply[q] = "unsent"
  /\ Exists(target[q])
  /\ reply' = [reply EXCEPT ![q] = IF isTerminalRunPhase(phase[target[q]])
                                   THEN "already_terminal" ELSE "read"]
  /\ UNCHANGED <<phase, known, controlVars, target, announced>>

interruptRun(q) ==
  LET r == target[q] IN
  /\ q \in Interrupts
  /\ reply[q] = "read"
  /\ control' = [control EXCEPT ![r][stateFor(r)] = requestInterrupt(stateBefore(r))]
  /\ registry' = registered(r, stateFor(r))
  /\ reply' = [reply EXCEPT ![q] = "aborting"]
  /\ announced' = IF stateBefore(r).interruptRequested THEN announced
                                                       ELSE announced \cup {q}
  /\ UNCHANGED <<phase, known, target>>

steerRun(q) ==
  LET r      == target[q]
      before == stateBefore(r)
      after  == [before EXCEPT !.steerQueue = enqueueSteer(before.steerQueue, q)]
      queued == Len(after.steerQueue) > Len(before.steerQueue)
  IN
  /\ q \in Steers
  /\ reply[q] = "read"
  /\ control' = [control EXCEPT ![r][stateFor(r)] = touch(after)]
  /\ registry' = registered(r, stateFor(r))
  /\ reply' = [reply EXCEPT ![q] = IF queued THEN "queued" ELSE "empty"]
  /\ announced' = IF queued THEN announced \cup {q} ELSE announced
  /\ UNCHANGED <<phase, known, target>>

(***************************************************************************)
(* What the orchestration of a run does with its own state.                *)
(***************************************************************************)
isInterrupted(r) == control[r]["own"].aborted \/ control[r]["own"].interruptRequested

\* drainSteer hands the oldest message to the next tool call.
drainSteer(r) ==
  LET drained(state) == [state EXCEPT !.steerQueue = IF @ = << >> THEN @ ELSE Tail(@)]
  IN  control' = [control EXCEPT ![r]["own"] = touch(drained(@))]

clearRunControl(r) == registry' = [registry EXCEPT ![r] = "none"]

\* Time passes: nothing has touched a registered state for the TTL.
OutliveTimeToLive(r) ==
  /\ OutliveTTL
  /\ registry[r] \in Which
  /\ control' = [control EXCEPT ![r][registry[r]].stale = TRUE]
  /\ UNCHANGED <<phase, known, registry, requestVars>>

RunControlInit ==
  /\ control = [r \in Runs |-> [w \in Which |-> createRunControlState]]
  /\ registry = [r \in Runs |-> "none"]
  /\ target \in [Requests -> Runs]
  /\ reply = [q \in Requests |-> "unsent"]
  /\ announced = {}

ControlState ==
  [interruptRequested : BOOLEAN, aborted : BOOLEAN, steerQueue : Seq(Steers),
   stale : BOOLEAN]

RunControlTypeOK ==
  /\ control \in [Runs -> [Which -> ControlState]]
  /\ \A r \in Runs, w \in Which : Len(control[r][w].steerQueue) <= MAX_STEER_QUEUE_SIZE
  /\ registry \in [Runs -> Which \cup {"none"}]
  /\ target \in [Requests -> Runs]
  /\ reply \in [Requests -> {"unsent", "read", "already_terminal", "aborting",
                             "queued", "empty"}]
  /\ announced \subseteq Requests
==============================================================================
