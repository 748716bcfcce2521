--------------------------- MODULE TransitionCall ----------------------------
(***************************************************************************)
(* The part of a run transition that does not depend on the store:         *)
(* transitionRun's read / validate / commit / retry loop                   *)
(* (src/orchestration/runStateMachine.ts) and addProviderUsageToRun's      *)
(* read-modify-write (src/orchestration/externalRunSupport.ts), for one    *)
(* run and any number of concurrent callers.  Each `await` of the code is  *)
(* a boundary between two steps, at which every other caller may run.      *)
(* RunStateMachine and SqlRunStore add what the two stores do.             *)
(*                                                                         *)
(* The event log keeps the transition events only; the other events of a   *)
(* run are appended without touching the run record.  Event ids are fresh  *)
(* UUIDs, so the stores' duplicate-id rejection never fires, and no code   *)
(* deletes a run, so `Run not found' never does either.                    *)
(***************************************************************************)
EXTENDS RunPhases, Integers, Sequences

CONSTANTS
  Callers,              \* the concurrent callers of transitionRun
  Targets,              \* the phases they ask for
  maxTransitionRetries, \* 3 in the code
  MaxTransitions,       \* bound: no call starts once the log has this length
  MaxUsage              \* bound: no usage update starts at this usage

ASSUME TargetsAssumption == Targets \subseteq RunPhase
ASSUME RetriesAssumption == maxTransitionRetries \in Nat
ASSUME BoundsAssumption  == MaxTransitions \in Nat /\ MaxUsage \in Nat

VARIABLES
  run,      \* the stored run, as getRun returns it
  events,   \* the committed transition events, oldest first
  pc,       \* where each caller stands
  request,  \* the arguments of its transitionRun call
  seen,     \* the run as it last read it
  attempt,  \* transitionRun's loop counter
  base      \* history: length of the event log when the call began

callVars == <<run, events, pc, request, seen, attempt, base>>

Run == [ phase           : RunPhase,
         status          : RunStatus,
         version         : Nat,
         decisionRequest : BOOLEAN,   \* is a decision request attached?
         usage           : Nat ]      \* provider usage charged to the run

Request == [target : RunPhase, decision : BOOLEAN]

Event == [from : RunPhase, to : RunPhase, by : Callers]

\* How a call to transitionRun ended.
Outcomes == {"committed", "invalid", "conflict"}

\* The points between two awaits at which a caller can be suspended.
Suspended == {"getRun", "commit", "update", "addUsage", "updateRun"}

NewRun == [ phase |-> "CHAT_RECEIVED", status |-> statusForPhase("CHAT_RECEIVED"),
            version |-> 0, decisionRequest |-> FALSE, usage |-> 0 ]

CallInit ==
  /\ run = NewRun
  /\ events = << >>
  /\ pc = [c \in Callers |-> "idle"]
  /\ request = [c \in Callers |-> [target |-> "TRIAGE", decision |-> FALSE]]
  /\ seen = [c \in Callers |-> NewRun]
  /\ attempt = [c \in Callers |-> 0]
  /\ base = [c \in Callers |-> 0]

Free(c) == pc[c] \in {"idle"} \cup Outcomes

Goto(c, label) == pc' = [pc EXCEPT ![c] = label]

(***************************************************************************)
(* Call: the arguments are fixed and the loop is entered with attempt = 0. *)
(***************************************************************************)
Call(c) ==
  /\ Free(c)
  /\ Len(events) < MaxTransitions
  /\ \E target \in Targets, decision \in BOOLEAN :
       request' = [request EXCEPT ![c] = [target |-> target, decision |-> decision]]
  /\ attempt' = [attempt EXCEPT ![c] = 0]
  /\ base' = [base EXCEPT ![c] = Len(events)]
  /\ Goto(c, "getRun")
  /\ UNCHANGED <<run, events, seen>>

\* `const run = await store.getRun(runId)': the snapshot the attempt works on.
GetRun(c) ==
  /\ pc[c] = "getRun"
  /\ seen' = [seen EXCEPT ![c] = run]
  /\ Goto(c, "commit")
  /\ UNCHANGED <<run, events, request, attempt, base>>

ValidRequest(c) ==
  validateTransition(seen[c].phase, request[c].target, request[c].decision)

\* validateTransition throws: the call ends without touching the store.
Refuse(c) ==
  /\ pc[c] = "commit"
  /\ ~ValidRequest(c)
  /\ Goto(c, "invalid")
  /\ UNCHANGED <<run, events, request, seen, attempt, base>>

(***************************************************************************)
(* Ways to get the patch and the retry loop wrong.                         *)
(***************************************************************************)
ConflictStale(c) ==
  /\ Goto(c, "commit")
  /\ UNCHANGED <<run, events, request, seen, attempt, base>>

ConflictSwallowed(c) ==
  /\ Goto(c, "committed")
  /\ UNCHANGED <<run, events, request, seen, attempt, base>>

(***************************************************************************)
(* buildRunPatch, merged onto the run `current': phase and status follow   *)
(* the target, the version is one more than the one seen, the decision     *)
(* request is attached on the way into NEEDS_DECISION and cleared when a   *)
(* decision is given.                                                      *)
(***************************************************************************)
Patched(current, c) ==
  [current EXCEPT
     !.phase = request[c].target,
     !.status = statusForPhase(request[c].target),
     !.version = seen[c].version + 1,
     !.decisionRequest = IF request[c].target = "NEEDS_DECISION" THEN TRUE
                         ELSE IF request[c].decision THEN FALSE ELSE @]

\* buildRunEvent: the edge is the one seen when the request was validated.
TransitionEvent(c) ==
  [from |-> seen[c].phase, to |-> request[c].target, by |-> c]

\* ConcurrentTransitionError: re-read and try again, or give up.
Conflict(c) ==
  /\ attempt' = [attempt EXCEPT ![c] = @ + 1]
  /\ Goto(c, IF attempt[c] < maxTransitionRetries THEN "getRun" ELSE "conflict")
  /\ UNCHANGED <<run, events, request, seen, base>>

(***************************************************************************)
(* addProviderUsageToRun: the usage to store is computed from a run read   *)
(* before the await.                                                       *)
(***************************************************************************)
StartUsage(c) ==
  /\ Free(c)
  /\ run.usage < MaxUsage
  /\ seen' = [seen EXCEPT ![c] = run]
  /\ Goto(c, "addUsage")
  /\ UNCHANGED <<run, events, request, attempt, base>>
------------------------------------------------------------------------------
TypeOK ==
  /\ run \in Run
  /\ events \in Seq(Event)
  /\ pc \in [Callers -> {"idle"} \cup Outcomes \cup Suspended]
  /\ request \in [Callers -> Request]
  /\ seen \in [Callers -> Run]
  /\ attempt \in [Callers -> Nat]
  /\ base \in [Callers -> Nat]

(***************************************************************************)
(* The log tells the truth about the run: the events form one path of      *)
(* allowed edges from CHAT_RECEIVED to the stored phase, and the version   *)
(* counts them (the optimistic-concurrency contract of                     *)
(* commitRunTransition and of Run.version in src/store/schemas.ts).        *)
(***************************************************************************)
PathFromStart ==
  \A i \in 1..Len(events) :
    /\ events[i].from = IF i = 1 THEN "CHAT_RECEIVED" ELSE events[i-1].to
    /\ isAllowedRunPhaseTransition(events[i].from, events[i].to)

EndsAtRun ==
  run.phase = IF events = << >> THEN "CHAT_RECEIVED" ELSE events[Len(events)].to

EventLogIsPath == PathFromStart /\ EndsAtRun /\ run.version = Len(events)

(***************************************************************************)
(* transitionRun's answer is true: a caller that was told its transition   *)
(* is committed has exactly one event in the log since its call, for the   *)
(* phase it asked for; a caller that got an error has none.                *)
(***************************************************************************)
OwnEvents(c) == {i \in (base[c]+1)..Len(events) : events[i].by = c}

OutcomeIsTrue(c) ==
  /\ pc[c] = "committed" =>
       \E i \in OwnEvents(c) : /\ OwnEvents(c) = {i}
                               /\ events[i].to = request[c].target
  /\ pc[c] \in {"invalid", "conflict", "getRun", "commit"} => OwnEvents(c) = {}

TruthfulOutcome == \A c \in Callers : OutcomeIsTrue(c)

(***************************************************************************)
(* A caller loses its race only to real progress: transitionRun gives up   *)
(* with ConcurrentTransitionError only if more than maxTransitionRetries   *)
(* transitions of others were committed during its call.                   *)
(***************************************************************************)
ConflictOnlyUnderContention ==
  \A c \in Callers :
    pc[c] = "conflict" => Len(events) - base[c] > maxTransitionRetries

(***************************************************************************)
(* A decision request is attached exactly while the run waits for the      *)
(* decision, so no caller can answer one that is already answered          *)
(* (buildRunPatch and the decision check of validateTransition); the       *)
(* status always tells the phase.                                          *)
(***************************************************************************)
DecisionRequestWhileWaiting ==
  /\ run.decisionRequest <=> run.phase = "NEEDS_DECISION"
  /\ run.status = statusForPhase(run.phase)

(***************************************************************************)
(* However callers interleave, the stored run stays consistent with        *)
(* itself and with its log (transitionRun, buildRunPatch,                  *)
(* commitRunTransition).                                                   *)
(***************************************************************************)
RunIsConsistent == TypeOK /\ EventLogIsPath /\ DecisionRequestWhileWaiting

(***************************************************************************)
(* A finished run is never touched again by a transition: not by a slow    *)
(* caller that validated its request before the run finished.              *)
(***************************************************************************)
FinalPhaseIsFinal ==
  [][run.phase \in FinalPhases => run'.phase = run.phase /\ events' = events]_callVars

(***************************************************************************)
(* The stored run and its log implement the atomic lifecycle: forgetting   *)
(* versions, snapshots and who committed what, the run moves as            *)
(* RunLifecycle says.                                                      *)
(***************************************************************************)
LogOfEvents == [i \in 1..Len(events) |-> [from |-> events[i].from, to |-> events[i].to]]

Lifecycle == INSTANCE RunLifecycle WITH phase <- run.phase, log <- LogOfEvents

ImplementsLifecycle == Lifecycle!LifecycleSpec
==============================================================================
