------------------------------ MODULE RunPhases ------------------------------
(***************************************************************************)
(* The phases of a run and the edges between them                          *)
(* (src/protocol/phases.ts, src/orchestration/runStateMachine.ts).         *)
(* Pure definitions: no state.  Every other module that moves a run along  *)
(* its lifecycle takes the edges from here.                                *)
(***************************************************************************)

RunPhase ==
  { "CHAT_RECEIVED", "TRIAGE", "CONTEXT_BUILDING", "PLANNING",
    "SKEPTIC_REVIEW", "CRUCIBLE", "DAG_COMPILATION", "EXECUTING",
    "VALIDATING", "HEALING", "SYNTHESIZING", "NEEDS_DECISION",
    "DONE", "FAILED", "ABORTED" }

(***************************************************************************)
(* TERMINAL_RUN_PHASES: the phases after which the streaming endpoint      *)
(* closes and an interrupt is refused.  NEEDS_DECISION is one of them.     *)
(***************************************************************************)
TerminalRunPhases == {"DONE", "NEEDS_DECISION", "FAILED", "ABORTED"}

isTerminalRunPhase(phase) == phase \in TerminalRunPhases

\* The exits every working phase offers besides its successors.
Exits == {"NEEDS_DECISION", "FAILED", "ABORTED"}

ALLOWED_RUN_PHASE_TRANSITIONS ==
  [ CHAT_RECEIVED    |-> {"TRIAGE"},
    TRIAGE           |-> {"CONTEXT_BUILDING"} \cup Exits,
    CONTEXT_BUILDING |-> {"PLANNING"} \cup Exits,
    PLANNING         |-> {"SKEPTIC_REVIEW"} \cup Exits,
    SKEPTIC_REVIEW   |-> {"CRUCIBLE", "PLANNING"} \cup Exits,
    CRUCIBLE         |-> {"DAG_COMPILATION", "PLANNING"} \cup Exits,
    DAG_COMPILATION  |-> {"EXECUTING"} \cup Exits,
    EXECUTING        |-> {"VALIDATING", "HEALING"} \cup Exits,
    VALIDATING       |-> {"SYNTHESIZING", "HEALING"} \cup Exits,
    HEALING          |-> {"VALIDATING"} \cup Exits,
    SYNTHESIZING     |-> {"DONE"} \cup Exits,
    NEEDS_DECISION   |-> {"EXECUTING", "SYNTHESIZING", "PLANNING",
                          "FAILED", "ABORTED"},
    DONE             |-> {},
    FAILED           |-> {},
    ABORTED          |-> {} ]

isAllowedRunPhaseTransition(fromPhase, toPhase) ==
  toPhase \in ALLOWED_RUN_PHASE_TRANSITIONS[fromPhase]

\* The phases with no outgoing edge: the end of a run's lifecycle.
FinalPhases == {p \in RunPhase : ALLOWED_RUN_PHASE_TRANSITIONS[p] = {}}

(***************************************************************************)
(* validateTransition: the edge exists, and leaving NEEDS_DECISION takes a *)
(* decision input.                                                         *)
(***************************************************************************)
validateTransition(fromPhase, targetPhase, decision) ==
  /\ isAllowedRunPhaseTransition(fromPhase, targetPhase)
  /\ fromPhase = "NEEDS_DECISION" => decision

statusForPhase(phase) ==
  CASE phase = "DONE"           -> "completed"
    [] phase = "FAILED"         -> "failed"
    [] phase = "ABORTED"        -> "aborted"
    [] phase = "NEEDS_DECISION" -> "needs_decision"
    [] OTHER                    -> "running"

RunStatus == {"running", "completed", "failed", "aborted", "needs_decision"}
==============================================================================
