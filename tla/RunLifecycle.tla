---------------------------- MODULE RunLifecycle -----------------------------
(***************************************************************************)
(* What the run state machine promises its callers: a run moves in atomic  *)
(* steps along the allowed edges, and its log holds exactly the steps it   *)
(* took, in order.  Nothing here says how concurrent callers are kept      *)
(* apart; RunStateMachine implements this with versions and retries.       *)
(***************************************************************************)
EXTENDS RunPhases, Sequences

VARIABLES phase,  \* the run's current phase
          log     \* the transitions the run has taken, oldest first

lifecycleVars == <<phase, log>>

\* A run is created when a chat message arrives, before any transition.
LifecycleInit == /\ phase = "CHAT_RECEIVED"
                 /\ log = << >>

Take(toPhase) ==
  /\ isAllowedRunPhaseTransition(phase, toPhase)
  /\ phase' = toPhase
  /\ log' = Append(log, [from |-> phase, to |-> toPhase])

LifecycleNext == \E toPhase \in RunPhase : Take(toPhase)

LifecycleSpec == LifecycleInit /\ [][LifecycleNext]_lifecycleVars
==============================================================================
