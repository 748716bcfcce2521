-------------------------- MODULE WorkspaceSandbox --------------------------
(***************************************************************************)
(* The workspace sandbox (sandbox/index.ts), the tool layer in front of it *)
(* (tools/) and the turn budget (orchestration/turnBudget.ts): what        *)
(* becomes of one operation, and the life of the child process that a      *)
(* command runs in.                                                        *)
(*                                                                         *)
(* An operation is [kind, target, path, flags, shell].  path is the class  *)
(* of the candidate path, flags what the command asks for that the policy  *)
(* does not grant.  A file is named by the node that means to write it;    *)
(* approvals holds the targets approved so far.                            *)
(***************************************************************************)
EXTENDS Integers, Sequences, FiniteSets

CONSTANTS MaxToolCalls,     \* turn budget: tool calls
          MaxIterations,    \* turn budget: repair iterations
          RegisteredTools   \* the names in the tool registry

ASSUME BudgetAssumption == MaxToolCalls \in Nat \ {0} /\ MaxIterations \in Nat \ {0}

VARIABLES files,        \* the targets whose file has been written
          approvals,    \* targets with a FILE_WRITE or COMMAND approval
          proc,         \* the child process of the command under way
          turn,         \* [tools, iterations, grace]: what the turn has used
          aborted       \* the run's abort signal

sandboxVars == <<files, approvals, proc, turn, aborted>>

PathClasses == {"safe", "blank", "absolute", "parent", "link"}

\* The order in which runCommand asks, and what it answers.
CommandGates ==
    << <<"destructive", "DESTRUCTIVE_COMMAND_BLOCKED">>,
       <<"network",     "NETWORK_DISABLED">>,
       <<"secrets",     "SECRETS_DISABLED">>,
       <<"shell",       "ARBITRARY_SHELL_DISABLED">>,
       <<"pattern",     "COMMAND_ARG_REJECTED">>,
       <<"unlisted",    "COMMAND_NOT_ALLOWLISTED">>,
       <<"cwd",         "CWD_NOT_ALLOWLISTED">>,
       <<"risky",       "NEEDS_APPROVAL">>,
       <<"long",        "RUNTIME_BUDGET_EXCEEDED">>,
       <<"slow",        "NEEDS_APPROVAL">> >>

Denied(reason)    == [status |-> "DENIED", reason |-> reason]
NeedsApproval     == [status |-> "NEEDS_APPROVAL", reason |-> "NEEDS_APPROVAL"]
Succeeded         == [status |-> "SUCCEEDED", reason |-> "none"]
Failed            == [status |-> "FAILED", reason |-> "none"]
Runs              == [status |-> "RUNS", reason |-> "none"]

resolveWithinWorkspace(path) ==
    CASE path = "blank"    -> "INVALID_PATH"
      [] path = "absolute" -> "ABSOLUTE_PATH"
      [] path = "parent"   -> "PATH_ESCAPE"
      [] path = "link"     -> "SYMLINK_ESCAPE"
      [] OTHER             -> "ok"

hasApproval(target) == target \in approvals

isShellInvocation(op) == "shell" \in op.flags \/ op.shell

\* An approval lifts the risky gate and no other.
Closed(op, gate) ==
    CASE gate = "shell" -> isShellInvocation(op)
      [] gate = "risky" -> "risky" \in op.flags /\ ~hasApproval(op.target)
      [] OTHER          -> gate \in op.flags

runCommand(op) ==
    LET closed == {i \in DOMAIN CommandGates : Closed(op, CommandGates[i][1])}
        first  == CHOOSE i \in closed : \A j \in closed : i <= j
    IN  IF closed = {} THEN Runs
        ELSE IF CommandGates[first][2] = "NEEDS_APPROVAL" THEN NeedsApproval
        ELSE Denied(CommandGates[first][2])

proposePatch(op) == IF hasApproval(op.target) THEN Succeeded ELSE NeedsApproval

\* A way to get this wrong: the sandbox leaves the abort signal to its caller.
operateUnaware(op) ==
    CASE op.kind = "RUN_COMMAND" -> runCommand(op)
      [] OTHER ->
            IF resolveWithinWorkspace(op.path) # "ok"
            THEN Denied(resolveWithinWorkspace(op.path))
            ELSE IF op.kind = "PROPOSE_PATCH" THEN proposePatch(op)
            ELSE Succeeded

\* What operate answers before any I/O; "RUNS" when a command is started.
operate(op) ==
    CASE aborted -> Denied(IF op.kind = "RUN_COMMAND" THEN "COMMAND_ABORTED"
                           ELSE "POLICY_VIOLATION")
      [] ~aborted /\ op.kind = "RUN_COMMAND" -> runCommand(op)
      [] OTHER ->
            IF resolveWithinWorkspace(op.path) # "ok"
            THEN Denied(resolveWithinWorkspace(op.path))
            ELSE IF op.kind = "PROPOSE_PATCH" THEN proposePatch(op)
            ELSE Succeeded

\* Only an approved patch touches the disk, and then whatever its operation is.
Writes(op) == operate(op) = Succeeded /\ op.kind = "PROPOSE_PATCH"

-----------------------------------------------------------------------------
(***************************************************************************)
(* The child process of createSafeLocalProcessRunner: the timer kills it   *)
(* and waits for its end, the abort handler kills it and answers at once,  *)
(* and only the first answer counts.                                       *)
(***************************************************************************)
NoProc  == [st |-> "none", timedOut |-> FALSE, answer |-> "none"]
Spawned == [st |-> "running", timedOut |-> FALSE, answer |-> "none"]

TimerFires ==
    /\ proc.st = "running"
    /\ ~proc.timedOut
    /\ proc.answer = "none"
    /\ proc' = [proc EXCEPT !.timedOut = TRUE]

\* 0, any other, and 130, which is taken for an abort.
ExitCodes == {"ok", "fail", "aborted"}

\* A way to get this wrong: a child killed by the timer ends without an answer.
ChildEndsSilently ==
    /\ proc.st = "running"
    /\ \E exit \in ExitCodes :
         proc' = [proc EXCEPT !.st = "ended",
                     !.answer = IF @ # "none" \/ proc.timedOut THEN @ ELSE exit]

\* "close" or "error" of the child.
ChildEnds ==
    /\ proc.st = "running"
    /\ \E exit \in ExitCodes :
         proc' = [proc EXCEPT !.st = "ended",
                     !.answer = IF @ # "none" THEN @
                                ELSE IF proc.timedOut THEN "timeout" ELSE exit]

\* The answer of the abort handler carries no timedOut, even after the timer.
AbortHandler ==
    IF proc.st = "running" /\ proc.answer = "none"
    THEN [proc EXCEPT !.answer = "aborted"]
    ELSE proc

\* runCommand looks at the abort signal again when the runner has answered.
CommandResult ==
    IF proc.answer = "timeout" THEN Denied("COMMAND_TIMEOUT")
    ELSE IF aborted \/ proc.answer = "aborted" THEN Denied("COMMAND_ABORTED")
    ELSE IF proc.answer = "ok" THEN Succeeded ELSE Failed

-----------------------------------------------------------------------------
(***************************************************************************)
(* The turn budget.                                                        *)
(***************************************************************************)
NewTurn == [tools |-> 0, iterations |-> 0, grace |-> "none"]

CanConsumeToolCall == turn.tools < MaxToolCalls
ToolCallConsumed   == [turn EXCEPT !.tools = @ + 1]

CanConsumeIteration == turn.iterations < MaxIterations \/ turn.grace = "available"
IterationConsumed ==
    IF turn.iterations < MaxIterations
    THEN [turn EXCEPT !.iterations = @ + 1]
    ELSE [turn EXCEPT !.grace = "used"]
GraceGranted ==
    IF turn.grace = "used" THEN turn ELSE [turn EXCEPT !.grace = "available"]

-----------------------------------------------------------------------------
(***************************************************************************)
(* The tool layer: trace, budget, redaction, approval, policy, dispatch.   *)
(* Answers "run" or the code of the tool error.                            *)
(***************************************************************************)
mapSandboxOperationToToolName(kind) ==
    CASE kind = "RUN_COMMAND" -> "sandbox.execute"
      [] kind = "READ_FILE"   -> "workspace.read_file"
      [] kind = "LIST_DIR"    -> "workspace.list_dir"
      [] OTHER                -> "workspace.apply_patch"

\* The allowlist safeToolPolicy puts on a compiled node admits writes and
\* commands, and neither reads nor listings.
policyMiddleware(tool, node) ==
    node.policy => tool \in {"sandbox.execute", "workspace.apply_patch", "workspace.write_file"}

approvalMiddleware(tool, target) ==
    tool = "workspace.write_file" => hasApproval(target)

runToolWithMiddleware(tool, node) ==
    IF ~CanConsumeToolCall THEN "BUDGET_EXCEEDED"
    ELSE IF ~approvalMiddleware(tool, node.id) THEN "PERMISSION_DENIED"
    ELSE IF ~policyMiddleware(tool, node) THEN "POLICY_DENIED"
    ELSE IF tool \notin RegisteredTools THEN "TOOL_NOT_FOUND"
    ELSE "run"

SandboxInit(approved) ==
    /\ files = {}
    /\ approvals = approved
    /\ proc = NoProc
    /\ turn = NewTurn
    /\ aborted = FALSE
=============================================================================
