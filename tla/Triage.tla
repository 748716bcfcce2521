------------------------------- MODULE Triage -------------------------------
(***************************************************************************)
(* The routing of a user message (orchestration/triage.ts): the            *)
(* deterministic classifier, and the live classifier that asks a model     *)
(* twice at most, corrects what it answers by the signals of the message   *)
(* and falls back on the deterministic route.  A message is what the       *)
(* patterns count in it.                                                   *)
(***************************************************************************)
EXTENDS Naturals, FiniteSets

LOCAL INSTANCE FiniteSetsExt

CONSTANTS
    Unset,        \* no result yet
    Inboxes       \* the situations explored

VARIABLES
    inbox,        \* the name of the situation
    message,      \* what the patterns count in the message
    live          \* the call of runLiveTriage

triageVars == <<inbox, message, live>>
Inbox == Inboxes[inbox]

TRIAGE_ROUTES == {"DIRECT_ANSWER", "PLAN_ONLY", "CODE_EDIT", "RESEARCH", "LONG_RUNNING", "NEEDS_CLARIFICATION"}

\* The word of the message that the patterns look for; delete also stands for remove, drop, wipe, destroy and
\* overwrite, deploy for production, truncate for a forced push.
DESTRUCTIVE_PATTERNS == {"delete", "truncate", "migrate", "deploy"}
destructiveTerms(m) == {m.verb} \cap DESTRUCTIVE_PATTERNS
Deploys(m) == m.verb \in {"deploy", "deployment"}

(***************************************************************************)
(* The deterministic classifier.                                           *)
(***************************************************************************)
scoreTriageSignals(m) ==
    LET conflicting == m.noEdit > 0 /\ m.editElsewhere > 0 IN
    [scores |-> {m.direct, m.plan + m.noEdit, m.code, m.research, m.longRunning, m.ambiguous + (IF conflicting THEN 3 ELSE 0)},
     destructive |-> destructiveTerms(m) # {},
     conflictingIntents |-> conflicting,
     highRiskAction |-> destructiveTerms(m) # {} \/ m.longRunning >= 2]

riskFlagsForSignals(m, signals) ==
    (IF signals.destructive THEN {"destructive_change", "approval_required"} ELSE {})
    \cup (IF Deploys(m) THEN {"deployment_risk"} ELSE {})
    \cup (IF m.code > 0 /\ signals.destructive THEN {"code_change"} ELSE {})

result(route, confidence, complexity, flags, signals, source) ==
    [route |-> route, confidence |-> confidence, complexity |-> complexity, riskFlags |-> flags, signals |-> signals,
     approvalRequired |-> flags \cap {"approval_required", "destructive_change"} # {}, source |-> source]

isVagueGreeting(m) == m.greeting

\* The rules in the order of the code: the first whose condition holds gives the route.
triageUserMessage(m) ==
    LET signals == scoreTriageSignals(m)
        flags == riskFlagsForSignals(m, signals)
        ToRoute(route, confidence, complexity, more) == result(route, confidence, complexity, flags \cup more, signals, "deterministic")
        If(cond, yes) == IF cond THEN {yes} ELSE {} IN
    CASE m.words = 0 -> result("NEEDS_CLARIFICATION", 95, "low", {"ambiguous_request"}, signals, "deterministic")
      [] m.words > 0 /\ isVagueGreeting(m) -> result("NEEDS_CLARIFICATION", 85, "low", {"ambiguous_request"}, signals, "deterministic")
      [] OTHER ->
         IF signals.conflictingIntents THEN ToRoute("NEEDS_CLARIFICATION", 90, "medium", {"conflicting_intent", "approval_required"})
         ELSE IF m.ambiguous > 0 /\ m.words <= 8 THEN ToRoute("NEEDS_CLARIFICATION", 82, "low", {"ambiguous_request"})
         ELSE IF signals.highRiskAction /\ Max(signals.scores) <= 1 /\ m.words <= 12
              THEN ToRoute("NEEDS_CLARIFICATION", 68, "medium", {"ambiguous_request", "approval_required"})
         ELSE IF m.longRunning >= 2 \/ (m.longRunning >= 1 /\ (m.code >= 2 \/ m.words > 25))
              THEN ToRoute("LONG_RUNNING", 78, "high",
                           {"long_running"} \cup If(m.code > 0, "code_change") \cup If(Deploys(m), "deployment_risk"))
         ELSE IF m.research >= 1 /\ m.code < 2
              THEN ToRoute("RESEARCH", 76, IF m.research >= 2 THEN "medium" ELSE "low", {"external_research"})
         ELSE IF m.plan >= 1 /\ (m.noEdit >= 1 \/ m.code < 2)
              THEN ToRoute("PLAN_ONLY", 80, IF m.plan >= 2 THEN "medium" ELSE "low", {})
         ELSE IF m.code >= 2
              THEN ToRoute("CODE_EDIT", 74, IF m.words > 30 \/ signals.highRiskAction THEN "high" ELSE "medium",
                           {"code_change"} \cup (IF signals.destructive THEN {"destructive_change", "approval_required"} ELSE {}))
         ELSE IF m.direct >= 1 THEN ToRoute("DIRECT_ANSWER", 72, IF signals.highRiskAction THEN "medium" ELSE "low", {})
         ELSE IF m.words <= 4 THEN ToRoute("NEEDS_CLARIFICATION", 70, "low", {"ambiguous_request"})
         ELSE ToRoute("DIRECT_ANSWER", 55, IF signals.highRiskAction THEN "medium" ELSE "low", {})

(***************************************************************************)
(* What is made of an answer of the model.  A draft that does not parse or *)
(* does not fit the schema is "invalid".                                   *)
(***************************************************************************)
calibrateLiveTriage(draft, baseline) ==
    LET signals == baseline.signals
        flags == baseline.riskFlags \cup draft.riskFlags
                 \cup (IF signals.destructive THEN {"destructive_change", "approval_required"} ELSE {}) IN
    CASE signals.conflictingIntents ->
           result("NEEDS_CLARIFICATION", Max({draft.confidence, 88}), "medium", flags \cup {"conflicting_intent", "approval_required"}, signals, "live")
      [] ~signals.conflictingIntents /\ signals.highRiskAction /\ draft.confidence < 65 ->
           result("NEEDS_CLARIFICATION", draft.confidence, IF draft.complexity = "high" THEN "high" ELSE "medium",
                  flags \cup {"ambiguous_request", "approval_required"}, signals, "live")
      [] OTHER -> result(draft.route, draft.confidence, draft.complexity, flags, signals, "live")

safeValidateLiveTriage(draft, baseline) == calibrateLiveTriage(draft, baseline)
validateLiveTriageContent(answer, baseline) ==
    IF answer.kind = "draft" THEN [ok |-> TRUE, triage |-> safeValidateLiveTriage(answer, baseline)]
    ELSE [ok |-> FALSE, triage |-> baseline]

(***************************************************************************)
(* The live classifier.  Calls are counted and cost one unit each; the     *)
(* run's own calls come first (Inbox.spent), and an estimate above the     *)
(* approval threshold is a denial here.  invokeWithBudget is the call of   *)
(* ProviderCalls: it answers or throws.                                    *)
(***************************************************************************)
evaluateTriageBudget(usage) ==
    IF usage > Inbox.maxCalls THEN "denied" ELSE IF usage > Inbox.approvalAbove THEN "NEEDS_DECISION" ELSE "allowed"
buildTriagePreflightUsage(total) == Inbox.spent + total + 1
accumulatedTriageRunUsage(total) == Inbox.spent + total
liveTriageBudgetDenial(total) ==
    \/ evaluateTriageBudget(buildTriagePreflightUsage(total)) # "allowed"
    \/ accumulatedTriageRunUsage(total) + 1 > Inbox.maxCalls
addTriageUsage(left, right) == left + right

\* What is sent: the message with the deterministic result, the rejected answer too when it is repaired.
buildTriagePrompt(m, baseline) == [about |-> m, baseline |-> baseline, rejected |-> "none"]
buildTriageRepairPrompt(m, baseline, prior) == [buildTriagePrompt(m, baseline) EXCEPT !.rejected = prior]

Return(status, triage, code, total, attempts) ==
    live' = [live EXCEPT !.at = "done", !.status = status, !.triage = triage, !.blocker = code, !.usage = total, !.attempts = attempts]
liveTriageOkResult(triage, total, attempt) == Return("ok", triage, "none", total, attempt)
fallbackResult(baseline, code, total, attempts) ==
    Return("fallback", [baseline EXCEPT !.source = "fallback"], code, total, attempts)

(***************************************************************************)
(* runLiveTriage.                                                          *)
(***************************************************************************)
\* Before a call: the budget is asked, a denial ends the triage.
AskModel ==
    /\ live.at = "ask"
    /\ LET baseline == triageUserMessage(message) IN
       IF liveTriageBudgetDenial(live.usage) THEN fallbackResult(baseline, "BUDGET_DENIED", live.usage, live.attempt - 1)
       ELSE live' = [live EXCEPT !.at = "answer", !.sent = @ + 1,
                     !.prompt = IF live.attempt = 1 THEN buildTriagePrompt(message, baseline)
                                ELSE buildTriageRepairPrompt(message, baseline, live.rejected)]
    /\ UNCHANGED <<inbox, message>>

invokeLiveTriageAttempt ==
    /\ live.at = "answer"
    /\ \E answer \in Inbox.answers :
         LET baseline == triageUserMessage(message)
             total == addTriageUsage(live.usage, 1)
             validation == validateLiveTriageContent(answer, baseline) IN
         \/ answer.kind = "error" /\ fallbackResult(baseline, "PROVIDER_ERROR", live.usage, live.attempt)
         \/ answer.kind # "error" /\ validation.ok /\ liveTriageOkResult(validation.triage, total, live.attempt)
         \/ answer.kind # "error" /\ ~validation.ok /\ live.attempt = 1
               /\ live' = [live EXCEPT !.at = "ask", !.attempt = 2, !.usage = total, !.rejected = answer.kind]
         \/ answer.kind # "error" /\ ~validation.ok /\ live.attempt = 2
               /\ fallbackResult(baseline, "TRIAGE_INVALID", total, 2)
    /\ UNCHANGED <<inbox, message>>

TriageInit ==
    /\ inbox \in DOMAIN Inboxes
    /\ message \in Inbox.messages
    /\ live = [at |-> IF inbox = "none" THEN "done" ELSE "ask", attempt |-> 1, usage |-> 0, rejected |-> "none", prompt |-> Unset,
               status |-> "none", triage |-> Unset, blocker |-> "none", attempts |-> 0, sent |-> 0]
\* The pipeline of a chat message takes the deterministic route and asks nobody.
Classify ==
    /\ live.at = "ask" /\ live.sent = 0
    /\ Return("deterministic", triageUserMessage(message), "none", 0, 0)
    /\ UNCHANGED <<inbox, message>>
TriageNext == AskModel \/ invokeLiveTriageAttempt \/ Classify

(***************************************************************************)
(* Whatever the model answers, however often it is asked and wherever the  *)
(* triage gives up, the route that is returned carries every risk the      *)
(* deterministic classifier saw: its flags, the approval a destructive     *)
(* term calls for, and the question back to the user when the message both *)
(* forbids and orders an edit (calibrateLiveTriage, fallbackResult).  The  *)
(* usage reported is that of the calls that were answered, and a budget    *)
(* denial never follows a call the caller is not told of.                  *)
(***************************************************************************)
TriageKeepsRisk ==
    live.triage # Unset =>
        LET baseline == triageUserMessage(message) IN
        /\ baseline.riskFlags \subseteq live.triage.riskFlags
        /\ destructiveTerms(message) # {} => live.triage.approvalRequired
        /\ baseline.signals.conflictingIntents /\ ~message.greeting /\ message.words > 0 => live.triage.route = "NEEDS_CLARIFICATION"
        /\ live.sent = live.attempts /\ live.usage = live.sent - (IF live.blocker = "PROVIDER_ERROR" THEN 1 ELSE 0)
=============================================================================
