---------------------------- MODULE GatewayRoutes ----------------------------
(***************************************************************************)
(* The routes in front of conversations, runs, workspaces, quotas and      *)
(* approvals (server.ts and api/routes/), each as the steps its handler    *)
(* takes.  The handler awaits between two steps; module Gateway says what  *)
(* a step does.                                                            *)
(*   need   a condition on the request, else the answer `code`;            *)
(*   find   the conversation or run named gives the workspace; when there  *)
(*          is none, the answer `code`, or (0) the requester's own one;    *)
(*   allow  authorize: membership and permission, else 403;                *)
(*   effect one change of state;                                           *)
(*   show   conversations or runs are read for the answer.                 *)
(***************************************************************************)
EXTENDS Admission, Sequences

Need(test, code) == [do |-> "need", test |-> test, code |-> code]
Find(what, code) == [do |-> "find", what |-> what, code |-> code]
Allow(permission) == [do |-> "allow", permission |-> permission]
Effect(what) == [do |-> "effect", what |-> what]
Do(what) == [do |-> what]

(***************************************************************************)
(* The middleware every request passes: rate limit, then session and       *)
(* origin.  The auth routes are registered before the session check.       *)
(***************************************************************************)
Entry == <<Do("limit"), Do("enter")>>
login(op) == <<Do("limit"), Do("login"), Do("audit")>>
logout(op) == <<Do("limit"), Effect("logout"), Do("audit")>>
session(op) == <<Do("limit")>>

(***************************************************************************)
(* Workspaces, members, quotas, secrets and the audit log.                 *)
(***************************************************************************)
postWorkspaces(op) == <<Need("body", 400), Effect("createWorkspace"), Do("audit")>>
getMembers(op) == <<Allow("members.manage")>>
postMembers(op) == <<Allow("members.manage"), Need("body", 400), Effect("addMembership"), Do("audit")>>
patchMember(op) ==
    <<Allow("members.manage"), Need("body", 400), Need("memberListed", 404), Effect("updateMembershipRole"),
      Do("audit")>>
deleteMember(op) ==
    <<Allow("members.manage"), Need("memberListed", 404), Effect("removeMembership"), Do("audit")>>
getAuditEvents(op) == <<Allow("audit.read")>>
getQuotas(op) == <<Allow("workspace.read")>>
putQuotas(op) == <<Allow("billing.manage"), Need("body", 400), Effect("setPolicy"), Do("audit")>>
rotateSecret(op) == <<Allow("secrets.rotate"), Need("body", 400), Effect("rotateSecret"), Do("audit")>>

(***************************************************************************)
(* Conversations and what is read of them.                                 *)
(***************************************************************************)
postConversations(op) ==
    <<Need("body", 400), Allow("runs.create"), Need("ready", 409), Effect("createConversation")>>
listConversations(op) == IF op.ws = None THEN <<Do("show")>> ELSE <<Allow("runs.read"), Do("show")>>
searchConversations(op) == <<Need("body", 400), Allow("runs.read"), Do("show")>>
\* A way to get this wrong: the permission is checked before the conversation's workspace is known.
getConversationUnscoped(op) == <<Allow("runs.read"), Find("conversation", 404), Do("show")>>
getConversation(op) == <<Find("conversation", 404), Allow("runs.read"), Do("show")>>
getLineage(op) == <<Find("conversation", 404), Allow("runs.read"), Do("show")>>
getConversationCost(op) == <<Find("conversation", 0), Allow("runs.read"), Do("show")>>
getRunEvents(op) == <<Find("run", 404), Allow("runs.read"), Do("show")>>
getRunCost(op) == <<Find("run", 0), Allow("runs.read"), Do("show")>>
postNotes(op) ==
    <<Need("body", 400), Find("conversation", 0), Allow("runs.create"), Effect("createMemoryEntry"), Do("prune")>>

(***************************************************************************)
(* A message.  The synchronous form answers when the run is over and       *)
(* counts it then; with ?stream=1 the run is counted once it exists, the   *)
(* answer is 202 and the pipeline goes on behind it.                       *)
(***************************************************************************)
postMessages(op) ==
    <<Find("conversation", 404), Allow("runs.create"), Do("quota"), Need("ready", 409), Need("body", 400),
      Effect("createMessage"), Do("createRun")>>
      \o (IF op.stream THEN <<Do("count"), Do("finish")>> ELSE <<Do("finish"), Do("count")>>)

(***************************************************************************)
(* Control of a run: decisions, interrupts, steering.                      *)
(***************************************************************************)
postDecision(op) ==
    <<Need("body", 400), Find("run", 0), Allow("runs.approve"), Do("readPending"), Do("commitDecision"), Do("audit")>>
postInterrupt(op) == <<Need("body", 400), Find("run", 0), Allow("runs.abort"), Effect("interruptRun"), Do("audit")>>
postSteer(op) == <<Need("body", 400), Find("run", 0), Allow("runs.read"), Effect("steerRun"), Do("audit")>>

(***************************************************************************)
(* The operator's console and the budget approvals, which serve the runs   *)
(* of every workspace.  They name no workspace, so the permission is       *)
(* looked up in the requester's own one, whatever run is meant.            *)
(***************************************************************************)
getBudgetApprovals(op) == <<Allow("runs.approve"), Do("show")>>
postBudgetDecision(op) == <<Allow("runs.approve"), Do("decideBudget"), Do("show")>>
operatorAbort(op) == <<Allow("operator.manage"), Do("interruptAny"), Do("show")>>
operatorRead(op) == <<Allow("operator.read"), Do("show")>>
operatorReadRun(op) == <<Allow("operator.read"), Need("runKnown", 404), Do("show")>>
operatorPlaceholder(op) == <<Allow("operator.manage"), Need("runKnown", 404), Do("show")>>

ServerWide ==
    {"getBudgetApprovals", "postBudgetDecision", "operatorAbort", "operatorRead", "operatorReadRun",
     "operatorPlaceholder"}

Routes ==
    {"login", "logout", "session", "postWorkspaces", "getMembers", "postMembers", "patchMember", "deleteMember",
     "getAuditEvents", "getQuotas", "putQuotas", "rotateSecret", "postConversations", "listConversations",
     "searchConversations", "getConversation", "getLineage", "getConversationCost", "getRunEvents", "getRunCost",
     "postNotes", "postMessages", "postDecision", "postInterrupt", "postSteer"} \cup ServerWide

Handler(op) ==
    CASE op.do = "postWorkspaces" -> postWorkspaces(op)
      [] op.do = "getMembers" -> getMembers(op)
      [] op.do = "postMembers" -> postMembers(op)
      [] op.do = "patchMember" -> patchMember(op)
      [] op.do = "deleteMember" -> deleteMember(op)
      [] op.do = "getAuditEvents" -> getAuditEvents(op)
      [] op.do = "getQuotas" -> getQuotas(op)
      [] op.do = "putQuotas" -> putQuotas(op)
      [] op.do = "rotateSecret" -> rotateSecret(op)
      [] op.do = "postConversations" -> postConversations(op)
      [] op.do = "listConversations" -> listConversations(op)
      [] op.do = "searchConversations" -> searchConversations(op)
      [] op.do = "getConversation" -> getConversation(op)
      [] op.do = "getLineage" -> getLineage(op)
      [] op.do = "getConversationCost" -> getConversationCost(op)
      [] op.do = "getRunEvents" -> getRunEvents(op)
      [] op.do = "getRunCost" -> getRunCost(op)
      [] op.do = "postNotes" -> postNotes(op)
      [] op.do = "postMessages" -> postMessages(op)
      [] op.do = "postDecision" -> postDecision(op)
      [] op.do = "postInterrupt" -> postInterrupt(op)
      [] op.do = "postSteer" -> postSteer(op)
      [] op.do = "getBudgetApprovals" -> getBudgetApprovals(op)
      [] op.do = "postBudgetDecision" -> postBudgetDecision(op)
      [] op.do = "operatorAbort" -> operatorAbort(op)
      [] op.do = "operatorRead" -> operatorRead(op)
      [] op.do = "operatorReadRun" -> operatorReadRun(op)
      [] op.do = "operatorPlaceholder" -> operatorPlaceholder(op)

Program(op) ==
    CASE op.do = "login" -> login(op)
      [] op.do = "logout" -> logout(op)
      [] op.do = "session" -> session(op)
      [] OTHER -> Entry \o Handler(op)

\* The permission a route asks for, None where it asks for none.
PermissionOf(op) ==
    LET p == Program(op)
        asks == {i \in 1 .. Len(p) : p[i].do = "allow"}
    IN  IF asks = {} THEN None ELSE p[CHOOSE i \in asks : TRUE].permission
=============================================================================
