------------------------------ MODULE MCGateway ------------------------------
(***************************************************************************)
(* Small instances of Gateway: one mix of requests for each piece of       *)
(* state that requests share.                                              *)
(***************************************************************************)
EXTENDS Gateway, TLC

MCUsers == {"ann", "bob"}
MCPersonalOf == [u \in MCUsers |-> IF u = "ann" THEN -1 ELSE -2]
MCHomeOf == [r \in Runs |-> "c1"]

Op(do, user, method, path) ==
    [do |-> do, user |-> user, ws |-> None, method |-> method, path |-> path, origin |-> None, valid |-> TRUE,
     correct |-> TRUE, conversation |-> None, run |-> None, member |-> 0, target |-> None, grant |-> None,
     limit |-> None, stream |-> FALSE, decision |-> None, operation |-> 0]
Get(do, user) == Op(do, user, "GET", "other")
Post(do, user) == Op(do, user, "POST", "other")

Membership(id, user, role) == [id |-> id, ws |-> 1, user |-> user, role |-> role]

Mix ==
    [ops |-> {}, requests |-> 0, ticks |-> 0, auth |-> TRUE, limiter |-> "memory", base |-> 0,
     override |-> [r \in {"general", "auth-login"} |-> 0], failClosed |-> FALSE, counter |-> 2, signedIn |-> TRUE,
     spaces |-> {1}, members |-> {Membership(1, "ann", "owner"), Membership(2, "bob", "developer")},
     home |-> [c \in Conversations |-> IF c = "c1" THEN 1 ELSE None],
     ready |-> TRUE, operations |-> 0, budget |-> FALSE, restarts |-> FALSE]

Message(user, stream) ==
    [Op("postMessages", user, "POST", "chat") EXCEPT !.conversation = "c1", !.stream = stream]

\* Roles change and members leave while their requests are under way.
MembersMix ==
    [Mix EXCEPT !.requests = 3,
        !.ops = {[Post("postMembers", "ann") EXCEPT !.ws = 1, !.target = "bob", !.grant = "admin"],
                 [Post("patchMember", "ann") EXCEPT !.ws = 1, !.member = 2, !.grant = "viewer"],
                 [Post("patchMember", "bob") EXCEPT !.ws = 1, !.member = 1, !.grant = "viewer"],
                 [Post("deleteMember", "ann") EXCEPT !.ws = 1, !.member = 2],
                 [Post("deleteMember", "bob") EXCEPT !.ws = 1, !.member = 2],
                 [Post("postConversations", "bob") EXCEPT !.ws = 1],
                 [Get("getConversation", "bob") EXCEPT !.conversation = "c1"],
                 [Get("listConversations", "bob") EXCEPT !.ws = 1],
                 [Post("rotateSecret", "bob") EXCEPT !.ws = 1],
                 [Get("getMembers", "bob") EXCEPT !.ws = 1]}]

\* The reading routes, on a conversation that is there and on one that is not, or is made meanwhile.
ReadingMix ==
    [Mix EXCEPT !.requests = 2,
        !.ops = UNION {{[Get(do, u) EXCEPT !.conversation = c] :
                            do \in {"getConversation", "getLineage", "getConversationCost"}, c \in Conversations} :
                       u \in MCUsers}
                \cup {[Get(do, "bob") EXCEPT !.run = r] : do \in {"getRunEvents", "getRunCost"}, r \in Runs \cup {None}}
                \cup {Get("listConversations", "bob"), Get("searchConversations", "bob"),
                      [Get("searchConversations", "bob") EXCEPT !.ws = 2],
                      [Get("getAuditEvents", "bob") EXCEPT !.ws = 1], [Get("getQuotas", "bob") EXCEPT !.ws = 1],
                      [Post("deleteMember", "ann") EXCEPT !.ws = 1, !.member = 2],
                      Get("operatorRead", "bob"), Post("operatorAbort", "bob"), Post("operatorPlaceholder", "bob"),
                      [Post("operatorAbort", "bob") EXCEPT !.run = "r1"], [Get("operatorReadRun", "bob") EXCEPT !.run = "r1"],
                      [Post("postInterrupt", "bob") EXCEPT !.run = "r1"], [Post("postSteer", "bob") EXCEPT !.run = "r1"],
                      Post("postSteer", "bob"), Post("postConversations", "ann")}]

\* Without authentication.
LocalMix ==
    [ReadingMix EXCEPT !.auth = FALSE,
        !.ops = {[Get("getConversation", "bob") EXCEPT !.conversation = "c1"], Get("listConversations", "bob"),
                 [Post("postConversations", "bob") EXCEPT !.ws = 1],
                 [Op("login", "bob", "POST", "login") EXCEPT !.valid = FALSE], Op("session", "bob", "GET", "session")}]

\* Messages together, around a quota that changes and a day that ends.
QuotaMix ==
    [Mix EXCEPT !.requests = 4, !.ticks = 1,
        !.ops = {Message("bob", FALSE), Message("bob", TRUE), [Post("putQuotas", "ann") EXCEPT !.ws = 1, !.limit = 1]}]
\* A quota of 0, set while a message is under way.
ClosedMix ==
    [QuotaMix EXCEPT !.requests = 3,
        !.ops = {Message("bob", TRUE), [Post("putQuotas", "ann") EXCEPT !.ws = 1, !.limit = 0]}]

\* The process restarts, the directory is empty and workspaces are made anew.
RestartMix ==
    [Mix EXCEPT !.requests = 3, !.restarts = TRUE,
        !.ops = {Post("postWorkspaces", "ann"), Message("bob", TRUE),
                 [Get("getConversation", "bob") EXCEPT !.conversation = "c1"],
                 Post("postConversations", "bob")}]

\* Decisions on the operations of a run, some of them late.
ApprovalMix ==
    [Mix EXCEPT !.requests = 2, !.ticks = 2, !.operations = 2,
        !.members = {Membership(1, "ann", "owner"), Membership(2, "bob", "operator")},
        !.ops = {[Post("postDecision", u) EXCEPT !.run = "r1", !.decision = d, !.operation = n] :
                    u \in {"bob"}, d \in {"approve"}, n \in {1, 2}}
                \cup {[Post("postDecision", "bob") EXCEPT !.run = "r1", !.decision = "deny", !.operation = 1]}]

BudgetMix ==
    [Mix EXCEPT !.requests = 3, !.budget = TRUE,
        !.ops = {[Post("postBudgetDecision", "ann") EXCEPT !.run = "r1", !.decision = d] : d \in {"approve", "deny"}}
                \cup {Post("postBudgetDecision", "bob"), Get("getBudgetApprovals", "bob")}]

\* The routes that serve every workspace, used by a developer of the run's workspace.
OperatorMix ==
    [Mix EXCEPT !.requests = 2, !.budget = TRUE,
        !.ops = {Get(do, "bob") : do \in {"operatorRead", "getBudgetApprovals"}}
                \cup {[Get("operatorReadRun", "bob") EXCEPT !.run = r] : r \in Runs \cup {None}}
                \cup {[Post(do, "bob") EXCEPT !.run = r, !.decision = "approve"] :
                          do \in {"operatorAbort", "operatorPlaceholder", "postBudgetDecision"}, r \in Runs \cup {None}}]

\* Windows of the limiter and of the login attempts.
LimitsMix ==
    [Mix EXCEPT !.requests = 4, !.ticks = 2, !.base = 1, !.signedIn = FALSE,
        !.ops = {[Op("login", "bob", "POST", "login") EXCEPT !.correct = b] : b \in BOOLEAN}
                \cup {Op("logout", "bob", "POST", "logout")},
        !.override = [r \in {"general", "auth-login"} |-> 2]]
RedisMix ==
    [Mix EXCEPT !.requests = 4, !.ticks = 3, !.base = 2, !.limiter = "redis", !.failClosed = TRUE,
        !.ops = {Message("bob", TRUE), [Message("bob", TRUE) EXCEPT !.origin = "foreign"], Op("session", "bob", "GET", "page")}]

NotesMix ==
    [Mix EXCEPT !.requests = 4, !.ready = FALSE,
        !.ops = {[Post("postNotes", "bob") EXCEPT !.conversation = c] : c \in {"c1", None}} \cup {Message("bob", FALSE)}]

MCMixes ==
    [members |-> MembersMix, reading |-> ReadingMix, local |-> LocalMix, quota |-> QuotaMix,
     closed |-> ClosedMix, restart |-> RestartMix,
     approval |-> ApprovalMix, budget |-> BudgetMix, limits |-> LimitsMix, redis |-> RedisMix, notes |-> NotesMix,
     operators |-> OperatorMix]
=============================================================================
