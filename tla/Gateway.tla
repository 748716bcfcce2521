------------------------------- MODULE Gateway -------------------------------
(***************************************************************************)
(* Requests to the server, from the rate limiter to their effect, and the  *)
(* state they share: buckets, sessions, workspaces and members, quotas,    *)
(* conversations, pending operations and budget approvals.                 *)
(*                                                                         *)
(* The handlers interleave between their steps.  Membership, quota and     *)
(* pending operation are read in one step and relied on in later ones, so  *)
(* each may have changed in between.  The directory, the quotas and the    *)
(* limiter are kept in memory; conversations and runs are in the store.    *)
(* Time is counted in ticks.                                               *)
(***************************************************************************)
EXTENDS GatewayRoutes

CONSTANTS
    Users, PersonalOf,      \* the users, and the id (negative) of each one's own workspace
    Mixes,                  \* by name: the requests issued together and their circumstances
    MaxSlots,               \* requests in flight at once
    Conversations, Runs,    \* ids
    HomeOf,                 \* run -> its conversation
    LoginLimit,             \* LOGIN_ATTEMPT_LIMIT
    WindowMs, DayLength, SessionMaxAge, ApprovalTimeout,   \* in ticks
    MaxNotes,               \* what pruneMemory keeps
    MaxWorkspaces           \* bound: the workspaces that are created

Slots == 1 .. MaxSlots
Workspaces == {PersonalOf[u] : u \in Users} \cup 1 .. MaxWorkspaces
Ops == UNION {Mixes[m].ops : m \in DOMAIN Mixes}
Memberships == [id : Int, ws : Workspaces, user : Users \cup {None}, role : Roles \cup {None}]

\* What the directory of a running server is like: its memberships are of workspaces it
\* knows, one for a user and a workspace.
Directory(sp, ms) ==
    /\ sp \subseteq Workspaces /\ ms \subseteq Memberships
    /\ \A m \in ms : m.ws \in sp
    /\ \A m, n \in ms : m.user = n.user /\ m.ws = n.ws => m = n

\* None is no id, permission or record; users' own workspaces differ; a request is for a
\* route, names an id or nothing, a list or a search names no conversation, a server-wide route
\* no workspace; limits are numbers; the runs are of conversations that are there from the start.
ASSUME GatewayAssumption ==
    /\ MaxSlots \in Nat /\ ApprovalTimeout \in Nat /\ MaxWorkspaces \in Nat /\ WindowMs \in Nat
    /\ PersonalOf \in [Users -> Int] /\ HomeOf \in [Runs -> Conversations]
    /\ \A u, v \in Users : PersonalOf[u] < 0 /\ (PersonalOf[u] = PersonalOf[v] => u = v)
    /\ None \notin Ops /\ None \notin Permissions /\ None \notin Workspaces
    /\ None \notin Conversations /\ None \notin Runs /\ None \notin Memberships
    /\ None \notin [resetAt : Nat, count : Nat]
    /\ \A op \in Ops :
        /\ op.do \in Routes /\ op.user \in Users
        /\ op.ws \in Workspaces \cup {None} /\ op.run \in Runs \cup {None}
        /\ op.conversation \in Conversations \cup {None} /\ op.target \in Users \cup {None}
        /\ op.limit \in {None} \cup Nat /\ op.grant \in Roles \cup {None} /\ op.decision \in {"approve", "deny", None}
        /\ op.do \in {"listConversations", "searchConversations"} => op.run = None /\ op.conversation = None
        /\ op.do \in ServerWide => op.ws = None
    /\ \A m \in DOMAIN Mixes :
        /\ Mixes[m].auth \in BOOLEAN /\ Mixes[m].counter \in Int
        /\ Mixes[m].base \in Int /\ \A r \in DOMAIN Mixes[m].override : Mixes[m].override[r] \in {None} \cup Int
        /\ Directory(Mixes[m].spaces, Mixes[m].members)
        /\ Mixes[m].home \in [Conversations -> Workspaces \cup {None}]
        /\ \A r \in Runs : Mixes[m].home[HomeOf[r]] # None

VARIABLES
    clock,
    buckets,        \* rate-limit buckets by identity and route
    attempts,       \* failed logins by user
    sessions,       \* the cookie each user's browser holds
    spaces, members, memberCounter,
    policies, usage,
    conversations,  \* conversation -> its workspace, None before it exists
    runs,           \* pending operations of the runs
    approvals, waits,   \* budget approvals, and the orchestrations that wait for them
    notes,
    req,
    mix, issued,
    admitted,       \* history: when the limiter let requests through, by bucket
    ceiling, width, \* history, for the current day: the largest quota, the most messages at once
    ran             \* history: operations that were resumed, with the decision that did it

vars == <<clock, buckets, attempts, sessions, spaces, members, memberCounter, policies, usage,
          conversations, runs, approvals, waits, notes, req, mix, issued, admitted, ceiling, width, ran>>
traffic == <<clock, buckets, attempts, sessions, admitted>>
directory == <<spaces, members, memberCounter>>
quotas == <<policies, usage, ceiling, width>>
work == <<conversations, runs, approvals, waits, notes, ran>>
rest == <<mix, issued>>

Idle == [op |-> None]
Busy(q) == q.op # None /\ q.todo # << >>
Instruction(q) == Head(q.todo)
At(s, do) == Busy(req[s]) /\ Instruction(req[s]).do = do
Advance(q) ==
    [q EXCEPT !.todo = Tail(q.todo), !.answer = IF q.answer = 0 /\ Len(q.todo) = 1 THEN 200 ELSE q.answer]
End(q, code) == [q EXCEPT !.todo = << >>, !.counting = FALSE, !.answer = IF q.answer = 0 THEN code ELSE q.answer]
\* A refusal is audited before it is answered.
Refuse(q, code) == [q EXCEPT !.todo = <<[do |-> "audit", code |-> code]>>]

\* The conversation a request is about, if any.
HomeOfTarget(op) == IF op.run # None THEN HomeOf[op.run] ELSE op.conversation

Keys == Users \cup {"ip"}
RateRoutes == {"chat", "auth-login", "provider-test-connection", "memory-provider-test", "general"}
AuthEnabled == Mixes[mix].auth
Policy == createRateLimitPolicy(Mixes[mix].base, Mixes[mix].override, Mixes[mix].failClosed)
Day == clock \div DayLength

Init ==
    /\ mix \in DOMAIN Mixes
    /\ clock = 0 /\ issued = 0 /\ memberCounter = Mixes[mix].counter
    /\ buckets = [k \in Keys |-> [r \in RateRoutes |-> None]]
    /\ attempts = [u \in Users |-> None]
    /\ sessions = [u \in Users |-> IF Mixes[mix].signedIn THEN SessionMaxAge ELSE 0]
    /\ spaces = Mixes[mix].spaces /\ members = Mixes[mix].members
    /\ policies = [w \in Workspaces |-> None] /\ usage = [w \in Workspaces |-> None]
    /\ conversations = [c \in Conversations |-> Mixes[mix].home[c]]
    /\ runs = [r \in Runs |-> [phase |-> "EXECUTING", op |-> 0, presentedAt |-> 0]]
    /\ approvals = [r \in Runs |-> None] /\ waits = [r \in Runs |-> "none"]
    /\ notes = 0
    /\ req = [s \in Slots |-> Idle]
    /\ admitted = [k \in Keys |-> [r \in RateRoutes |-> << >>]]
    /\ ceiling = [w \in Workspaces |-> None] /\ width = [w \in Workspaces |-> 0]
    /\ ran = {}

(***************************************************************************)
(* Workspaces and members (security/workspaces.ts).                        *)
(***************************************************************************)
MembershipIn(ms, u, w) ==
    IF \E m \in ms : m.user = u /\ m.ws = w THEN CHOOSE m \in ms : m.user = u /\ m.ws = w ELSE None

\* The membership of one's own workspace is made, and made again, whenever it is looked for.
ensurePersonalWorkspace(ms, u) ==
    IF MembershipIn(ms, u, PersonalOf[u]) # None THEN ms
    ELSE ms \cup {[id |-> PersonalOf[u], ws |-> PersonalOf[u], user |-> u, role |-> "owner"]}

roleOf(ms, u, w) == IF MembershipIn(ms, u, w) = None THEN None ELSE MembershipIn(ms, u, w).role
effectiveRole(ms, u, w) == roleOf(ensurePersonalWorkspace(ms, u), u, w)

\* History: the workspaces in which a user has the permission now.
Reach(ms, q) ==
    LET p == PermissionOf(q.op)
    IN  {w \in Workspaces : p # None /\ requirePermission(AuthEnabled, effectiveRole(ms, q.op.user, w), p)}
Watching(ms, r) == [s \in Slots |-> IF Busy(r[s]) THEN [r[s] EXCEPT !.reach = @ \cup Reach(ms, r[s])] ELSE r[s]]

(***************************************************************************)
(* A request arrives.  An answered one leaves its slot.                    *)
(***************************************************************************)
Issue(s, op) ==
    /\ issued < Mixes[mix].requests
    /\ ~Busy(req[s]) /\ \A t \in 1 .. s - 1 : Busy(req[t])
    /\ LET new == [op |-> op, todo |-> Program(op), ws |-> op.ws, role |-> None,
                   pending |-> None, wrote |-> None, shown |-> {}, counting |-> FALSE,
                   rival |-> FALSE, reach |-> {}, born |-> {}, answer |-> 0]
           rivals == {t \in Slots \ {s} : Busy(req[t]) /\ op.do = "postDecision" /\ req[t].op.do = "postDecision"}
           arrived == [t \in Slots |-> IF t = s THEN [new EXCEPT !.rival = rivals # {}]
                                       ELSE IF t \in rivals THEN [req[t] EXCEPT !.rival = TRUE]
                                       ELSE IF Busy(req[t]) THEN req[t] ELSE Idle]
       IN  req' = Watching(members, arrived)
    /\ issued' = issued + 1
    /\ UNCHANGED <<traffic, directory, quotas, work, mix>>

Become(s, q) == req' = [req EXCEPT ![s] = q]

(***************************************************************************)
(* The middleware.                                                         *)
(***************************************************************************)
SignedIn(u) == verifySessionToken(sessions[u], clock)
rateLimitKeyForRequest(op) == IF AuthEnabled /\ SignedIn(op.user) THEN op.user ELSE "ip"

LimitRequest(s) ==
    /\ At(s, "limit")
    /\ LET q     == req[s]
           key   == rateLimitKeyForRequest(q.op)
           route == classifyRateLimitRoute(q.op.method, q.op.path)
           d     == commit(Mixes[mix].limiter, buckets[key][route], rateLimitRuleFor(Policy, route), clock, WindowMs)
       IN  IF route = None THEN Become(s, Advance(q)) /\ UNCHANGED <<buckets, admitted>>
           ELSE /\ buckets' = [buckets EXCEPT ![key][route] = d.bucket]
                /\ Become(s, IF d.allowed THEN Advance(q) ELSE End(q, 429))
                /\ admitted' = IF d.allowed THEN [admitted EXCEPT ![key][route] = Append(@, clock)] ELSE admitted
    /\ UNCHANGED <<clock, attempts, sessions, directory, quotas, work, rest>>

\* The limiter's backend does not answer: unless the rule fails closed, the request goes on
\* uncounted.
LimiterFails(s) ==
    /\ At(s, "limit") /\ Mixes[mix].limiter = "redis"
    /\ LET route == classifyRateLimitRoute(req[s].op.method, req[s].op.path)
       IN  /\ route # None
           /\ Become(s, IF rateLimitRuleFor(Policy, route).failClosed THEN End(req[s], 503) ELSE Advance(req[s]))
    /\ UNCHANGED <<traffic, directory, quotas, work, rest>>

EnterRequest(s) ==
    /\ At(s, "enter")
    /\ LET q == req[s]
       IN  Become(s, CASE ~AuthEnabled \/ isPublicAuthRoute(q.op.method, q.op.path) -> Advance(q)
                       [] OTHER -> IF ~SignedIn(q.op.user) THEN End(q, 401)
                                   ELSE IF ~csrfAllows(AuthEnabled, q.op.method, q.op.origin) THEN End(q, 403)
                                   ELSE Advance(q))
    /\ UNCHANGED <<traffic, directory, quotas, work, rest>>

LoginRequest(s) ==
    /\ At(s, "login")
    /\ LET q == req[s]
           u == q.op.user
           current == activeLoginAttempt(attempts[u], clock)
           limited == isLoginAttemptLimited(current, LoginLimit)
       IN  CASE ~AuthEnabled -> Become(s, End(q, 200)) /\ UNCHANGED <<attempts, sessions>>
             [] AuthEnabled /\ ~q.op.valid -> Become(s, End(q, 400)) /\ UNCHANGED <<attempts, sessions>>
             [] AuthEnabled /\ q.op.valid /\ limited ->
                   Become(s, Refuse(q, 429)) /\ UNCHANGED <<attempts, sessions>>
             [] AuthEnabled /\ q.op.valid /\ ~limited /\ ~q.op.correct ->
                   /\ attempts' = [attempts EXCEPT ![u] = nextLoginAttempt(current, clock, WindowMs)]
                   /\ Become(s, Refuse(q, 401))
                   /\ UNCHANGED sessions
             [] AuthEnabled /\ q.op.valid /\ ~limited /\ q.op.correct ->
                   /\ attempts' = [attempts EXCEPT ![u] = None]
                   /\ sessions' = [sessions EXCEPT ![u] = createSessionToken(clock, SessionMaxAge)]
                   /\ Become(s, Advance(q))
    /\ UNCHANGED <<clock, buckets, admitted, directory, quotas, work, rest>>

(***************************************************************************)
(* Lookups and authorization.                                              *)
(***************************************************************************)
WorkspaceOfTarget(op) == IF HomeOfTarget(op) = None THEN None ELSE conversations[HomeOfTarget(op)]

FindTarget(s) ==
    /\ At(s, "find")
    /\ LET q == req[s]
           w == WorkspaceOfTarget(q.op)
       IN  Become(s, IF w = None /\ Instruction(q).code # 0 THEN End(q, Instruction(q).code)
                     ELSE Advance([q EXCEPT !.ws = w]))
    /\ UNCHANGED <<traffic, directory, quotas, work, rest>>

\* authorize: the workspace, the membership, the permission; a refusal is audited.  A workspace
\* that is named must be known already, one's own too.
AuthorizeRequest(s) ==
    /\ At(s, "allow")
    /\ LET q    == req[s]
           u    == q.op.user
           own  == ensurePersonalWorkspace(members, u)
           known == q.ws = None \/ q.ws \in spaces
           ms   == IF AuthEnabled /\ known /\ q.ws \in {None, PersonalOf[u]} THEN own ELSE members
           w    == IF q.ws = None THEN PersonalOf[u] ELSE q.ws
           role == IF AuthEnabled /\ ~known THEN None ELSE roleOf(ms, u, w)
           ok   == requirePermission(AuthEnabled, role, Instruction(q).permission)
       IN  /\ members' = ms
           /\ spaces' = IF ms = members THEN spaces ELSE spaces \cup {PersonalOf[u]}
           /\ Become(s, IF ok THEN Advance([q EXCEPT !.ws = w, !.role = role])
                        ELSE Refuse(q, 403))
    /\ UNCHANGED <<traffic, memberCounter, quotas, work, rest>>

Holds(test, q) ==
    CASE test = "body" -> q.op.valid
      [] test = "ready" -> Mixes[mix].ready
      [] test = "memberListed" -> \E m \in members : m.ws = q.ws /\ m.id = q.op.member
      [] test = "runKnown" -> q.op.run # None

CheckRequest(s) ==
    /\ At(s, "need")
    /\ LET i == Instruction(req[s])
       IN  Become(s, IF Holds(i.test, req[s]) THEN Advance(req[s]) ELSE End(req[s], i.code))
    /\ UNCHANGED <<traffic, directory, quotas, work, rest>>

\* auditRequest: the event is appended, or the failure to append it is swallowed; the answer
\* of a refused request follows it.
AuditRequest(s) ==
    /\ At(s, "audit")
    /\ Become(s, IF "code" \in DOMAIN Instruction(req[s]) THEN End(req[s], Instruction(req[s]).code) ELSE Advance(req[s]))
    /\ UNCHANGED <<traffic, directory, quotas, work, rest>>

(***************************************************************************)
(* Effects on the directory, the quotas and the store.                     *)
(***************************************************************************)
addMembership(ms, q) ==
    IF MembershipIn(ms, q.op.target, q.ws) = None
    THEN ms \cup {[id |-> memberCounter + 1, ws |-> q.ws, user |-> q.op.target, role |-> q.op.grant]}
    ELSE {IF m.user = q.op.target /\ m.ws = q.ws THEN [m EXCEPT !.role = q.op.grant] ELSE m : m \in ms}
updateMembershipRole(ms, q) == {IF m.id = q.op.member THEN [m EXCEPT !.role = q.op.grant] ELSE m : m \in ms}
removeMembership(ms, q) == {m \in ms : m.id # q.op.member}

ChangeMembers(s) ==
    /\ At(s, "effect")
    /\ Instruction(req[s]).what \in {"addMembership", "updateMembershipRole", "removeMembership"}
    /\ LET q     == req[s]
           what  == Instruction(q).what
           known == \E m \in members : m.id = q.op.member
           lost  == what = "addMembership" /\ q.ws \notin spaces
           new   == CASE lost -> members
                      [] what = "addMembership" /\ ~lost -> addMembership(members, q)
                      [] what = "updateMembershipRole" -> updateMembershipRole(members, q)
                      [] what = "removeMembership" -> removeMembership(members, q)
           after == CASE lost -> End(q, 400)
                      [] what = "updateMembershipRole" /\ ~known -> End(q, 404)
                      [] OTHER -> Advance(IF what = "removeMembership" /\ ~known THEN q ELSE [q EXCEPT !.wrote = q.ws])
       IN  /\ members' = new
           /\ memberCounter' = IF what = "addMembership" /\ ~lost /\ MembershipIn(members, q.op.target, q.ws) = None
                               THEN memberCounter + 1 ELSE memberCounter
           /\ req' = Watching(new, [req EXCEPT ![s] = after])
    /\ UNCHANGED <<traffic, spaces, quotas, work, rest>>

FreeIds(sp) == 1 .. MaxWorkspaces \ sp
nextWorkspaceId(sp) == CHOOSE w \in FreeIds(sp) : \A v \in FreeIds(sp) : w <= v

createWorkspace(s) ==
    /\ At(s, "effect") /\ Instruction(req[s]).what = "createWorkspace" /\ FreeIds(spaces) # {}
    /\ LET q  == req[s]
           w  == nextWorkspaceId(spaces)
           ms == members \cup {[id |-> memberCounter + 1, ws |-> w, user |-> q.op.user, role |-> "owner"]}
       IN  /\ spaces' = spaces \cup {w}
           /\ members' = ms
           /\ req' = Watching(ms, [req EXCEPT ![s] = Advance([q EXCEPT !.ws = w])])
    /\ memberCounter' = memberCounter + 1
    /\ UNCHANGED <<traffic, quotas, work, rest>>

setPolicy(s) ==
    /\ At(s, "effect") /\ Instruction(req[s]).what = "setPolicy"
    /\ LET q == req[s]
       IN  /\ policies' = [policies EXCEPT ![q.ws] = q.op.limit]
           /\ ceiling' = [ceiling EXCEPT ![q.ws] = IF @ = None \/ q.op.limit = None THEN None ELSE LargerOf(@, q.op.limit)]
           /\ Become(s, Advance([q EXCEPT !.wrote = q.ws]))
    /\ UNCHANGED <<traffic, directory, usage, width, work, rest>>

ChangeStore(s) ==
    /\ At(s, "effect")
    /\ LET q == req[s]
           what == Instruction(q).what
       IN  /\ what \in {"logout", "rotateSecret", "createMemoryEntry", "createMessage", "interruptRun", "steerRun"}
           /\ sessions' = IF what = "logout" THEN [sessions EXCEPT ![q.op.user] = 0] ELSE sessions
           /\ notes' = IF what = "createMemoryEntry" THEN notes + 1 ELSE notes
           /\ Become(s, IF what \in {"interruptRun", "steerRun"} /\ q.op.run = None THEN End(q, 404)
                        ELSE Advance([q EXCEPT !.wrote = IF what = "logout" THEN None ELSE q.ws]))
    /\ UNCHANGED <<clock, buckets, attempts, admitted, directory, quotas, conversations, runs, approvals, waits, ran, rest>>

\* History: a conversation of the workspace is new to the requests under way.
Bearing(w, r) == [s \in Slots |-> IF Busy(r[s]) THEN [r[s] EXCEPT !.born = @ \cup {w}] ELSE r[s]]

\* The store counts its ids up, so an id may be named before there is a conversation.
createConversation(s) ==
    /\ At(s, "effect") /\ Instruction(req[s]).what = "createConversation"
    /\ \E c \in Conversations :
        /\ conversations[c] = None
        /\ conversations' = [conversations EXCEPT ![c] = req[s].ws]
    /\ req' = Bearing(req[s].ws, [req EXCEPT ![s] = Advance([req[s] EXCEPT !.wrote = req[s].ws])])
    /\ UNCHANGED <<traffic, directory, quotas, runs, approvals, waits, notes, ran, rest>>

pruneMemory(s) ==
    /\ At(s, "prune")
    /\ notes' = IF notes > MaxNotes THEN MaxNotes ELSE notes
    /\ Become(s, Advance(req[s]))
    /\ UNCHANGED <<traffic, directory, quotas, conversations, runs, approvals, waits, ran, rest>>

\* The runs a server-wide list is about: all of them, or those that wait for a budget decision.
Listed(q) == IF q.op.do = "getBudgetApprovals" THEN {r \in Runs : approvals[r] = "pending"} ELSE Runs

\* The workspaces of what a reading route shows: one conversation, the runs of a server-wide
\* list, or the conversations of the workspaces that may be read.
Shown(q) ==
    IF HomeOfTarget(q.op) # None THEN {conversations[HomeOfTarget(q.op)]} \ {None}
    ELSE IF q.op.do \in ServerWide THEN {conversations[HomeOf[r]] : r \in Listed(q)} \ {None}
    ELSE {conversations[c] : c \in Conversations} \cap
            (IF q.ws # None THEN {q.ws}
             ELSE IF AuthEnabled THEN {m.ws : m \in {n \in members : n.user = q.op.user}} ELSE Workspaces)

ShowConversations(s) ==
    /\ At(s, "show")
    /\ Become(s, Advance([req[s] EXCEPT !.shown = Shown(req[s])]))
    /\ UNCHANGED <<traffic, directory, quotas, work, rest>>

(***************************************************************************)
(* Messages and the quota of runs: checked when the message comes in,      *)
(* counted when the run exists (stream) or is over.                        *)
(***************************************************************************)
Counting(w) == Cardinality({s \in Slots : Busy(req[s]) /\ req[s].counting /\ req[s].ws = w})

\* A new day starts new counters; the messages under way go with it.
RollOver(w) ==
    /\ usage' = [usage EXCEPT ![w] = getCurrentUsage(@, Day)]
    /\ ceiling' = IF usage[w] = None \/ usage[w].day # Day THEN [ceiling EXCEPT ![w] = policies[w]] ELSE ceiling

enforceRunQuota(s) ==
    /\ At(s, "quota")
    /\ LET q == req[s]
           w == q.ws
           before == IF usage[w] = None \/ usage[w].day # Day THEN 0 ELSE width[w]
           ok == checkRunCreation(policies[w], getCurrentUsage(usage[w], Day))
       IN  /\ RollOver(w)
           /\ width' = [width EXCEPT ![w] = IF ok THEN LargerOf(before, Counting(w) + 1)
                                            ELSE LargerOf(before, Counting(w))]
           /\ Become(s, IF ok THEN Advance([q EXCEPT !.counting = TRUE])
                        ELSE Refuse(q, 429))
    /\ UNCHANGED <<traffic, directory, policies, work, rest>>

CreateRun(s, ok) ==
    /\ At(s, "createRun")
    /\ Become(s, IF ok THEN Advance(req[s]) ELSE End(req[s], 400))
    /\ UNCHANGED <<traffic, directory, quotas, work, rest>>

CountRun(s) ==
    /\ At(s, "count")
    /\ LET w == req[s].ws
       IN  /\ usage' = [usage EXCEPT ![w] = recordRunCreated(getCurrentUsage(@, Day))]
           /\ ceiling' = IF usage[w] = None \/ usage[w].day # Day THEN [ceiling EXCEPT ![w] = policies[w]] ELSE ceiling
           /\ width' = IF usage[w] = None \/ usage[w].day # Day THEN [width EXCEPT ![w] = Counting(w)] ELSE width
    /\ Become(s, [Advance([req[s] EXCEPT !.counting = FALSE]) EXCEPT !.answer = IF req[s].op.stream THEN 202 ELSE 201])
    /\ UNCHANGED <<traffic, directory, policies, work, rest>>

\* The run and the messages after it: a failure is answered by the synchronous form only.
FinishRun(s, ok) ==
    /\ At(s, "finish")
    /\ Become(s, IF ok THEN Advance(req[s]) ELSE End(req[s], 400))
    /\ UNCHANGED <<traffic, directory, quotas, work, rest>>

(***************************************************************************)
(* Pending operations of a run (approvalFlow.ts).                          *)
(***************************************************************************)
\* The orchestration presents the next operation.
presentApprovalRequest(r) ==
    /\ runs[r].phase = "EXECUTING" /\ runs[r].op < Mixes[mix].operations
    /\ runs' = [runs EXCEPT ![r] = [phase |-> "NEEDS_DECISION", op |-> @.op + 1, presentedAt |-> clock]]
    /\ UNCHANGED <<traffic, directory, quotas, conversations, approvals, waits, notes, ran, req, rest>>

ReadPending(s) ==
    /\ At(s, "readPending")
    /\ LET q == req[s]
           r == q.op.run
       IN  Become(s, IF r = None THEN End(q, 404)
                     ELSE IF runs[r].phase # "NEEDS_DECISION" \/ runs[r].op # q.op.operation THEN End(q, 409)
                     ELSE Advance([q EXCEPT !.pending =
                            [decision |-> resolveEffectiveDecision(q.op.decision, runs[r].presentedAt, clock,
                                                                   ApprovalTimeout),
                             at |-> clock]]))
    /\ UNCHANGED <<traffic, directory, quotas, work, rest>>

\* resumeFromDecision reads the run again and only asks that it still awaits a decision.
recordApprovalDecision(s) ==
    /\ At(s, "commitDecision")
    /\ LET q == req[s]
           r == q.op.run
       IN  IF runs[r].phase # "NEEDS_DECISION" THEN Become(s, End(q, 409)) /\ UNCHANGED <<runs, ran>>
           ELSE /\ runs' = [runs EXCEPT ![r].phase = IF q.pending.decision = "approve" THEN "EXECUTING" ELSE "SYNTHESIZING"]
                /\ ran' = IF q.pending.decision = "approve"
                          THEN ran \cup {[run |-> r, op |-> runs[r].op, said |-> q.op.operation, rival |-> q.rival,
                                          age |-> q.pending.at - runs[r].presentedAt]}
                          ELSE ran
                /\ Become(s, Advance([q EXCEPT !.wrote = q.ws]))
    /\ UNCHANGED <<traffic, directory, quotas, conversations, approvals, waits, notes, rest>>

(***************************************************************************)
(* Budget approvals (security/budget.ts): created, announced, waited for.  *)
(***************************************************************************)
createApproval(r) ==
    /\ Mixes[mix].budget /\ waits[r] = "none"
    /\ approvals' = [approvals EXCEPT ![r] = "pending"]
    /\ waits' = [waits EXCEPT ![r] = "announcing"]
    /\ UNCHANGED <<traffic, directory, quotas, conversations, runs, notes, ran, req, rest>>

\* A decision taken before the wait began is found; otherwise the wait begins.
waitForDecision(r) ==
    /\ waits[r] = "announcing"
    /\ waits' = [waits EXCEPT ![r] = IF approvals[r] = "pending" THEN "waiting" ELSE approvals[r]]
    /\ UNCHANGED <<traffic, directory, quotas, conversations, runs, approvals, notes, ran, req, rest>>

\* A way to get this wrong: a waiter gives up without denying the approval.
waitTimesOutSilently(r) ==
    /\ waits[r] = "waiting"
    /\ waits' = [waits EXCEPT ![r] = "timeout"]
    /\ UNCHANGED <<traffic, directory, quotas, conversations, runs, approvals, notes, ran, req, rest>>

waitTimesOut(r) ==
    /\ waits[r] = "waiting"
    /\ waits' = [waits EXCEPT ![r] = "timeout"]
    /\ approvals' = [approvals EXCEPT ![r] = IF @ = "pending" THEN "denied" ELSE @]
    /\ UNCHANGED <<traffic, directory, quotas, conversations, runs, notes, ran, req, rest>>

\* recordDecision settles the request and every waiter, once, in whatever workspace the run is.
decideBudget(s) ==
    /\ At(s, "decideBudget")
    /\ LET q == req[s]
           r == q.op.run
           settled == IF q.op.decision = "approve" THEN "approved" ELSE "denied"
           found == r # None /\ approvals[r] # None
       IN  IF ~found \/ approvals[r] # "pending"
           THEN Become(s, End(q, IF found THEN 409 ELSE 404)) /\ UNCHANGED <<approvals, waits>>
           ELSE /\ approvals' = [approvals EXCEPT ![r] = settled]
                /\ waits' = [waits EXCEPT ![r] = IF @ = "waiting" THEN settled ELSE @]
                /\ Become(s, Advance([q EXCEPT !.wrote = WorkspaceOfTarget(q.op)]))
    /\ UNCHANGED <<traffic, directory, quotas, conversations, runs, notes, ran, rest>>

\* The operator's abort interrupts a run of whatever workspace.
interruptAny(s) ==
    /\ At(s, "interruptAny")
    /\ LET q == req[s]
       IN  Become(s, IF q.op.run = None THEN End(q, 404)
                     ELSE Advance([q EXCEPT !.wrote = WorkspaceOfTarget(q.op)]))
    /\ UNCHANGED <<traffic, directory, quotas, work, rest>>

(***************************************************************************)
(* Time passes; the process is killed and started again: what is kept in   *)
(* memory is lost, what is in the store and in the browsers stays.         *)
(***************************************************************************)
Tick ==
    /\ clock < Mixes[mix].ticks
    /\ clock' = clock + 1
    /\ UNCHANGED <<buckets, attempts, sessions, admitted, directory, quotas, work, req, rest>>

Restart ==
    /\ Mixes[mix].restarts /\ issued > 0 /\ members # {}
    /\ buckets' = [k \in Keys |-> [r \in RateRoutes |-> None]]
    /\ attempts' = [u \in Users |-> None]
    /\ spaces' = {} /\ members' = {} /\ memberCounter' = 0
    /\ policies' = [w \in Workspaces |-> None] /\ usage' = [w \in Workspaces |-> None]
    /\ ceiling' = [w \in Workspaces |-> None] /\ width' = [w \in Workspaces |-> 0]
    /\ admitted' = [k \in Keys |-> [r \in RateRoutes |-> << >>]]
    /\ approvals' = [r \in Runs |-> None] /\ waits' = [r \in Runs |-> "none"]
    /\ req' = [s \in Slots |-> Idle]
    /\ UNCHANGED <<clock, sessions, conversations, runs, notes, ran, rest>>

Step(s) ==
    \/ LimitRequest(s) \/ EnterRequest(s) \/ LoginRequest(s) \/ FindTarget(s) \/ AuthorizeRequest(s)
    \/ CheckRequest(s) \/ ChangeMembers(s) \/ createWorkspace(s)
    \/ setPolicy(s) \/ ChangeStore(s) \/ createConversation(s) \/ pruneMemory(s) \/ ShowConversations(s)
    \/ enforceRunQuota(s) \/ CountRun(s) \/ ReadPending(s) \/ recordApprovalDecision(s) \/ decideBudget(s) \/ interruptAny(s)

Next ==
    \/ \E s \in Slots :
         \/ Step(s) \/ AuditRequest(s) \/ LimiterFails(s)
         \/ \E ok \in BOOLEAN : CreateRun(s, ok) \/ FinishRun(s, ok)
         \/ \E op \in Mixes[mix].ops : Issue(s, op)
    \/ \E r \in Runs : presentApprovalRequest(r) \/ createApproval(r) \/ waitForDecision(r) \/ waitTimesOut(r)
    \/ Tick \/ Restart

Spec == Init /\ [][Next]_vars

(***************************************************************************)
(* Properties.                                                             *)
(***************************************************************************)
Limit(route) == rateLimitRuleFor(Policy, route).maxRequests

\* The limiter counts in windows that open with a request, so around the end of one a client
\* may get through twice; never more: of twice the limit of requests let through on a route,
\* the last comes WindowMs or more after the first, whatever the windows and the overlaps of
\* the requests.  What passes while the limiter's backend does not answer is not counted by it,
\* nor here.
AdmittedWithinLimit ==
    \A k \in Keys, r \in RateRoutes :
        LET times == admitted[k][r]
            last(i) == i + 2 * Limit(r) - 1
        IN  \A i \in DOMAIN times :
                Limit(r) > 0 /\ last(i) \in DOMAIN times => times[last(i)] - times[i] >= WindowMs

\* The routes that answer for an id nobody knows from the requester's own workspace.  They look
\* the id up again behind the permission, and may find a conversation made in between.
CostRoutes == {"getConversationCost", "getRunCost"}
Excused(q) == IF q.op.do \in CostRoutes THEN q.born ELSE {}

\* The workspaces whose runs a request may touch: those its user held the permission in while
\* the request was under way; on a server-wide route the user's own is enough for all of them.
Entitled(q) == IF q.op.do \in ServerWide /\ PersonalOf[q.op.user] \in q.reach THEN Workspaces ELSE q.reach

\* What a request changes or shows belongs to a workspace in which its user held the route's
\* permission at some moment while the request was under way, however members and roles
\* changed meanwhile, and after a restart that forgot them.  Two exemptions: what the cost routes
\* find of a conversation that was made meanwhile, and the server-wide routes, which touch the
\* runs of every workspace and ask for the permission in the user's own one only.
EffectsAuthorized ==
    \A s \in Slots :
        (req[s].op # None /\ AuthEnabled) =>
            /\ req[s].wrote # None => req[s].wrote \in Entitled(req[s])
            /\ req[s].shown \subseteq Entitled(req[s]) \cup Excused(req[s]) \/ PermissionOf(req[s].op) = None

\* The quota of runs is checked before the run and counted after it, so messages under way
\* together may pass it together; the excess is less than their number.  A quota of 0 lets none
\* through, but those under way when the day of an earlier quota ends are counted on the new day.
QuotaOvershoot ==
    \A w \in Workspaces :
        (usage[w] # None /\ ceiling[w] # None /\ usage[w].runsToday > ceiling[w]) =>
            usage[w].runsToday - ceiling[w] <= (IF ceiling[w] = 0 THEN width[w] ELSE width[w] - 1)

\* Admission as a whole: neither the limiter of requests nor the quota of runs is passed by more than its
\* window, or the messages under way together, explain (rateLimiter.ts, quotas.ts).
LimitsHold == AdmittedWithinLimit /\ QuotaOvershoot

\* "Only a genuine, non-stale approve produces an executing transition" (Requirement 9.4, 9.8):
\* an operation that is resumed was approved itself, within the time allowed, unless two
\* decisions on its run were under way at once.
RunsOnlyApproved ==
    \A x \in ran : ~x.rival => x.op = x.said /\ x.age < ApprovalTimeout

\* An orchestration that was told a decision, or gave up waiting, agrees with what the
\* registry and the next request see.
BudgetWaitersAgree ==
    \A r \in Runs :
        /\ waits[r] \in {"approved", "denied"} => approvals[r] = waits[r]
        /\ waits[r] = "timeout" => approvals[r] = "denied"
=============================================================================
