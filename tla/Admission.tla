------------------------------ MODULE Admission ------------------------------
(***************************************************************************)
(* What the server decides about a request before its handler runs, as     *)
(* functions of what it knows: the rate-limit buckets, the login attempts, *)
(* the session, the origin, the role in the workspace and the quota.       *)
(* Module Gateway applies them to requests in flight.                      *)
(***************************************************************************)
EXTENDS Integers, FiniteSets

CONSTANT None

(***************************************************************************)
(* Roles and permissions (security/rbac.ts).                               *)
(***************************************************************************)
Permissions ==
    {"workspace.read", "workspace.update", "members.manage", "providers.read", "providers.configure",
     "providers.secrets.write", "models.assign", "memory.configure", "templates.apply", "modules.configure", "runs.create",
     "runs.read", "runs.approve", "runs.abort", "operator.read", "operator.manage", "audit.read",
     "billing.manage", "secrets.rotate", "truth.mutate"}

ROLE_PERMISSIONS ==
    [owner |-> Permissions,
     admin |-> Permissions \ {"billing.manage", "secrets.rotate", "providers.secrets.write"},
     operator |-> {"workspace.read", "providers.read", "runs.read", "runs.approve", "runs.abort",
                   "operator.read", "operator.manage"},
     developer |-> {"workspace.read", "providers.read", "templates.apply", "runs.create", "runs.read"},
     viewer |-> {"workspace.read", "providers.read", "runs.read"}]

Roles == DOMAIN ROLE_PERMISSIONS
canRole(role, permission) == permission \in ROLE_PERMISSIONS[role]

\* Without authentication everyone is the owner of the workspace they name.
requirePermission(authEnabled, role, permission) ==
    IF authEnabled THEN role # None /\ canRole(role, permission) ELSE canRole("owner", permission)

(***************************************************************************)
(* Sessions and origins (security/auth.ts, authMiddleware.ts, server.ts).  *)
(***************************************************************************)
isPublicAuthRoute(method, path) ==
    \/ method = "GET" /\ path \in {"page", "setup-status"}
    \/ method = "POST" /\ path = "login"

\* A session is the time its token expires; 0 stands for no cookie.
createSessionToken(now, maxAge) == now + maxAge
verifySessionToken(session, now) == session > 0 /\ session >= now

csrfAllows(authEnabled, method, origin) ==
    ~authEnabled \/ method \in {"GET", "HEAD", "OPTIONS"} \/ origin \in {None, "same-host", "configured"}

(***************************************************************************)
(* Rate limits (security/rateLimiter.ts).                                  *)
(***************************************************************************)
classifyRateLimitRoute(method, path) ==
    CASE path = "page" -> None
      [] method = "POST" /\ path = "chat" -> "chat"
      [] path \in {"login", "logout", "session"} -> "auth-login"
      [] method = "POST" /\ path = "provider-test" -> "provider-test-connection"
      [] method = "POST" /\ path = "memory-test" -> "memory-provider-test"
      [] OTHER -> "general"

LargerOf(a, b) == IF a >= b THEN a ELSE b

\* buildRouteRule, mergeRule: an explicit limit wins over the derived one.
buildRouteRule(derived, override, failClosed) ==
    [maxRequests |-> IF override = None THEN derived ELSE override, failClosed |-> failClosed]

createRateLimitPolicy(base, override, failClosed) ==
    LET general == LargerOf(10, 5 * LargerOf(0, base))
        test == LargerOf(5, LargerOf(0, base))
        rule(derived, route) ==
            buildRouteRule(derived, IF route \in DOMAIN override THEN override[route] ELSE None, failClosed)
    IN  [routes |-> [r \in {"chat", "auth-login", "provider-test-connection", "memory-provider-test", "general"} |->
                        rule(CASE r = "chat" -> base
                               [] r \in {"auth-login", "general"} -> general
                               [] OTHER -> test, r)],
         failClosed |-> failClosed]

rateLimitRuleFor(policy, route) ==
    IF route \in DOMAIN policy.routes THEN policy.routes[route] ELSE policy.routes["general"]

activeBucket(bucket, now) == IF bucket # None /\ bucket.resetAt > now THEN bucket ELSE None

\* InMemoryRateLimiter.commit: the first request opens a window, a full window refuses.
commitInMemory(bucket, rule, now, windowMs) ==
    LET active == activeBucket(bucket, now)
    IN  CASE rule.maxRequests <= 0 -> [allowed |-> TRUE, bucket |-> bucket]
          [] rule.maxRequests > 0 /\ active = None ->
                [allowed |-> TRUE, bucket |-> [resetAt |-> now + windowMs, count |-> 1]]
          [] rule.maxRequests > 0 /\ active # None ->
                IF active.count >= rule.maxRequests THEN [allowed |-> FALSE, bucket |-> active]
                ELSE [allowed |-> TRUE, bucket |-> [active EXCEPT !.count = @ + 1]]

\* RedisRateLimiter._performOperation: consume adds a point first, and an answer that
\* leaves no point is refused, the one that took the last point included.
commitRedis(bucket, rule, now, windowMs) ==
    LET active == activeBucket(bucket, now)
        used == IF active = None THEN 1 ELSE active.count + 1
    IN  IF rule.maxRequests <= 0 THEN [allowed |-> TRUE, bucket |-> bucket]
        ELSE [allowed |-> rule.maxRequests - used > 0,
              bucket |-> [resetAt |-> IF active = None THEN now + windowMs ELSE active.resetAt, count |-> used]]

commit(limiter, bucket, rule, now, windowMs) ==
    IF limiter = "redis" THEN commitRedis(bucket, rule, now, windowMs)
    ELSE commitInMemory(bucket, rule, now, windowMs)

(***************************************************************************)
(* Login attempts (api/routes/auth.ts).                                    *)
(***************************************************************************)
activeLoginAttempt(attempt, now) == IF attempt # None /\ attempt.resetAt > now THEN attempt ELSE None
isLoginAttemptLimited(attempt, limit) == attempt # None /\ attempt.count >= limit
nextLoginAttempt(attempt, now, windowMs) ==
    IF attempt # None THEN [attempt EXCEPT !.count = @ + 1] ELSE [count |-> 1, resetAt |-> now + windowMs]

(***************************************************************************)
(* Quotas (security/quotas.ts): the counters of a workspace for one day.   *)
(***************************************************************************)
emptyUsage(day) == [day |-> day, runsToday |-> 0]
getCurrentUsage(usage, day) == IF usage = None \/ usage.day # day THEN emptyUsage(day) ELSE usage
\* A way to get this wrong: the run that is about to start is not counted.
checkRunCreationLate(policy, usage) == policy = None \/ usage.runsToday <= policy
checkRunCreation(policy, usage) == policy = None \/ usage.runsToday + 1 <= policy
recordRunCreated(usage) == [usage EXCEPT !.runsToday = @ + 1]

(***************************************************************************)
(* Approvals of a pending operation (api/approvalFlow.ts).                 *)
(***************************************************************************)
\* A way to get this wrong: a late decision counts as given.
decisionAsSubmitted(decision, presentedAt, decidedAt, timeout) == decision

\* A late decision is a denial, whatever it says.
resolveEffectiveDecision(decision, presentedAt, decidedAt, timeout) ==
    IF decidedAt - presentedAt >= timeout THEN "timeout-denied" ELSE decision
=============================================================================
