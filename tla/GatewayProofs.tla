---------------------------- MODULE GatewayProofs ----------------------------
(***************************************************************************)
(* Proofs about Gateway, for every set of users, requests, workspaces,     *)
(* conversations and runs, and every number of requests in flight.         *)
(***************************************************************************)
EXTENDS Gateway, FiniteSetTheorems, WellFoundedInduction, TLAPS

(***************************************************************************)
(* The steps of the handlers.                                              *)
(***************************************************************************)
Effects ==
  {"logout", "createWorkspace", "addMembership", "updateMembershipRole", "removeMembership", "setPolicy",
   "rotateSecret", "createConversation", "createMemoryEntry", "createMessage", "interruptRun", "steerRun"}
Plains ==
  {"limit", "enter", "login", "audit", "show", "quota", "createRun", "count", "finish", "prune",
   "readPending", "commitDecision", "decideBudget", "interruptAny"}
Instructions ==
  [do : {"need"}, test : {"body", "ready", "memberListed", "runKnown"}, code : Nat]
    \cup [do : {"find"}, what : {"conversation", "run"}, code : Nat]
    \cup [do : {"allow"}, permission : Permissions]
    \cup [do : {"effect"}, what : Effects]
    \cup [do : {"audit"}, code : Nat]
    \cup [do : Plains]

IsAllow(i) == i.do = "allow"
IsFind(i) == i.do = "find"
IsShow(i) == i.do = "show"
\* A lookup that goes on without the conversation.
IsLenient(i) == i.do = "find" /\ i.code = 0
IsEffect(i, w) == i.do = "effect" /\ i.what = w
\* The steps that change what belongs to a workspace.
IsGated(i) ==
  i.do \in {"commitDecision", "decideBudget", "interruptAny"} \/ (i.do = "effect" /\ i.what \notin {"logout", "createWorkspace"})

\* What the handlers have in common: the workspace is found first, then the permission is
\* asked for, once, and only then something is changed or shown.
Orderly(p) ==
  /\ \A i, j \in 1 .. Len(p) : i < j /\ IsAllow(p[j]) => ~(IsAllow(p[i]) \/ IsGated(p[i]) \/ IsShow(p[i]))
  /\ \A i, j \in 1 .. Len(p) : i < j /\ IsFind(p[j]) => ~(IsAllow(p[i]) \/ IsGated(p[i]) \/ IsShow(p[i]))
  /\ \A i \in 1 .. Len(p) : IsFind(p[i]) => \E j \in i + 1 .. Len(p) : IsAllow(p[j])

\* Where the steps that matter to other requests occur.
Placed(p, do) ==
  /\ \A i \in 1 .. Len(p) :
       p[i].do = "commitDecision" => do = "postDecision" /\ i > 1 /\ p[i - 1].do = "readPending"
  /\ \A i \in 1 .. Len(p) : IsGated(p[i]) => \E j \in 1 .. Len(p) : IsAllow(p[j])
  /\ \A i \in 1 .. Len(p) : IsEffect(p[i], "createWorkspace") => do = "postWorkspaces"
  /\ \A i \in 1 .. Len(p) : IsAllow(p[i]) => do # "postWorkspaces"
  /\ \A i \in 1 .. Len(p) : IsShow(p[i]) =>
       /\ do # "postWorkspaces"
       /\ do \notin {"listConversations", "searchConversations"} \cup ServerWide => \E j \in 1 .. Len(p) : IsFind(p[j])
  /\ \A i \in 1 .. Len(p) : IsFind(p[i]) => do \notin ServerWide
  /\ \A i \in 1 .. Len(p) : p[i].do \in {"decideBudget", "interruptAny"} => do \in ServerWide
  /\ \A i, j \in 1 .. Len(p) : IsLenient(p[i]) /\ IsShow(p[j]) => do \in CostRoutes

Sound(p, do) == p \in Seq(Instructions) /\ p # << >> /\ Orderly(p) /\ Placed(p, do)

\* The constructors of GatewayRoutes make instructions.
LEMMA Constructors ==
  /\ \A t \in {"body", "ready", "memberListed", "runKnown"}, c \in Nat : Need(t, c) \in Instructions
     /\ Need(t, c).do = "need"
  /\ \A w \in {"conversation", "run"}, c \in Nat :
       Find(w, c) \in Instructions /\ Find(w, c).do = "find" /\ Find(w, c).code = c
  /\ \A p \in Permissions : Allow(p) \in Instructions /\ Allow(p).do = "allow"
  /\ \A w \in Effects : Effect(w) \in Instructions /\ Effect(w).do = "effect" /\ Effect(w).what = w
  /\ \A w \in Plains : Do(w) \in Instructions /\ Do(w).do = w
BY DEF Need, Find, Allow, Effect, Do, Instructions

\* Only a message is metered: the others neither ask for the quota nor count a run.
Unmetered(p) == \A i \in 1 .. Len(p) : p[i].do \notin {"quota", "count"}

\* Every handler without the middleware; the one of a message is dealt with apart.
LEMMA HandlersSound ==
  ASSUME NEW op, op.do \in Routes \ {"login", "logout", "session", "postMessages"}
  PROVE  Sound(Handler(op), op.do) /\ Unmetered(Handler(op))
<1> USE Constructors DEF Effects, Plains, Permissions, Unmetered, Sound, Orderly, Placed, IsAllow, IsFind, IsShow,
        IsLenient, IsEffect, IsGated, CostRoutes, ServerWide
<1>1. op.do = "postWorkspaces" => Handler(op) = postWorkspaces(op)
       /\ Sound(postWorkspaces(op), op.do) /\ Unmetered(postWorkspaces(op))
  BY SMTT(30) DEF Handler, postWorkspaces
<1>2. op.do = "getMembers" => Handler(op) = getMembers(op)
       /\ Sound(getMembers(op), op.do) /\ Unmetered(getMembers(op))
  BY DEF Handler, getMembers
<1>3. op.do = "postMembers" => Handler(op) = postMembers(op)
       /\ Sound(postMembers(op), op.do) /\ Unmetered(postMembers(op))
  BY SMTT(30) DEF Handler, postMembers
<1>4. op.do = "patchMember" => Handler(op) = patchMember(op)
       /\ Sound(patchMember(op), op.do) /\ Unmetered(patchMember(op))
  BY SMTT(30) DEF Handler, patchMember
<1>5. op.do = "deleteMember" => Handler(op) = deleteMember(op)
       /\ Sound(deleteMember(op), op.do) /\ Unmetered(deleteMember(op))
  BY SMTT(30) DEF Handler, deleteMember
<1>6. op.do = "getAuditEvents" => Handler(op) = getAuditEvents(op)
       /\ Sound(getAuditEvents(op), op.do) /\ Unmetered(getAuditEvents(op))
  BY DEF Handler, getAuditEvents
<1>7. op.do = "getQuotas" => Handler(op) = getQuotas(op)
       /\ Sound(getQuotas(op), op.do) /\ Unmetered(getQuotas(op))
  BY DEF Handler, getQuotas
<1>8. op.do = "putQuotas" => Handler(op) = putQuotas(op)
       /\ Sound(putQuotas(op), op.do) /\ Unmetered(putQuotas(op))
  BY DEF Handler, putQuotas
<1>9. op.do = "rotateSecret" => Handler(op) = rotateSecret(op)
       /\ Sound(rotateSecret(op), op.do) /\ Unmetered(rotateSecret(op))
  BY SMTT(30) DEF Handler, rotateSecret
<1>10. op.do = "postConversations" => Handler(op) = postConversations(op)
       /\ Sound(postConversations(op), op.do) /\ Unmetered(postConversations(op))
  BY DEF Handler, postConversations
<1>11. op.do = "listConversations" => Handler(op) = listConversations(op)
       /\ Sound(listConversations(op), op.do) /\ Unmetered(listConversations(op))
  BY SMTT(30) DEF Handler, listConversations
<1>12. op.do = "searchConversations" => Handler(op) = searchConversations(op)
       /\ Sound(searchConversations(op), op.do) /\ Unmetered(searchConversations(op))
  BY SMTT(30) DEF Handler, searchConversations
<1>13. op.do = "getConversation" => Handler(op) = getConversation(op)
       /\ Sound(getConversation(op), op.do) /\ Unmetered(getConversation(op))
  BY DEF Handler, getConversation
<1>14. op.do = "getLineage" => Handler(op) = getLineage(op)
       /\ Sound(getLineage(op), op.do) /\ Unmetered(getLineage(op))
  BY SMTT(30) DEF Handler, getLineage
<1>15. op.do = "getConversationCost" => Handler(op) = getConversationCost(op)
       /\ Sound(getConversationCost(op), op.do) /\ Unmetered(getConversationCost(op))
  BY DEF Handler, getConversationCost
<1>16. op.do = "getRunEvents" => Handler(op) = getRunEvents(op)
       /\ Sound(getRunEvents(op), op.do) /\ Unmetered(getRunEvents(op))
  BY SMTT(30) DEF Handler, getRunEvents
<1>17. op.do = "getRunCost" => Handler(op) = getRunCost(op)
       /\ Sound(getRunCost(op), op.do) /\ Unmetered(getRunCost(op))
  BY SMTT(30) DEF Handler, getRunCost
<1>18. op.do = "postNotes" => Handler(op) = postNotes(op)
       /\ Sound(postNotes(op), op.do) /\ Unmetered(postNotes(op))
  BY SMTT(30) DEF Handler, postNotes
<1>19. op.do = "postDecision" => Handler(op) = postDecision(op)
       /\ Sound(postDecision(op), op.do) /\ Unmetered(postDecision(op))
  BY SMTT(30) DEF Handler, postDecision
<1>20. op.do = "postInterrupt" => Handler(op) = postInterrupt(op)
       /\ Sound(postInterrupt(op), op.do) /\ Unmetered(postInterrupt(op))
  BY SMTT(30) DEF Handler, postInterrupt
<1>21. op.do = "postSteer" => Handler(op) = postSteer(op)
       /\ Sound(postSteer(op), op.do) /\ Unmetered(postSteer(op))
  BY SMTT(30) DEF Handler, postSteer
<1>22. op.do = "postBudgetDecision" => Handler(op) = postBudgetDecision(op)
       /\ Sound(postBudgetDecision(op), op.do) /\ Unmetered(postBudgetDecision(op))
  BY DEF Handler, postBudgetDecision
<1>23. op.do = "operatorAbort" => Handler(op) = operatorAbort(op)
       /\ Sound(operatorAbort(op), op.do) /\ Unmetered(operatorAbort(op))
  BY DEF Handler, operatorAbort
<1>24. op.do = "operatorRead" => Handler(op) = operatorRead(op)
       /\ Sound(operatorRead(op), op.do) /\ Unmetered(operatorRead(op))
  BY DEF Handler, operatorRead
<1>25. op.do = "operatorPlaceholder" => Handler(op) = operatorPlaceholder(op)
       /\ Sound(operatorPlaceholder(op), op.do) /\ Unmetered(operatorPlaceholder(op))
  BY DEF Handler, operatorPlaceholder
<1>27. op.do = "operatorReadRun" => Handler(op) = operatorReadRun(op)
       /\ Sound(operatorReadRun(op), op.do) /\ Unmetered(operatorReadRun(op))
  BY DEF Handler, operatorReadRun
<1>28. op.do = "getBudgetApprovals" => Handler(op) = getBudgetApprovals(op)
       /\ Sound(getBudgetApprovals(op), op.do) /\ Unmetered(getBudgetApprovals(op))
  BY DEF Handler, getBudgetApprovals
<1> HIDE DEF Sound, Unmetered
<1>26. QED
  BY <1>1, <1>2, <1>3, <1>4, <1>5, <1>6, <1>7, <1>8, <1>9, <1>10, <1>11, <1>12, <1>13,
     <1>14, <1>15, <1>16, <1>17, <1>18, <1>19, <1>20, <1>21, <1>22, <1>23, <1>24, <1>25, <1>27, <1>28
  DEF Routes, ServerWide

\* A step that neither names, permits, changes nor shows anything.
IsPlain(i) == i.do \in {"limit", "enter", "count", "finish"}

\* Plain steps before a handler, or behind it, change nothing of the above.
LEMMA PlainBefore ==
  ASSUME NEW do, NEW h, Sound(h, do), NEW e \in Seq(Instructions), \A k \in 1 .. Len(e) : IsPlain(e[k])
  PROVE  Sound(e \o h, do)
<1> USE DEF Sound
<1>1. h \in Seq(Instructions) /\ Len(e) \in Nat /\ Len(h) \in Nat /\ e \o h \in Seq(Instructions)
      /\ Len(e \o h) = Len(e) + Len(h) /\ e \o h # << >>
  OBVIOUS
<1>2. \A k \in 1 .. Len(e) + Len(h) : IF k <= Len(e) THEN (e \o h)[k] = e[k] ELSE (e \o h)[k] = h[k - Len(e)]
  BY <1>1
<1> DEFINE p == e \o h
<1>3. \A k \in 1 .. Len(p) : IsAllow(p[k]) \/ IsFind(p[k]) \/ IsShow(p[k]) \/ IsGated(p[k])
                             \/ p[k].do = "commitDecision" \/ IsEffect(p[k], "createWorkspace") \/ IsLenient(p[k])
        => k > Len(e) /\ k - Len(e) \in 1 .. Len(h) /\ p[k] = h[k - Len(e)]
  BY <1>1, <1>2 DEF IsPlain, IsAllow, IsFind, IsShow, IsLenient, IsGated, IsEffect
<1>4. \A k \in 1 .. Len(h) : k + Len(e) \in 1 .. Len(p) /\ p[k + Len(e)] = h[k]
  BY <1>1, <1>2
<1> HIDE DEF p
<1>5. Len(p) = Len(e) + Len(h)
  BY <1>1 DEF p
<1>6. Orderly(p)
  <2>1. ASSUME NEW i \in 1 .. Len(p), NEW j \in 1 .. Len(p), i < j, IsAllow(p[j]) \/ IsFind(p[j])
        PROVE  ~(IsAllow(p[i]) \/ IsGated(p[i]) \/ IsShow(p[i]))
    <3> SUFFICES ASSUME IsAllow(p[i]) \/ IsGated(p[i]) \/ IsShow(p[i]) PROVE FALSE
      OBVIOUS
    <3>1. PICK m \in 1 .. Len(h) : m = i - Len(e) /\ p[i] = h[m]
      BY <1>3
    <3>2. PICK n \in 1 .. Len(h) : n = j - Len(e) /\ p[j] = h[n]
      BY <1>3, <2>1
    <3>3. m < n
      BY <1>1, <2>1, <3>1, <3>2
    <3>4. (IsAllow(h[n]) \/ IsFind(h[n])) /\ (IsAllow(h[m]) \/ IsGated(h[m]) \/ IsShow(h[m]))
      BY <2>1, <3>1, <3>2
    <3>5. QED
      BY <3>3, <3>4 DEF Orderly
  <2>2. ASSUME NEW i \in 1 .. Len(p), IsFind(p[i]) PROVE \E j \in i + 1 .. Len(p) : IsAllow(p[j])
    <3>1. i - Len(e) \in 1 .. Len(h) /\ IsFind(h[i - Len(e)])
      BY <2>2, <1>3
    <3>2. PICK j \in (i - Len(e)) + 1 .. Len(h) : IsAllow(h[j])
      BY <3>1 DEF Orderly
    <3>3. j \in 1 .. Len(h) /\ j + Len(e) \in i + 1 .. Len(p)
      BY <3>1, <3>2, <1>1, <1>5
    <3>4. IsAllow(p[j + Len(e)])
      BY <3>2, <3>3, <1>4
    <3>5. QED
      BY <3>3, <3>4
  <2>3. QED
    BY <2>1, <2>2 DEF Orderly
<1>7. Placed(p, do)
  <2>1. ASSUME NEW i \in 1 .. Len(p), p[i].do = "commitDecision"
        PROVE  do = "postDecision" /\ i > 1 /\ p[i - 1].do = "readPending"
    <3> DEFINE m == i - Len(e)
    <3>1. m \in 1 .. Len(h) /\ h[m].do = "commitDecision"
      BY <2>1, <1>3
    <3>2. i = m + Len(e)
      BY <1>1
    <3> HIDE DEF m
    <3>3. do = "postDecision" /\ m > 1 /\ h[m - 1].do = "readPending"
      BY <3>1 DEF Placed
    <3>4. m - 1 \in 1 .. Len(h) /\ (m - 1) + Len(e) = i - 1 /\ i > 1
      BY <3>1, <3>2, <3>3, <1>1, SMTT(30)
    <3>5. p[(m - 1) + Len(e)] = h[m - 1]
      BY <3>4, <1>4
    <3>6. QED
      BY <3>3, <3>4, <3>5
  <2>2. \A i \in 1 .. Len(p) : IsGated(p[i]) => \E j \in 1 .. Len(p) : IsAllow(p[j])
    BY <1>1, <1>3, <1>4, <1>5 DEF Placed
  <2>3. \A i \in 1 .. Len(p) : IsEffect(p[i], "createWorkspace") => do = "postWorkspaces"
    BY <1>1, <1>3, <1>5 DEF Placed
  <2>6. \A i \in 1 .. Len(p) : IsAllow(p[i]) => do # "postWorkspaces"
    BY <1>1, <1>3, <1>5 DEF Placed
  <2>4. \A i, j \in 1 .. Len(p) : IsLenient(p[i]) /\ IsShow(p[j]) => do \in CostRoutes
    BY <1>1, <1>3, <1>5 DEF Placed
  <2>5. \A i \in 1 .. Len(p) : IsShow(p[i]) =>
          /\ do # "postWorkspaces"
          /\ do \notin {"listConversations", "searchConversations"} \cup ServerWide =>
               \E j \in 1 .. Len(p) : IsFind(p[j])
    BY <1>1, <1>3, <1>4, <1>5 DEF Placed
  <2>8. \A i \in 1 .. Len(p) :
          /\ IsFind(p[i]) => do \notin ServerWide
          /\ p[i].do \in {"decideBudget", "interruptAny"} => do \in ServerWide
    BY <1>1, <1>3, <1>5 DEF Placed, IsGated
  <2>7. QED
    BY <2>1, <2>2, <2>3, <2>4, <2>5, <2>6, <2>8 DEF Placed
<1>8. QED
  BY <1>1, <1>6, <1>7 DEF p

\* The same behind a handler.
LEMMA PlainBehind ==
  ASSUME NEW do, NEW h, Sound(h, do), NEW e \in Seq(Instructions), \A k \in 1 .. Len(e) : IsPlain(e[k])
  PROVE  Sound(h \o e, do)
<1> USE DEF Sound
<1>1. h \in Seq(Instructions) /\ Len(e) \in Nat /\ Len(h) \in Nat /\ h \o e \in Seq(Instructions)
      /\ Len(h \o e) = Len(h) + Len(e) /\ h \o e # << >>
  OBVIOUS
<1>2. \A k \in 1 .. Len(h) + Len(e) : IF k <= Len(h) THEN (h \o e)[k] = h[k] ELSE (h \o e)[k] = e[k - Len(h)]
  BY <1>1
<1> DEFINE p == h \o e
<1>3. \A k \in 1 .. Len(p) : IsAllow(p[k]) \/ IsFind(p[k]) \/ IsShow(p[k]) \/ IsGated(p[k])
                             \/ p[k].do = "commitDecision" \/ IsEffect(p[k], "createWorkspace") \/ IsLenient(p[k])
        => k \in 1 .. Len(h) /\ p[k] = h[k]
  BY <1>1, <1>2 DEF IsPlain, IsAllow, IsFind, IsShow, IsLenient, IsGated, IsEffect
<1>4. \A k \in 1 .. Len(h) : k \in 1 .. Len(p) /\ p[k] = h[k]
  BY <1>1, <1>2
<1> HIDE DEF p
<1>5. Len(p) = Len(h) + Len(e)
  BY <1>1 DEF p
<1>6. Orderly(p)
  BY <1>1, <1>3, <1>4, <1>5 DEF Orderly
<1>7. Placed(p, do)
  <2>1. ASSUME NEW i \in 1 .. Len(p), p[i].do = "commitDecision"
        PROVE  do = "postDecision" /\ i > 1 /\ p[i - 1].do = "readPending"
    <3>1. do = "postDecision" /\ i \in 1 .. Len(h) /\ i > 1 /\ h[i - 1].do = "readPending"
      BY <2>1, <1>3 DEF Placed
    <3>2. i - 1 \in 1 .. Len(h)
      BY <3>1, <1>1
    <3>3. QED
      BY <3>1, <3>2, <1>4
  <2>2. \A i \in 1 .. Len(p) : IsGated(p[i]) => \E j \in 1 .. Len(p) : IsAllow(p[j])
    BY <1>1, <1>3, <1>4, <1>5 DEF Placed
  <2>3. \A i \in 1 .. Len(p) : IsEffect(p[i], "createWorkspace") => do = "postWorkspaces"
    BY <1>1, <1>3, <1>5 DEF Placed
  <2>6. \A i \in 1 .. Len(p) : IsAllow(p[i]) => do # "postWorkspaces"
    BY <1>1, <1>3, <1>5 DEF Placed
  <2>4. \A i, j \in 1 .. Len(p) : IsLenient(p[i]) /\ IsShow(p[j]) => do \in CostRoutes
    BY <1>1, <1>3, <1>5 DEF Placed
  <2>5. \A i \in 1 .. Len(p) : IsShow(p[i]) =>
          /\ do # "postWorkspaces"
          /\ do \notin {"listConversations", "searchConversations"} \cup ServerWide =>
               \E j \in 1 .. Len(p) : IsFind(p[j])
    BY <1>1, <1>3, <1>4, <1>5 DEF Placed
  <2>8. \A i \in 1 .. Len(p) :
          /\ IsFind(p[i]) => do \notin ServerWide
          /\ p[i].do \in {"decideBudget", "interruptAny"} => do \in ServerWide
    BY <1>1, <1>3, <1>5 DEF Placed, IsGated
  <2>7. QED
    BY <2>1, <2>2, <2>3, <2>4, <2>5, <2>6, <2>8 DEF Placed
<1>8. QED
  BY <1>1, <1>6, <1>7 DEF p

\* Every route is sound.
LEMMA ProgramsSound == ASSUME NEW op \in Ops PROVE Sound(Program(op), op.do)
<1>1. op.do \in Routes
  BY GatewayAssumption
<1>2. CASE op.do \in {"login", "logout", "session"}
  <2> USE Constructors DEF Effects, Plains, Sound, Orderly, Placed, IsAllow, IsFind, IsShow, IsLenient, IsEffect,
          IsGated
  <2>1. op.do = "login" => Program(op) = login(op) /\ Sound(login(op), op.do)
    BY DEF Program, login
  <2>2. op.do = "logout" => Program(op) = logout(op) /\ Sound(logout(op), op.do)
    BY DEF Program, logout
  <2>3. op.do = "session" => Program(op) = session(op) /\ Sound(session(op), op.do)
    BY DEF Program, session
  <2> HIDE DEF Sound
  <2>4. QED
    BY <1>2, <2>1, <2>2, <2>3
<1>3. Entry \in Seq(Instructions) /\ \A k \in 1 .. Len(Entry) : IsPlain(Entry[k])
  BY Constructors DEF Entry, Plains, IsPlain
<1>4. op.do \notin {"login", "logout", "session"} => Program(op) = Entry \o Handler(op)
  BY DEF Program
<1>5. CASE op.do = "postMessages"
  <2> DEFINE h == <<Find("conversation", 404), Allow("runs.create"), Do("quota"), Need("ready", 409),
                    Need("body", 400),
                    Effect("createMessage"), Do("createRun")>>
             t == IF op.stream THEN <<Do("count"), Do("finish")>> ELSE <<Do("finish"), Do("count")>>
  <2>1. Sound(h, op.do)
    <3>1. h \in Seq(Instructions) /\ Len(h) = 7 /\ h[1].do = "find" /\ h[2].do = "allow" /\ h[3].do = "quota"
          /\ h[4].do = "need" /\ h[5].do = "need" /\ h[6] = Effect("createMessage") /\ h[7].do = "createRun"
      BY Constructors DEF Permissions, Plains, Effects
    <3>2. h[6].do = "effect" /\ h[6].what = "createMessage"
      BY <3>1, Constructors DEF Effects
    <3> HIDE DEF h
    <3> USE DEF IsAllow, IsFind, IsShow, IsEffect, IsGated
    <3>3. \A k \in 1 .. 7 : (IsAllow(h[k]) <=> k = 2) /\ (IsFind(h[k]) <=> k = 1) /\ (IsGated(h[k]) <=> k = 6)
                          /\ ~IsShow(h[k]) /\ h[k].do \notin {"commitDecision", "decideBudget", "interruptAny"}
                          /\ ~IsEffect(h[k], "createWorkspace")
      BY <3>1, <3>2
    <3> HIDE DEF IsAllow, IsFind, IsShow, IsEffect, IsGated
    <3>4. Orderly(h) /\ h # << >>
      <4>1. \A i, j \in 1 .. Len(h) : i < j /\ (IsAllow(h[j]) \/ IsFind(h[j])) =>
              ~(IsAllow(h[i]) \/ IsGated(h[i]) \/ IsShow(h[i]))
        BY <3>1, <3>3
      <4>2. \A i \in 1 .. Len(h) : IsFind(h[i]) => i = 1
        BY <3>1, <3>3
      <4>3. IsAllow(h[2]) /\ 2 \in 1 + 1 .. Len(h)
        BY <3>1, <3>3
      <4>4. h # << >>
        <5>1. Len(h) = 7
          BY <3>1
        <5>2. Len(<< >>) = 0
          OBVIOUS
        <5>3. QED
          BY <5>1, <5>2
      <4>5. QED
        BY <4>1, <4>2, <4>3, <4>4 DEF Orderly
    <3>5. Placed(h, op.do)
      BY <1>5, <3>1, <3>3 DEF Placed, ServerWide
    <3>6. QED
      BY <3>1, <3>4, <3>5 DEF Sound
  <2>2. t \in Seq(Instructions) /\ \A k \in 1 .. Len(t) : IsPlain(t[k])
    BY Constructors DEF Plains, IsPlain
  <2>3. Handler(op) = h \o t
    BY <1>5 DEF Handler, postMessages
  <2> HIDE DEF h, t
  <2>4. Sound(Handler(op), op.do)
    BY <2>1, <2>2, <2>3, PlainBehind
  <2>5. QED
    BY <2>4, <1>3, <1>4, <1>5, PlainBefore
<1>6. CASE op.do \notin {"login", "logout", "session", "postMessages"}
  <2>1. Sound(Handler(op), op.do)
    BY <1>1, <1>6, HandlersSound
  <2>2. QED
    BY <2>1, <1>3, <1>4, <1>6, PlainBefore
<1>7. QED
  BY <1>2, <1>5, <1>6

\* The permission of a route is the one its handler asks for, if it asks for one.
LEMMA PermissionIs ==
  ASSUME NEW op \in Ops
  PROVE  /\ \A i \in 1 .. Len(Program(op)) : IsAllow(Program(op)[i]) =>
              Program(op)[i].permission = PermissionOf(op) /\ PermissionOf(op) # None
         /\ (\A i \in 1 .. Len(Program(op)) : ~IsAllow(Program(op)[i])) => PermissionOf(op) = None
<1> DEFINE p == Program(op)
           asks == {i \in 1 .. Len(p) : p[i].do = "allow"}
<1>1. p \in Seq(Instructions) /\ Len(p) \in Nat
      /\ \A i, j \in 1 .. Len(p) : i < j /\ IsAllow(p[j]) => ~IsAllow(p[i])
  BY ProgramsSound DEF Sound, Orderly
<1>2. PermissionOf(op) = IF asks = {} THEN None ELSE p[CHOOSE i \in asks : TRUE].permission
  BY DEF PermissionOf
<1> HIDE DEF p
<1>3. ASSUME NEW i \in 1 .. Len(p), IsAllow(p[i])
      PROVE  p[i].permission = PermissionOf(op) /\ PermissionOf(op) # None
  <2>1. i \in asks
    BY <1>3 DEF IsAllow
  <2>2. (CHOOSE k \in asks : TRUE) \in asks
    BY <2>1
  <2>3. \A k \in asks : k = i
    BY <1>1, <1>3 DEF IsAllow
  <2>4. (CHOOSE k \in asks : TRUE) = i
    BY <2>2, <2>3
  <2>5. PermissionOf(op) = p[i].permission
    BY <2>1, <2>4, <1>2
  <2>6. p[i] \in Instructions /\ p[i].do = "allow"
    BY <1>1, <1>3 DEF IsAllow
  <2>7. p[i].permission \in Permissions
    BY <2>6 DEF Instructions, Plains
  <2>8. QED
    BY <2>5, <2>7, GatewayAssumption
<1>4. (\A i \in 1 .. Len(p) : ~IsAllow(p[i])) => PermissionOf(op) = None
  BY <1>2 DEF IsAllow
<1>5. QED
  BY <1>3, <1>4 DEF p

\* What is left of a handler while its request is under way.
Under(p, op) ==
  /\ p \in Seq(Instructions)
  /\ Orderly(p)
  /\ \A i \in 1 .. Len(p) : IsAllow(p[i]) => p[i].permission = PermissionOf(op)
  /\ \A i \in 1 .. Len(p) : IsGated(p[i]) => PermissionOf(op) # None
  /\ \A i \in 1 .. Len(p) : IsEffect(p[i], "createWorkspace") => op.do = "postWorkspaces" /\ PermissionOf(op) = None
  /\ \A i \in 1 .. Len(p) : p[i].do = "commitDecision" =>
       op.do = "postDecision" /\ (i = 1 \/ p[i - 1].do = "readPending")
  /\ \A i \in 1 .. Len(p) : IsShow(p[i]) => op.do # "postWorkspaces"
  /\ \A i, j \in 1 .. Len(p) : IsLenient(p[i]) /\ IsShow(p[j]) => op.do \in CostRoutes
  /\ \A i \in 1 .. Len(p) : IsFind(p[i]) => op.do \notin ServerWide
  /\ \A i \in 1 .. Len(p) : p[i].do \in {"decideBudget", "interruptAny"} => op.do \in ServerWide

\* A handler that has not begun.
LEMMA ProgramUnder == ASSUME NEW op \in Ops PROVE Under(Program(op), op)
<1> DEFINE p == Program(op)
<1>1. Sound(p, op.do)
  BY ProgramsSound
<1>2. /\ \A i \in 1 .. Len(p) : IsAllow(p[i]) => p[i].permission = PermissionOf(op) /\ PermissionOf(op) # None
      /\ (\A i \in 1 .. Len(p) : ~IsAllow(p[i])) => PermissionOf(op) = None
  BY PermissionIs
<1> HIDE DEF p
<1>3. \A i \in 1 .. Len(p) : IsGated(p[i]) => PermissionOf(op) # None
  BY <1>1, <1>2 DEF Sound, Placed
<1>4. \A i \in 1 .. Len(p) : IsEffect(p[i], "createWorkspace") => op.do = "postWorkspaces" /\ PermissionOf(op) = None
  BY <1>1, <1>2 DEF Sound, Placed
<1>5. QED
  BY <1>1, <1>2, <1>3, <1>4 DEF Under, Sound, Placed, p

\* A step done leaves the rest as orderly as it was.
LEMMA UnderTail ==
  ASSUME NEW op, NEW p, Under(p, op), p # << >>
  PROVE  /\ Under(Tail(p), op)
         /\ Len(p) \in Nat \ {0} /\ Len(Tail(p)) = Len(p) - 1 /\ Head(p) = p[1] /\ p[1] \in Instructions
         /\ \A i \in 1 .. Len(Tail(p)) : i + 1 \in 1 .. Len(p) /\ Tail(p)[i] = p[i + 1]
<1> DEFINE t == Tail(p)
<1>1. p \in Seq(Instructions)
  BY DEF Under
<1>2. Len(p) \in Nat \ {0} /\ t \in Seq(Instructions) /\ Len(t) = Len(p) - 1 /\ Head(p) = p[1]
      /\ p[1] \in Instructions
  BY <1>1
<1>3. \A i \in 1 .. Len(t) : i + 1 \in 1 .. Len(p) /\ t[i] = p[i + 1]
  BY <1>1, <1>2
<1> HIDE DEF t
<1>4. Orderly(t)
  <2>1. Orderly(p)
    BY DEF Under
  <2>2. \A i, j \in 1 .. Len(t) : i < j
        /\ (IsAllow(t[j]) \/ IsFind(t[j])) => ~(IsAllow(t[i]) \/ IsGated(t[i]) \/ IsShow(t[i]))
    BY <2>1, <1>2, <1>3 DEF Orderly
  <2>3. ASSUME NEW i \in 1 .. Len(t), IsFind(t[i]) PROVE \E j \in i + 1 .. Len(t) : IsAllow(t[j])
    <3>1. PICK j \in (i + 1) + 1 .. Len(p) : IsAllow(p[j])
      BY <2>1, <2>3, <1>2, <1>3 DEF Orderly
    <3>2. j - 1 \in i + 1 .. Len(t) /\ j - 1 \in 1 .. Len(t) /\ (j - 1) + 1 = j
      BY <1>2
    <3>3. IsAllow(t[j - 1])
      BY <3>1, <3>2, <1>3
    <3>4. QED
      BY <3>2, <3>3
  <2>4. QED
    BY <2>2, <2>3 DEF Orderly
<1>5. ASSUME NEW i \in 1 .. Len(t), t[i].do = "commitDecision"
      PROVE  op.do = "postDecision" /\ (i = 1 \/ t[i - 1].do = "readPending")
  <2>1. op.do = "postDecision" /\ (i + 1 = 1 \/ p[(i + 1) - 1].do = "readPending")
    BY <1>5, <1>3 DEF Under
  <2>2. p[i].do = "readPending"
    BY <2>1, <1>2
  <2>3. i # 1 => i - 1 \in 1 .. Len(t) /\ (i - 1) + 1 = i
    BY <1>2
  <2>4. i # 1 => t[i - 1] = p[i]
    BY <2>3, <1>3
  <2>5. QED
    BY <2>1, <2>2, <2>4
<1>6. Under(t, op)
  <2>1. /\ \A i \in 1 .. Len(t) : IsAllow(t[i]) => t[i].permission = PermissionOf(op)
        /\ \A i \in 1 .. Len(t) : IsGated(t[i]) => PermissionOf(op) # None
        /\ \A i \in 1 .. Len(t) : IsEffect(t[i], "createWorkspace") => op.do = "postWorkspaces"
           /\ PermissionOf(op) = None
        /\ \A i \in 1 .. Len(t) : IsShow(t[i]) => op.do # "postWorkspaces"
        /\ \A i, j \in 1 .. Len(t) : IsLenient(t[i]) /\ IsShow(t[j]) => op.do \in CostRoutes
        /\ \A i \in 1 .. Len(t) : IsFind(t[i]) => op.do \notin ServerWide
        /\ \A i \in 1 .. Len(t) : t[i].do \in {"decideBudget", "interruptAny"} => op.do \in ServerWide
    BY <1>3 DEF Under
  <2>2. QED
    BY <2>1, <1>2, <1>4, <1>5 DEF Under
<1>7. QED
  BY <1>2, <1>3, <1>6 DEF t

\* A refusal is only audited.
Stopped(p) == p = << >> \/ \E c \in Nat : p = <<[do |-> "audit", code |-> c]>>

\* Nothing is asked of such a request.
LEMMA UnderStopped ==
  ASSUME NEW op, NEW p, Stopped(p)
  PROVE  Under(p, op) /\ \A i \in 1 .. Len(p) : p[i].do = "audit"
<1>1. CASE p = << >>
  BY <1>1 DEF Under, Orderly
<1>2. CASE \E c \in Nat : p = <<[do |-> "audit", code |-> c]>>
  <2>1. PICK c \in Nat : p = <<[do |-> "audit", code |-> c]>>
    BY <1>2
  <2>2. [do |-> "audit", code |-> c] \in Instructions
    BY DEF Instructions
  <2>3. p \in Seq(Instructions) /\ Len(p) = 1 /\ p[1].do = "audit"
    BY <2>1, <2>2
  <2>4. QED
    BY <2>3 DEF Under, Orderly, IsAllow, IsFind, IsShow, IsGated, IsEffect
<1>3. QED
  BY <1>1, <1>2 DEF Stopped

(***************************************************************************)
(* The records of requests.                                                *)
(***************************************************************************)
Pendings == {None} \cup [decision : {"approve", "deny", None, "timeout-denied"}, at : Nat]
Requests ==
  [op : Ops, todo : Seq(Instructions), ws : Workspaces \cup {None}, role : Roles \cup {None}, pending : Pendings,
   wrote : Workspaces \cup {None}, shown : SUBSET Workspaces, counting : BOOLEAN, rival : BOOLEAN,
   reach : SUBSET Workspaces, born : SUBSET Workspaces, answer : Nat]

\* What no step of a request touches, and what most steps leave alone.
Same(q, p) == p \in Requests /\ p.op = q.op /\ p.rival = q.rival /\ p.reach = q.reach /\ p.born = q.born
Keeps(q, p) ==
  Same(q, p) /\ p.ws = q.ws /\ p.pending = q.pending /\ p.wrote = q.wrote /\ p.shown = q.shown

\* Only the workspace of a request changes.
LEMMA SetWs ==
  ASSUME NEW q \in Requests, NEW w \in Workspaces \cup {None}, NEW p, p = [q EXCEPT !.ws = w]
  PROVE  Same(q, p) /\ p.ws = w /\ p.pending = q.pending /\ p.wrote = q.wrote /\ p.shown = q.shown
         /\ p.todo = q.todo
BY DEF Requests, Same

\* Only the workspace it has written to changes.
LEMMA SetWrote ==
  ASSUME NEW q \in Requests, NEW w \in Workspaces \cup {None}, NEW p, p = [q EXCEPT !.wrote = w]
  PROVE  Same(q, p) /\ p.ws = q.ws /\ p.pending = q.pending /\ p.wrote = w /\ p.shown = q.shown
         /\ p.todo = q.todo
BY DEF Requests, Same

\* Only the decision it is about to record changes.
LEMMA SetPending ==
  ASSUME NEW q \in Requests, NEW x \in Pendings, NEW p, p = [q EXCEPT !.pending = x]
  PROVE  Same(q, p) /\ p.ws = q.ws /\ p.pending = x /\ p.wrote = q.wrote /\ p.shown = q.shown
         /\ p.todo = q.todo
BY DEF Requests, Same

\* Only what it has shown changes.
LEMMA SetShown ==
  ASSUME NEW q \in Requests, NEW x \in SUBSET Workspaces, NEW p, p = [q EXCEPT !.shown = x]
  PROVE  Same(q, p) /\ p.ws = q.ws /\ p.pending = q.pending /\ p.wrote = q.wrote /\ p.shown = x
         /\ p.todo = q.todo
BY DEF Requests, Same

\* Only whether it counts for the quota changes.
LEMMA SetCounting ==
  ASSUME NEW q \in Requests, NEW b \in BOOLEAN, NEW p, p = [q EXCEPT !.counting = b]
  PROVE  Same(q, p) /\ p.ws = q.ws /\ p.pending = q.pending /\ p.wrote = q.wrote /\ p.shown = q.shown
         /\ p.todo = q.todo
BY DEF Requests, Same

\* A request that passes a step keeps the rest of its record.
LEMMA AdvanceKeeps ==
  ASSUME NEW q \in Requests, q.todo # << >>, NEW p, p = Advance(q)
  PROVE  Keeps(q, p) /\ p.todo = Tail(q.todo)
<1>1. ASSUME NEW t \in Seq(Instructions), NEW a \in Nat, p = [q EXCEPT !.todo = t, !.answer = a]
      PROVE  Keeps(q, p) /\ p.todo = t
  BY <1>1 DEF Requests, Same, Keeps
<1>2. q.todo \in Seq(Instructions) /\ q.answer \in Nat
  BY DEF Requests
<1> DEFINE t == Tail(q.todo)
           a == IF q.answer = 0 /\ Len(q.todo) = 1 THEN 200 ELSE q.answer
<1>3. t \in Seq(Instructions) /\ a \in Nat
  BY <1>2
<1>4. p = [q EXCEPT !.todo = t, !.answer = a]
  BY DEF Advance
<1> HIDE DEF t, a
<1>5. Keeps(q, p) /\ p.todo = t
  BY <1>1, <1>3, <1>4
<1>6. QED
  BY <1>5 DEF t

\* So does one that is answered early.
LEMMA EndKeeps ==
  ASSUME NEW q \in Requests, NEW code \in Nat, NEW p, p = End(q, code)
  PROVE  Keeps(q, p) /\ Stopped(p.todo)
<1>1. ASSUME NEW t \in Seq(Instructions), NEW a \in Nat, NEW b \in BOOLEAN,
             p = [q EXCEPT !.todo = t, !.counting = b, !.answer = a]
      PROVE  Keeps(q, p) /\ p.todo = t
  BY <1>1 DEF Requests, Same, Keeps
<1> DEFINE t == << >>
           a == IF q.answer = 0 THEN code ELSE q.answer
<1>2. t \in Seq(Instructions) /\ a \in Nat
  BY DEF Requests
<1>3. p = [q EXCEPT !.todo = t, !.counting = FALSE, !.answer = a]
  BY DEF End
<1> HIDE DEF t, a
<1>4. Keeps(q, p) /\ p.todo = t
  BY <1>1, <1>2, <1>3
<1>5. QED
  BY <1>4 DEF t, Stopped

\* So does one that is refused.
LEMMA RefuseKeeps ==
  ASSUME NEW q \in Requests, NEW code \in Nat, NEW p, p = Refuse(q, code)
  PROVE  Keeps(q, p) /\ Stopped(p.todo)
<1>1. ASSUME NEW t \in Seq(Instructions), p = [q EXCEPT !.todo = t]
      PROVE  Keeps(q, p) /\ p.todo = t
  BY <1>1 DEF Requests, Same, Keeps
<1>2. <<[do |-> "audit", code |-> code]>> \in Seq(Instructions)
  <2>1. [do |-> "audit", code |-> code] \in Instructions
    BY DEF Instructions
  <2>2. QED
    BY <2>1
<1>3. QED
  BY <1>1, <1>2 DEF Refuse, Stopped

\* The history of a request's permissions only grows.
LEMMA SetReach ==
  ASSUME NEW q \in Requests, NEW x \in SUBSET Workspaces, NEW p, p = [q EXCEPT !.reach = q.reach \cup x]
  PROVE  p \in Requests /\ p.op = q.op /\ p.todo = q.todo /\ p.rival = q.rival /\ p.reach = q.reach \cup x
         /\ p.ws = q.ws /\ p.pending = q.pending /\ p.wrote = q.wrote /\ p.shown = q.shown /\ p.born = q.born
<1>1. ASSUME NEW y \in SUBSET Workspaces, p = [q EXCEPT !.reach = y]
      PROVE  p \in Requests /\ p.op = q.op /\ p.todo = q.todo /\ p.rival = q.rival /\ p.reach = y
             /\ p.ws = q.ws /\ p.pending = q.pending /\ p.wrote = q.wrote /\ p.shown = q.shown /\ p.born = q.born
  BY <1>1 DEF Requests
<1>2. q.reach \cup x \in SUBSET Workspaces
  BY DEF Requests
<1>3. QED
  BY <1>1, <1>2

\* The history of the conversations made meanwhile only grows.
LEMMA SetBorn ==
  ASSUME NEW q \in Requests, NEW w \in Workspaces, NEW p, p = [q EXCEPT !.born = q.born \cup {w}]
  PROVE  p \in Requests /\ p.op = q.op /\ p.todo = q.todo /\ p.rival = q.rival /\ p.born = q.born \cup {w}
         /\ p.ws = q.ws /\ p.pending = q.pending /\ p.wrote = q.wrote /\ p.shown = q.shown /\ p.reach = q.reach
<1>1. ASSUME NEW y \in SUBSET Workspaces, p = [q EXCEPT !.born = y]
      PROVE  p \in Requests /\ p.op = q.op /\ p.todo = q.todo /\ p.rival = q.rival /\ p.born = y
             /\ p.ws = q.ws /\ p.pending = q.pending /\ p.wrote = q.wrote /\ p.shown = q.shown /\ p.reach = q.reach
  BY <1>1 DEF Requests
<1>2. q.born \cup {w} \in SUBSET Workspaces
  BY DEF Requests
<1>3. QED
  BY <1>1, <1>2

\* Only whether it has a rival changes.
LEMMA SetRival ==
  ASSUME NEW q \in Requests, NEW b \in BOOLEAN, NEW p, p = [q EXCEPT !.rival = b]
  PROVE  p \in Requests /\ p.op = q.op /\ p.todo = q.todo /\ p.rival = b /\ p.reach = q.reach
         /\ p.ws = q.ws /\ p.pending = q.pending /\ p.wrote = q.wrote /\ p.shown = q.shown /\ p.born = q.born
BY DEF Requests

(***************************************************************************)
(* The directory.                                                          *)
(***************************************************************************)
\* One membership for a user and a workspace.
Single(ms) ==
  /\ ms \subseteq Memberships
  /\ \A m, n \in ms : m.user = n.user /\ m.ws = n.ws => m = n

\* The membership found is the one there is.
LEMMA MembershipFound ==
  ASSUME NEW ms, Single(ms), NEW u, NEW w
  PROVE  /\ \A m \in ms : m.user = u /\ m.ws = w => MembershipIn(ms, u, w) = m /\ MembershipIn(ms, u, w) # None
         /\ (\A m \in ms : ~(m.user = u /\ m.ws = w)) => MembershipIn(ms, u, w) = None
<1>1. ASSUME NEW m \in ms, m.user = u, m.ws = w
      PROVE  MembershipIn(ms, u, w) = m /\ MembershipIn(ms, u, w) # None
  <2> DEFINE x == CHOOSE n \in ms : n.user = u /\ n.ws = w
  <2>1. x \in ms /\ x.user = u /\ x.ws = w
    BY <1>1
  <2>2. x = m
    BY <2>1, <1>1 DEF Single
  <2>3. MembershipIn(ms, u, w) = x
    BY <1>1 DEF MembershipIn
  <2>4. m # None
    BY GatewayAssumption DEF Single
  <2>5. QED
    BY <2>2, <2>3, <2>4
<1>2. (\A m \in ms : ~(m.user = u /\ m.ws = w)) => MembershipIn(ms, u, w) = None
  BY DEF MembershipIn
<1>3. QED
  BY <1>1, <1>2

\* Two directories that agree on a user and a workspace find the same.
LEMMA MembershipAgrees ==
  ASSUME NEW ms, Single(ms), NEW ns, Single(ns), NEW u, NEW w,
         \A m : m.user = u /\ m.ws = w => (m \in ms <=> m \in ns)
  PROVE  MembershipIn(ms, u, w) = MembershipIn(ns, u, w)
<1>1. CASE \E m \in ms : m.user = u /\ m.ws = w
  <2>1. PICK m \in ms : m.user = u /\ m.ws = w
    BY <1>1
  <2>2. m \in ns
    BY <2>1
  <2>3. QED
    BY <2>1, <2>2, MembershipFound
<1>2. CASE \A m \in ms : ~(m.user = u /\ m.ws = w)
  <2>1. \A m \in ns : ~(m.user = u /\ m.ws = w)
    BY <1>2
  <2>2. QED
    BY <1>2, <2>1, MembershipFound
<1>3. QED
  BY <1>1, <1>2

\* The membership of one's own workspace is added when it is missing.
OwnRecord(u) == [id |-> PersonalOf[u], ws |-> PersonalOf[u], user |-> u, role |-> "owner"]

\* It is a membership, of a workspace.
LEMMA OwnIs ==
  ASSUME NEW u \in Users
  PROVE  /\ OwnRecord(u) \in Memberships /\ OwnRecord(u).user = u /\ OwnRecord(u).ws = PersonalOf[u]
         /\ PersonalOf[u] \in Workspaces
<1>1. PersonalOf[u] \in Int /\ PersonalOf[u] \in Workspaces /\ "owner" \in Roles
  BY GatewayAssumption DEF Workspaces, Roles, ROLE_PERMISSIONS
<1>2. QED
  BY <1>1 DEF OwnRecord, Memberships

\* What ensurePersonalWorkspace makes of a directory in order.
LEMMA Ensured ==
  ASSUME NEW ms, Single(ms), NEW u \in Users, NEW own, own = ensurePersonalWorkspace(ms, u)
  PROVE  /\ Single(own)
         /\ own = ms \/ (own = ms \cup {OwnRecord(u)} /\ \A m \in ms : ~(m.user = u /\ m.ws = PersonalOf[u]))
         /\ MembershipIn(own, u, PersonalOf[u]) # None
<1>1. own = IF MembershipIn(ms, u, PersonalOf[u]) # None THEN ms ELSE ms \cup {OwnRecord(u)}
  BY DEF ensurePersonalWorkspace, OwnRecord
<1>2. CASE MembershipIn(ms, u, PersonalOf[u]) # None
  BY <1>1, <1>2
<1>3. CASE MembershipIn(ms, u, PersonalOf[u]) = None
  <2>1. \A m \in ms : ~(m.user = u /\ m.ws = PersonalOf[u])
    BY <1>3, MembershipFound
  <2>2. own = ms \cup {OwnRecord(u)}
    BY <1>1, <1>3
  <2>3. Single(own)
    BY <2>1, <2>2, OwnIs DEF Single
  <2>4. OwnRecord(u) \in own
    BY <2>2
  <2>5. MembershipIn(own, u, PersonalOf[u]) # None
    BY <2>3, <2>4, OwnIs, MembershipFound
  <2>6. QED
    BY <2>1, <2>2, <2>3, <2>5
<1>4. QED
  BY <1>2, <1>3

\* Roles that nobody looked for yet are there all the same: making one's own workspace
\* changes no effective role, of nobody.
LEMMA EnsuredRoles ==
  ASSUME NEW ms, Single(ms), NEW u \in Users, NEW v \in Users, NEW w
  PROVE  effectiveRole(ensurePersonalWorkspace(ms, u), v, w) = effectiveRole(ms, v, w)
<1> DEFINE own == ensurePersonalWorkspace(ms, u)
<1>1. Single(own) /\ (own = ms \/ own = ms \cup {OwnRecord(u)}) /\ MembershipIn(own, u, PersonalOf[u]) # None
  BY Ensured
<1>2. CASE v = u
  <2>1. ensurePersonalWorkspace(own, u) = own
    BY <1>1 DEF ensurePersonalWorkspace
  <2>2. effectiveRole(own, u, w) = roleOf(own, u, w) /\ effectiveRole(ms, u, w) = roleOf(own, u, w)
    BY <2>1 DEF effectiveRole
  <2>3. QED
    BY <1>2, <2>2
<1>3. CASE v # u
  <2> HIDE DEF own
  <2>1. \A x : x.user = v => (x \in own <=> x \in ms)
    BY <1>1, <1>3, OwnIs
  <2>2. MembershipIn(own, v, PersonalOf[v]) = MembershipIn(ms, v, PersonalOf[v])
    BY <2>1, <1>1, MembershipAgrees
  <2> DEFINE A == ensurePersonalWorkspace(own, v)
             B == ensurePersonalWorkspace(ms, v)
  <2>3. (A = own /\ B = ms) \/ (A = own \cup {OwnRecord(v)} /\ B = ms \cup {OwnRecord(v)})
    BY <2>2 DEF ensurePersonalWorkspace, OwnRecord
  <2>4. Single(A) /\ Single(B)
    BY <1>1, Ensured
  <2> HIDE DEF A, B
  <2>5. \A x : x.user = v => (x \in A <=> x \in B)
    BY <2>1, <2>3
  <2>6. MembershipIn(A, v, w) = MembershipIn(B, v, w)
    BY <2>4, <2>5, MembershipAgrees
  <2>7. roleOf(A, v, w) = roleOf(B, v, w)
    BY <2>6 DEF roleOf
  <2>8. QED
    BY <2>7 DEF effectiveRole, A, B, own
<1>4. QED
  BY <1>2, <1>3

\* In any other workspace than one's own the role is the one recorded.
LEMMA RoleElsewhere ==
  ASSUME NEW ms, Single(ms), NEW u \in Users, NEW w, w # PersonalOf[u]
  PROVE  roleOf(ms, u, w) = effectiveRole(ms, u, w)
<1> DEFINE own == ensurePersonalWorkspace(ms, u)
<1>1. Single(own) /\ (own = ms \/ own = ms \cup {OwnRecord(u)})
  BY Ensured
<1> HIDE DEF own
<1>2. \A x : x.user = u /\ x.ws = w => (x \in own <=> x \in ms)
  BY <1>1, OwnIs
<1>3. MembershipIn(own, u, w) = MembershipIn(ms, u, w)
  BY <1>1, <1>2, MembershipAgrees
<1>4. QED
  BY <1>3 DEF effectiveRole, roleOf, own

(***************************************************************************)
(* The inductive invariant.                                                *)
(***************************************************************************)
\* Reach, for a given directory.
ReachIn(auth, ms, op) ==
  {w \in Workspaces :
      PermissionOf(op) # None /\ requirePermission(auth, effectiveRole(ms, op.user, w), PermissionOf(op))}

Allows(p) == \E i \in 1 .. Len(p) : IsAllow(p[i])
Finds(p) == \E i \in 1 .. Len(p) : IsFind(p[i])
Shows(p) == \E i \in 1 .. Len(p) : IsShow(p[i])
Uses(p) == \E i \in 1 .. Len(p) : IsShow(p[i]) \/ IsGated(p[i])

\* Past its permission, and with something still to change or show, a request is at work in
\* a workspace where it was permitted; on a server-wide route in its user's own one.
Permitted(q) ==
  /\ q.op.do \in ServerWide => q.ws \in {None, PersonalOf[q.op.user]}
  /\ PermissionOf(q.op) # None /\ ~Allows(q.todo) /\ Uses(q.todo) => q.ws \in q.reach

\* The workspace looked up is the one of the conversation that is going to be shown; a cost
\* route may have gone on without one, and finds what was made since; a server-wide route looks
\* nothing up.
Located(q, cs) ==
  Shows(q.todo) /\ ~Finds(q.todo) /\ HomeOfTarget(q.op) # None =>
    \/ cs[HomeOfTarget(q.op)] = q.ws /\ q.ws # None
    \/ q.op.do \in CostRoutes /\ (cs[HomeOfTarget(q.op)] = None \/ cs[HomeOfTarget(q.op)] \in q.born)
    \/ q.op.do \in ServerWide

\* A decision that is about to be recorded, and was the only one, is on the operation the
\* run still waits for, and in time.
Decided(q, rs) ==
  q.todo # << >> /\ q.todo[1].do = "commitDecision" =>
    /\ q.op.run \in Runs
    /\ ~q.rival => /\ rs[q.op.run].phase = "NEEDS_DECISION"
                   /\ rs[q.op.run].op = q.op.operation
                   /\ q.pending.decision = "approve" =>
                        q.pending.at - rs[q.op.run].presentedAt < ApprovalTimeout

\* What it has done so far was permitted.
Clean(q) ==
  /\ q.wrote # None => q.wrote \in Entitled(q)
  /\ PermissionOf(q.op) # None => q.shown \subseteq Entitled(q) \cup Excused(q)

Good(q, auth, ms, cs, rs) ==
  /\ q \in Requests /\ Under(q.todo, q.op)
  /\ Permitted(q) /\ Located(q, cs) /\ Decided(q, rs) /\ Clean(q)
  /\ q.todo # << >> => ReachIn(auth, ms, q.op) \subseteq q.reach

StateOk ==
  /\ mix \in DOMAIN Mixes /\ clock \in Nat /\ memberCounter \in Int
  /\ Directory(spaces, members)
  /\ conversations \in [Conversations -> Workspaces \cup {None}]
  /\ runs \in [Runs -> [phase : {"EXECUTING", "NEEDS_DECISION", "SYNTHESIZING"}, op : Int, presentedAt : Nat]]

RequestsOk ==
  /\ req \in [Slots -> Requests \cup {Idle}]
  /\ \A s \in Slots : req[s] # Idle => Good(req[s], AuthEnabled, members, conversations, runs)

\* Two decisions under way know of each other.
Apart(q, p) == q.op.do = "postDecision" /\ p.op.do = "postDecision" => q.rival /\ p.rival
PairsOk == \A s, t \in Slots : s # t /\ Busy(req[s]) /\ Busy(req[t]) => Apart(req[s], req[t])

IndInv == StateOk /\ RequestsOk /\ PairsOk /\ RunsOnlyApproved

\* The history that Gateway keeps is ReachIn of the directory.
LEMMA ReachIs == \A ms, q : Reach(ms, q) = ReachIn(AuthEnabled, ms, q.op)
BY DEF Reach, ReachIn

\* A slot is idle or holds a request.
LEMMA SlotIs ==
  /\ Idle \notin Requests /\ ~Busy(Idle)
  /\ \A q \in Requests : Busy(q) <=> q.todo # << >>
BY GatewayAssumption DEF Idle, Busy, Requests

\* A step done: what is left to do is what was left before, without it.
LEMMA TailIs ==
  ASSUME NEW op, NEW todo, Under(todo, op), todo # << >>, NEW t, t = Tail(todo)
  PROVE  /\ Under(t, op)
         /\ Allows(t) \/ IsAllow(todo[1]) <=> Allows(todo)
         /\ Finds(t) \/ IsFind(todo[1]) <=> Finds(todo)
         /\ Shows(t) \/ IsShow(todo[1]) <=> Shows(todo)
         /\ Uses(t) \/ IsShow(todo[1]) \/ IsGated(todo[1]) <=> Uses(todo)
         /\ t # << >> /\ t[1].do = "commitDecision" => todo[1].do = "readPending"
<1>1. /\ Under(t, op)
      /\ Len(todo) \in Nat \ {0} /\ Len(t) = Len(todo) - 1
      /\ \A i \in 1 .. Len(t) : i + 1 \in 1 .. Len(todo) /\ t[i] = todo[i + 1]
  BY UnderTail
<1>2. \A i \in 1 .. Len(todo) : i # 1 => i - 1 \in 1 .. Len(t) /\ t[i - 1] = todo[i]
  BY <1>1
<1>3. /\ Allows(t) \/ IsAllow(todo[1]) <=> Allows(todo)
      /\ Finds(t) \/ IsFind(todo[1]) <=> Finds(todo)
      /\ Shows(t) \/ IsShow(todo[1]) <=> Shows(todo)
      /\ Uses(t) \/ IsShow(todo[1]) \/ IsGated(todo[1]) <=> Uses(todo)
  <2>1. 1 \in 1 .. Len(todo)
    BY <1>1
  <2>2. QED
    BY <1>1, <1>2, <2>1 DEF Allows, Finds, Shows, Uses
<1>4. ASSUME t # << >>, t[1].do = "commitDecision" PROVE todo[1].do = "readPending"
  <2>1. t \in Seq(Instructions)
    BY <1>1 DEF Under
  <2>2. 1 \in 1 .. Len(t)
    BY <1>4, <2>1
  <2>3. 2 \in 1 .. Len(todo) /\ 2 - 1 = 1 /\ todo[2].do = "commitDecision"
    BY <2>2, <1>4, <1>1
  <2>4. todo[2 - 1].do = "readPending"
    BY <2>3 DEF Under
  <2>5. QED
    BY <2>3, <2>4
<1>5. QED
  BY <1>1, <1>3, <1>4

\* A step that neither finds, permits nor reads a pending operation.
LEMMA PassGood ==
  ASSUME NEW auth, NEW ms, NEW cs, NEW rs, NEW q, Good(q, auth, ms, cs, rs), q.todo # << >>,
         q.todo[1].do \notin {"allow", "find", "readPending"},
         NEW p, Keeps(q, p), p.todo = Tail(q.todo)
  PROVE  Good(p, auth, ms, cs, rs)
<1>1. Under(q.todo, q.op)
  BY DEF Good
<1>0. p.op = q.op
  BY DEF Keeps, Same
<1>6. /\ Under(p.todo, q.op)
      /\ Allows(p.todo) \/ IsAllow(q.todo[1]) <=> Allows(q.todo)
      /\ Finds(p.todo) \/ IsFind(q.todo[1]) <=> Finds(q.todo)
      /\ Shows(p.todo) \/ IsShow(q.todo[1]) <=> Shows(q.todo)
      /\ Uses(p.todo) \/ IsShow(q.todo[1]) \/ IsGated(q.todo[1]) <=> Uses(q.todo)
      /\ p.todo # << >> /\ p.todo[1].do = "commitDecision" => q.todo[1].do = "readPending"
  BY <1>1, TailIs
<1>2. /\ Under(p.todo, q.op)
      /\ Allows(p.todo) <=> Allows(q.todo)
      /\ Finds(p.todo) <=> Finds(q.todo)
      /\ Shows(p.todo) => Shows(q.todo)
      /\ Uses(p.todo) => Uses(q.todo)
      /\ ~(p.todo # << >> /\ p.todo[1].do = "commitDecision")
  BY <1>6 DEF IsAllow, IsFind
<1>3. Permitted(p)
  BY <1>2 DEF Good, Permitted, Keeps, Same
<1>4. Located(p, cs)
  BY <1>2 DEF Good, Located, Keeps, Same
<1>5. QED
  BY <1>0, <1>2, <1>3, <1>4 DEF Good, Decided, Clean, Entitled, Excused, Keeps, Same

\* A request that is over, or only its refusal left to be written down.
LEMMA StopGood ==
  ASSUME NEW auth, NEW ms, NEW cs, NEW rs, NEW q, Good(q, auth, ms, cs, rs), q.todo # << >>,
         NEW p, Keeps(q, p), Stopped(p.todo)
  PROVE  Good(p, auth, ms, cs, rs)
<1>1. Under(p.todo, p.op) /\ \A i \in 1 .. Len(p.todo) : p.todo[i].do = "audit"
  BY UnderStopped
<1>2. ~Shows(p.todo) /\ ~Uses(p.todo)
  BY <1>1 DEF Shows, Uses, IsShow, IsGated
<1>3. p.todo # << >> => 1 \in 1 .. Len(p.todo)
  BY <1>1 DEF Under
<1>4. QED
  BY <1>1, <1>2, <1>3 DEF Good, Permitted, Located, Decided, Clean, Entitled, Excused, Keeps, Same

(***************************************************************************)
(* Steps.                                                                  *)
(***************************************************************************)
\* A request under way.
LEMMA AtIs ==
  ASSUME IndInv, NEW s \in Slots, NEW d, At(s, d)
  PROVE  /\ req[s] \in Requests /\ req[s].todo # << >> /\ req[s].todo[1].do = d
         /\ Instruction(req[s]) = req[s].todo[1] /\ req[s].todo[1] \in Instructions
         /\ Good(req[s], AuthEnabled, members, conversations, runs)
<1>1. req[s] \in Requests \cup {Idle} /\ Busy(req[s]) /\ Instruction(req[s]).do = d
  BY DEF IndInv, RequestsOk, At
<1>2. req[s] \in Requests /\ req[s] # Idle /\ req[s].todo # << >>
  BY <1>1, SlotIs
<1>3. Good(req[s], AuthEnabled, members, conversations, runs)
  BY <1>2 DEF IndInv, RequestsOk
<1>4. Under(req[s].todo, req[s].op)
  BY <1>3 DEF Good
<1>5. QED
  BY <1>1, <1>2, <1>3, <1>4, UnderTail DEF Instruction

\* One request moves on; the others see a directory, conversations and runs that are as good
\* for them as before.
LEMMA SlotStep ==
  ASSUME IndInv, NEW s \in Slots, Busy(req[s]),
         NEW p, req' = [req EXCEPT ![s] = p], p.op = req[s].op, p.rival = req[s].rival,
         mix' = mix, StateOk', RunsOnlyApproved',
         Good(p, AuthEnabled, members', conversations', runs'),
         \A t \in Slots \ {s} : req[t] # Idle => Good(req[t], AuthEnabled, members', conversations', runs')
  PROVE  IndInv'
<1>1. p \in Requests /\ req \in [Slots -> Requests \cup {Idle}]
  BY DEF Good, IndInv, RequestsOk
<1>2. req' \in [Slots -> Requests \cup {Idle}] /\ req'[s] = p /\ \A t \in Slots \ {s} : req'[t] = req[t]
  BY <1>1
<1>3. AuthEnabled' = AuthEnabled
  BY DEF AuthEnabled
<1>4. RequestsOk'
  BY <1>2, <1>3 DEF RequestsOk
<1>5. PairsOk'
  <2>1. PairsOk
    BY DEF IndInv
  <2>2. SUFFICES ASSUME NEW t \in Slots, NEW u \in Slots, t # u, Busy(req'[t]), Busy(req'[u])
                 PROVE  Apart(req'[t], req'[u])
    BY DEF PairsOk, Busy, Apart
  <2>3. Busy(req[t]) /\ Busy(req[u])
    BY <2>2, <1>2
  <2>4. Apart(req[t], req[u])
    BY <2>1, <2>2, <2>3 DEF PairsOk
  <2>5. QED
    BY <2>2, <2>4, <1>2 DEF Apart
<1>6. QED
  BY <1>4, <1>5 DEF IndInv

\* The request passes a step, or is stopped there, and nothing else of what the invariant is
\* about changes.
Kept == UNCHANGED <<mix, clock, spaces, members, memberCounter, conversations, runs, ran>>

\* Such a step keeps the invariant.
LEMMA QuietStep ==
  ASSUME IndInv, Kept, NEW s \in Slots, NEW d, At(s, d),
         NEW p, req' = [req EXCEPT ![s] = p], Keeps(req[s], p),
         Stopped(p.todo) \/ (p.todo = Tail(req[s].todo) /\ d \notin {"allow", "find", "readPending"})
  PROVE  IndInv'
<1>1. req[s] \in Requests /\ req[s].todo # << >> /\ req[s].todo[1].do = d
      /\ Good(req[s], AuthEnabled, members, conversations, runs)
  BY AtIs
<1>2. Good(p, AuthEnabled, members, conversations, runs)
  BY <1>1, PassGood, StopGood
<1>3. StateOk' /\ RunsOnlyApproved'
  BY DEF IndInv, StateOk, Kept, RunsOnlyApproved
<1>4. Busy(req[s])
  BY DEF At
<1>5. \A t \in Slots \ {s} : req[t] # Idle => Good(req[t], AuthEnabled, members', conversations', runs')
  BY DEF IndInv, RequestsOk, Kept
<1>6. QED
  BY <1>2, <1>3, <1>4, <1>5, SlotStep DEF Kept, Keeps, Same

\* The steps that only look at what other modules keep, or change what this invariant does
\* not speak of.
Moves(s) ==
  LET q == req[s]
  IN  \/ req' = [req EXCEPT ![s] = Advance(q)]
      \/ \E c \in Nat : req' = [req EXCEPT ![s] = End(q, c)]
      \/ \E c \in Nat : req' = [req EXCEPT ![s] = Refuse(q, c)]

\* So do these.
LEMMA MovesStep ==
  ASSUME IndInv, Kept, NEW s \in Slots, NEW d, At(s, d), d \notin {"allow", "find", "readPending"}, Moves(s)
  PROVE  IndInv'
<1>1. req[s] \in Requests /\ req[s].todo # << >>
  BY AtIs
<1>2. CASE req' = [req EXCEPT ![s] = Advance(req[s])]
  BY <1>1, <1>2, AdvanceKeeps, QuietStep
<1>3. ASSUME NEW c \in Nat, req' = [req EXCEPT ![s] = End(req[s], c)] PROVE IndInv'
  BY <1>1, <1>3, EndKeeps, QuietStep
<1>4. ASSUME NEW c \in Nat, req' = [req EXCEPT ![s] = Refuse(req[s], c)] PROVE IndInv'
  BY <1>1, <1>4, RefuseKeeps, QuietStep
<1>5. QED
  BY <1>2, <1>3, <1>4 DEF Moves

\* The codes that steps answer with are numbers.
LEMMA Codes ==
  ASSUME NEW i \in Instructions, i.do \in {"need", "find"} \/ "code" \in DOMAIN i
  PROVE  i.code \in Nat
BY DEF Instructions, Plains

\* The actions that take such a step.
LEMMA QuietActions ==
  ASSUME IndInv, NEW s \in Slots,
         \/ LimitRequest(s) \/ LimiterFails(s) \/ EnterRequest(s) \/ LoginRequest(s) \/ CheckRequest(s)
         \/ AuditRequest(s) \/ pruneMemory(s)
         \/ \E ok \in BOOLEAN : CreateRun(s, ok) \/ FinishRun(s, ok)
  PROVE  IndInv'
<1> USE DEF Become, Kept, traffic, directory, quotas, work, rest
<1> DEFINE Passed == req' = [req EXCEPT ![s] = Advance(req[s])]
           Ended(c) == req' = [req EXCEPT ![s] = End(req[s], c)]
           Refused(c) == req' = [req EXCEPT ![s] = Refuse(req[s], c)]
<1>0. Passed \/ (\E c \in Nat : Ended(c) \/ Refused(c)) => Moves(s)
  BY DEF Moves
<1>1. CASE LimitRequest(s)
  <2>1. Kept /\ At(s, "limit")
    <3>1. At(s, "limit") /\ UNCHANGED <<clock, directory, work, rest>>
      BY <1>1, Zenon DEF LimitRequest
    <3>2. QED
      BY <3>1
  <2>2. Passed \/ Ended(429)
    BY <1>1 DEF LimitRequest
  <2>3. QED
    BY <1>0, <2>1, <2>2, MovesStep, SMTT(30)
<1>2. CASE LimiterFails(s)
  <2>1. Kept /\ At(s, "limit")
    BY <1>2 DEF LimiterFails
  <2>2. Passed \/ Ended(503)
    BY <1>2 DEF LimiterFails
  <2>3. QED
    BY <1>0, <2>1, <2>2, MovesStep
<1>3. CASE EnterRequest(s)
  <2>1. Kept /\ At(s, "enter")
    BY <1>3 DEF EnterRequest
  <2>2. Passed \/ Ended(401) \/ Ended(403)
    BY <1>3, ZenonT(60) DEF EnterRequest
  <2>3. QED
    BY <1>0, <2>1, <2>2, MovesStep
<1>4. CASE LoginRequest(s)
  <2>1. Kept /\ At(s, "login")
    BY <1>4 DEF LoginRequest
  <2>2. Passed \/ Ended(200) \/ Ended(400) \/ Refused(429) \/ Refused(401)
    BY <1>4 DEF LoginRequest
  <2>3. QED
    BY <1>0, <2>1, <2>2, MovesStep
<1>5. CASE CheckRequest(s)
  <2>1. Kept /\ At(s, "need")
    BY <1>5 DEF CheckRequest
  <2>2. Instruction(req[s]).code \in Nat
    BY <2>1, AtIs, Codes
  <2>3. Passed \/ Ended(Instruction(req[s]).code)
    BY <1>5 DEF CheckRequest
  <2>4. QED
    BY <1>0, <2>1, <2>2, <2>3, MovesStep
<1>6. CASE AuditRequest(s)
  <2>1. Kept /\ At(s, "audit")
    BY <1>6 DEF AuditRequest
  <2>2. "code" \in DOMAIN Instruction(req[s]) => Instruction(req[s]).code \in Nat
    BY <2>1, AtIs, Codes
  <2>3. Passed \/ ("code" \in DOMAIN Instruction(req[s]) /\ Ended(Instruction(req[s]).code))
    BY <1>6 DEF AuditRequest
  <2>4. QED
    BY <1>0, <2>1, <2>2, <2>3, MovesStep
<1>7. CASE pruneMemory(s)
  <2>1. Kept /\ At(s, "prune") /\ Passed
    BY <1>7 DEF pruneMemory
  <2>2. QED
    BY <1>0, <2>1, MovesStep
<1>10. ASSUME NEW ok \in BOOLEAN, CreateRun(s, ok) \/ FinishRun(s, ok) PROVE IndInv'
  <2>1. Kept /\ (At(s, "createRun") \/ At(s, "finish"))
    BY <1>10 DEF CreateRun, FinishRun
  <2>2. Passed \/ Ended(400)
    BY <1>10 DEF CreateRun, FinishRun
  <2>3. QED
    BY <1>0, <2>1, <2>2, MovesStep
<1>11. QED
  BY <1>1, <1>2, <1>3, <1>4, <1>5, <1>6, <1>7, <1>10

\* Only its answer changes.
LEMMA SetAnswer ==
  ASSUME NEW q \in Requests, NEW a \in Nat, NEW p, p = [q EXCEPT !.answer = a]
  PROVE  Keeps(q, p) /\ p.todo = q.todo
BY DEF Requests, Same, Keeps

\* The quota is checked, and counted: the request only remembers that it counts.
LEMMA QuotaSteps ==
  ASSUME IndInv, NEW s \in Slots, enforceRunQuota(s) \/ CountRun(s)
  PROVE  IndInv'
<1>1. ASSUME NEW b \in BOOLEAN, NEW k, k = [req[s] EXCEPT !.counting = b], req[s] \in Requests, req[s].todo # << >>
      PROVE  Keeps(req[s], Advance(k)) /\ Advance(k).todo = Tail(req[s].todo)
  <2>1. Keeps(req[s], k) /\ k.todo = req[s].todo
    BY <1>1, SetCounting DEF Keeps
  <2>2. k \in Requests
    BY <2>1 DEF Keeps, Same
  <2>3. Keeps(k, Advance(k)) /\ Advance(k).todo = Tail(k.todo)
    BY <1>1, <2>1, <2>2, AdvanceKeeps
  <2>4. QED
    BY <2>1, <2>3 DEF Keeps, Same
<1>2. CASE enforceRunQuota(s)
  <2> DEFINE k == [req[s] EXCEPT !.counting = TRUE]
  <2>1. Kept /\ At(s, "quota")
    BY <1>2 DEF enforceRunQuota, RollOver, Kept, traffic, directory, work, rest
  <2>2. req[s] \in Requests /\ req[s].todo # << >>
    BY <2>1, AtIs
  <2>3. req' = [req EXCEPT ![s] = Advance(k)] \/ req' = [req EXCEPT ![s] = Refuse(req[s], 429)]
    BY <1>2 DEF enforceRunQuota, Become
  <2>4. Keeps(req[s], Advance(k)) /\ Advance(k).todo = Tail(req[s].todo)
    BY <1>1, <2>2
  <2> HIDE DEF k
  <2>5. Keeps(req[s], Refuse(req[s], 429)) /\ Stopped(Refuse(req[s], 429).todo)
    BY <2>2, RefuseKeeps
  <2>6. QED
    BY <2>1, <2>3, <2>4, <2>5, QuietStep
<1>3. CASE CountRun(s)
  <2> DEFINE k == [req[s] EXCEPT !.counting = FALSE]
             a == IF req[s].op.stream THEN 202 ELSE 201
             done == [Advance(k) EXCEPT !.answer = a]
  <2>1. Kept /\ At(s, "count")
    BY <1>3 DEF CountRun, Kept, traffic, directory, work, rest
  <2>2. req[s] \in Requests /\ req[s].todo # << >>
    BY <2>1, AtIs
  <2>3. req' = [req EXCEPT ![s] = done]
    BY <1>3 DEF CountRun, Become
  <2>4. a \in Nat
    OBVIOUS
  <2>5. Keeps(req[s], Advance(k)) /\ Advance(k).todo = Tail(req[s].todo)
    BY <1>1, <2>2
  <2> HIDE DEF k, a
  <2>6. Keeps(Advance(k), done) /\ done.todo = Advance(k).todo
    BY <2>4, <2>5, SetAnswer DEF Keeps, Same
  <2> HIDE DEF done
  <2>7. Keeps(req[s], done) /\ done.todo = Tail(req[s].todo)
    BY <2>5, <2>6 DEF Keeps, Same
  <2>8. IndInv /\ Kept /\ At(s, "count") /\ "count" \notin {"allow", "find", "readPending"}
    BY <2>1
  <2>9. QED
    BY <2>3, <2>7, <2>8, QuietStep
<1>4. QED
  BY <1>2, <1>3

\* What is changed or shown next is behind the permission.
LEMMA Behind ==
  ASSUME NEW auth, NEW ms, NEW cs, NEW rs, NEW q, Good(q, auth, ms, cs, rs), q.todo # << >>,
         IsGated(q.todo[1]) \/ IsShow(q.todo[1])
  PROVE  /\ ~Allows(q.todo) /\ ~Finds(q.todo)
         /\ PermissionOf(q.op) # None => q.ws \in q.reach
         /\ IsGated(q.todo[1]) => PermissionOf(q.op) # None
<1>1. Under(q.todo, q.op) /\ q.todo \in Seq(Instructions) /\ Orderly(q.todo)
  BY DEF Good, Under
<1>2. 1 \in 1 .. Len(q.todo) /\ Len(q.todo) \in Nat
  BY <1>1
<1>3. ~IsAllow(q.todo[1]) /\ ~IsFind(q.todo[1])
  BY DEF IsAllow, IsFind, IsGated, IsShow
<1>4. ~Allows(q.todo) /\ ~Finds(q.todo)
  BY <1>1, <1>2, <1>3 DEF Orderly, Allows, Finds
<1>5. Uses(q.todo)
  BY <1>2 DEF Uses
<1>6. QED
  BY <1>1, <1>2, <1>4, <1>5 DEF Good, Permitted, Under

\* A change is recorded in the workspace of the request.
LEMMA WroteGood ==
  ASSUME NEW auth, NEW ms, NEW cs, NEW rs, NEW q, Good(q, auth, ms, cs, rs), q.todo # << >>, IsGated(q.todo[1]),
         NEW k, k = [q EXCEPT !.wrote = q.ws]
  PROVE  Good(k, auth, ms, cs, rs) /\ k.todo = q.todo /\ k.op = q.op /\ k.rival = q.rival
<1>1. q \in Requests /\ q.ws \in Workspaces \cup {None}
  BY DEF Good, Requests
<1>2. Same(q, k) /\ k.ws = q.ws /\ k.pending = q.pending /\ k.wrote = q.ws /\ k.shown = q.shown /\ k.todo = q.todo
  BY <1>1, SetWrote
<1>3. q.ws \in q.reach /\ q.reach \subseteq Workspaces
  BY <1>1, Behind DEF Requests
<1>4. Clean(k)
  BY <1>2, <1>3 DEF Good, Clean, Entitled, Excused, Same
<1>5. Permitted(k) /\ Located(k, cs) /\ Decided(k, rs)
  BY <1>2 DEF Good, Permitted, Located, Decided, Same
<1>6. QED
  BY <1>2, <1>4, <1>5 DEF Good, Same

\* A server-wide route that is past its permission may touch the runs of every workspace.
LEMMA ServerWideEntitled ==
  ASSUME NEW auth, NEW ms, NEW cs, NEW rs, NEW q, Good(q, auth, ms, cs, rs), q.todo # << >>,
         IsGated(q.todo[1]) \/ IsShow(q.todo[1]), PermissionOf(q.op) # None, q.op.do \in ServerWide
  PROVE  Entitled(q) = Workspaces
<1>1. q \in Requests /\ q.reach \subseteq Workspaces
  BY DEF Good, Requests
<1>2. q.ws \in q.reach
  BY Behind
<1>3. q.ws = PersonalOf[q.op.user]
  BY <1>1, <1>2, GatewayAssumption DEF Good, Permitted
<1>4. QED
  BY <1>2, <1>3 DEF Entitled

\* A run of some workspace is aborted, or its budget decided, on a server-wide route.
LEMMA WideGood ==
  ASSUME NEW auth, NEW ms, NEW cs, NEW rs, NEW q, Good(q, auth, ms, cs, rs), q.todo # << >>,
         q.todo[1].do \in {"decideBudget", "interruptAny"}, NEW w \in Workspaces \cup {None},
         NEW k, k = [q EXCEPT !.wrote = w]
  PROVE  Good(k, auth, ms, cs, rs) /\ k.todo = q.todo /\ k.op = q.op /\ k.rival = q.rival
<1>1. q \in Requests /\ Under(q.todo, q.op)
  BY DEF Good
<1>2. Same(q, k) /\ k.ws = q.ws /\ k.pending = q.pending /\ k.wrote = w /\ k.shown = q.shown /\ k.todo = q.todo
  BY <1>1, SetWrote
<1>3. q.op.do \in ServerWide /\ IsGated(q.todo[1])
  <2>1. q.todo \in Seq(Instructions)
    BY <1>1 DEF Under
  <2>2. 1 \in 1 .. Len(q.todo)
    BY <2>1
  <2>3. QED
    BY <1>1, <2>2 DEF Under, IsGated
<1>4. PermissionOf(q.op) # None
  BY <1>3, Behind
<1>5. Entitled(q) = Workspaces
  BY <1>3, <1>4, ServerWideEntitled
<1>6. Entitled(k) = Entitled(q) /\ Excused(k) = Excused(q)
  BY <1>2 DEF Entitled, Excused, Same
<1>7. Clean(k)
  BY <1>2, <1>5, <1>6 DEF Good, Clean, Same
<1>8. Permitted(k) /\ Located(k, cs) /\ Decided(k, rs)
  BY <1>2 DEF Good, Permitted, Located, Decided, Same
<1>9. QED
  BY <1>2, <1>7, <1>8 DEF Good, Same

\* A step after which the record of the request differs, and nothing else does.
LEMMA OwnStep ==
  ASSUME IndInv, Kept, NEW s \in Slots, Busy(req[s]),
         NEW p, req' = [req EXCEPT ![s] = p], p.op = req[s].op, p.rival = req[s].rival,
         Good(p, AuthEnabled, members, conversations, runs)
  PROVE  IndInv'
<1>1. StateOk' /\ RunsOnlyApproved'
  BY DEF IndInv, StateOk, Kept, RunsOnlyApproved
<1>2. \A t \in Slots \ {s} : req[t] # Idle => Good(req[t], AuthEnabled, members', conversations', runs')
  BY DEF IndInv, RequestsOk, Kept
<1>3. QED
  BY <1>1, <1>2, SlotStep DEF Kept

\* The steps that do so.
LEMMA WideStep ==
  ASSUME IndInv, NEW s \in Slots, decideBudget(s) \/ interruptAny(s)
  PROVE  IndInv'
<1> DEFINE q == req[s]
           w == WorkspaceOfTarget(q.op)
           k == [q EXCEPT !.wrote = w]
           d == q.todo[1].do
<1>1. /\ Kept /\ (At(s, "decideBudget") \/ At(s, "interruptAny"))
      /\ \/ req' = [req EXCEPT ![s] = End(q, 404)]
         \/ req' = [req EXCEPT ![s] = End(q, 409)]
         \/ req' = [req EXCEPT ![s] = Advance(k)]
  <2>1. CASE decideBudget(s)
    BY <2>1 DEF decideBudget, Become, Kept, traffic, directory, quotas, rest
  <2>2. CASE interruptAny(s)
    BY <2>2 DEF interruptAny, Become, Kept, traffic, directory, quotas, work, rest
  <2>3. QED
    BY <2>1, <2>2
<1>2. /\ q \in Requests /\ q.todo # << >> /\ d \in {"decideBudget", "interruptAny"} /\ At(s, d)
      /\ Good(q, AuthEnabled, members, conversations, runs)
  <2>1. ASSUME NEW e \in {"decideBudget", "interruptAny"}, At(s, e)
        PROVE  /\ q \in Requests /\ q.todo # << >> /\ d = e /\ At(s, d)
               /\ Good(q, AuthEnabled, members, conversations, runs)
    BY <2>1, AtIs
  <2>2. QED
    BY <1>1, <2>1
<1>3. ASSUME NEW c \in Nat, req' = [req EXCEPT ![s] = End(q, c)] PROVE IndInv'
  <2>1. Keeps(q, End(q, c)) /\ Stopped(End(q, c).todo)
    BY <1>2, EndKeeps
  <2>2. QED
    BY <1>1, <1>2, <1>3, <2>1, QuietStep
<1>4. CASE req' = [req EXCEPT ![s] = Advance(k)]
  <2>1. w \in Workspaces \cup {None}
    <3>1. q.op \in Ops
      BY <1>2 DEF Requests
    <3>2. HomeOfTarget(q.op) \in Conversations \cup {None}
      BY <3>1, GatewayAssumption DEF HomeOfTarget
    <3>3. QED
      BY <3>2 DEF WorkspaceOfTarget, IndInv, StateOk
  <2> HIDE DEF w, q
  <2>2. Good(k, AuthEnabled, members, conversations, runs) /\ k.todo = q.todo /\ k.op = q.op /\ k.rival = q.rival
    BY <1>2, <2>1, WideGood
  <2> HIDE DEF k
  <2>3. k \in Requests /\ k.todo # << >> /\ k.todo[1].do \notin {"allow", "find", "readPending"}
    BY <1>2, <2>2 DEF Good
  <2>4. Keeps(k, Advance(k)) /\ Advance(k).todo = Tail(k.todo)
    BY <2>3, AdvanceKeeps
  <2>5. Good(Advance(k), AuthEnabled, members, conversations, runs)
    BY <2>2, <2>3, <2>4, PassGood
  <2>6. Advance(k).op = req[s].op /\ Advance(k).rival = req[s].rival /\ Busy(req[s])
    BY <1>2, <2>2, <2>4 DEF Keeps, Same, q, At
  <2>7. QED
    BY <1>1, <1>4, <2>5, <2>6, OwnStep
<1>5. QED
  BY <1>1, <1>3, <1>4

\* A policy is set in the workspace of the request.
LEMMA PolicyStep ==
  ASSUME IndInv, NEW s \in Slots, setPolicy(s)
  PROVE  IndInv'
<1> DEFINE q == req[s]
           k == [q EXCEPT !.wrote = q.ws]
<1>1. Kept /\ At(s, "effect") /\ Instruction(q).what = "setPolicy" /\ req' = [req EXCEPT ![s] = Advance(k)]
  BY DEF setPolicy, Become, Kept, traffic, directory, work, rest
<1>2. /\ q \in Requests /\ q.todo # << >> /\ q.todo[1].do = "effect" /\ Instruction(q) = q.todo[1]
      /\ Good(q, AuthEnabled, members, conversations, runs)
  BY <1>1, AtIs
<1> HIDE DEF q
<1>3. IsGated(q.todo[1])
  BY <1>1, <1>2 DEF IsGated
<1>4. Good(k, AuthEnabled, members, conversations, runs) /\ k.todo = q.todo /\ k.op = q.op /\ k.rival = q.rival
  BY <1>2, <1>3, WroteGood
<1> HIDE DEF k
<1>5. k \in Requests
  BY <1>4 DEF Good
<1>6. Keeps(k, Advance(k)) /\ Advance(k).todo = Tail(k.todo)
  BY <1>2, <1>4, <1>5, AdvanceKeeps
<1>7. Good(Advance(k), AuthEnabled, members, conversations, runs)
  BY <1>2, <1>4, <1>6, PassGood
<1>8. StateOk' /\ RunsOnlyApproved'
  BY <1>1 DEF IndInv, StateOk, Kept, RunsOnlyApproved
<1>9. \A t \in Slots \ {s} : req[t] # Idle => Good(req[t], AuthEnabled, members', conversations', runs')
  BY <1>1 DEF IndInv, RequestsOk, Kept
<1>10. Busy(req[s]) /\ Advance(k).op = req[s].op /\ Advance(k).rival = req[s].rival
  BY <1>1, <1>4, <1>6 DEF At, Keeps, Same, q
<1>11. QED
  BY <1>1, <1>7, <1>8, <1>9, <1>10, SlotStep DEF Kept

\* What is shown is of the conversation found, or of the workspace permitted.
LEMMA ShowStep ==
  ASSUME IndInv, NEW s \in Slots, ShowConversations(s)
  PROVE  IndInv'
<1> DEFINE x == Shown(req[s])
           k == [req[s] EXCEPT !.shown = x]
<1>1. Kept /\ At(s, "show") /\ req' = [req EXCEPT ![s] = Advance(k)]
  BY DEF ShowConversations, Become, Kept, traffic, directory, work, rest
<1>2. /\ req[s] \in Requests /\ req[s].todo # << >> /\ req[s].todo[1].do = "show"
      /\ Good(req[s], AuthEnabled, members, conversations, runs)
  BY <1>1, AtIs
<1> DEFINE q == req[s]
           c == HomeOfTarget(q.op)
<1>3. q.op \in Ops /\ q.ws \in Workspaces \cup {None} /\ q.reach \subseteq Workspaces
  BY <1>2 DEF Requests
<1>4. c \in Conversations \cup {None}
  BY <1>3, GatewayAssumption DEF HomeOfTarget
<1>5. conversations \in [Conversations -> Workspaces \cup {None}] /\ members \subseteq Memberships
  BY DEF IndInv, StateOk, Directory
<1>6. x = IF c # None THEN {conversations[c]} \ {None}
          ELSE IF q.op.do \in ServerWide THEN {conversations[HomeOf[r]] : r \in Listed(q)} \ {None}
          ELSE {conversations[d] : d \in Conversations} \cap
                 (IF q.ws # None THEN {q.ws}
                  ELSE IF AuthEnabled THEN {m.ws : m \in {n \in members : n.user = q.op.user}} ELSE Workspaces)
  BY DEF Shown
<1>16. Listed(q) \subseteq Runs /\ HomeOf \in [Runs -> Conversations]
  BY GatewayAssumption DEF Listed
<1> HIDE DEF x, c
<1>7. x \subseteq Workspaces
  <2>1. CASE c # None
    BY <2>1, <1>4, <1>5, <1>6
  <2>2. CASE c = None /\ q.op.do \notin ServerWide
    <3>1. {m.ws : m \in {n \in members : n.user = q.op.user}} \subseteq Workspaces
      BY <1>5 DEF Memberships
    <3>2. QED
      BY <2>2, <3>1, <1>3, <1>6
  <2>4. CASE c = None /\ q.op.do \in ServerWide
    BY <2>4, <1>5, <1>6, <1>16
  <2>3. QED
    BY <2>1, <2>2, <2>4
<1>8. PermissionOf(q.op) # None => x \subseteq Entitled(q) \cup Excused(q)
  <2>1. IsShow(q.todo[1])
    BY <1>2 DEF IsShow
  <2>2. ~Allows(q.todo) /\ ~Finds(q.todo) /\ (PermissionOf(q.op) # None => q.ws \in q.reach)
    BY <1>2, <2>1, Behind
  <2>3. Shows(q.todo)
    <3>1. q.todo \in Seq(Instructions)
      BY <1>2 DEF Requests
    <3>2. 1 \in 1 .. Len(q.todo)
      BY <1>2, <3>1
    <3>3. QED
      BY <2>1, <3>2 DEF Shows
  <2>4. c # None /\ q.op.do \notin ServerWide =>
          \/ conversations[c] = q.ws
          \/ q.op.do \in CostRoutes /\ (conversations[c] = None \/ conversations[c] \in q.born)
    BY <1>2, <2>2, <2>3 DEF Good, Located, c
  <2>7. ASSUME PermissionOf(q.op) # None, q.op.do \in ServerWide PROVE x \subseteq Entitled(q) \cup Excused(q)
    <3>1. Entitled(q) = Workspaces
      BY <1>2, <2>1, <2>7, ServerWideEntitled
    <3>2. QED
      BY <3>1, <1>7
  <2>5. ASSUME PermissionOf(q.op) # None, q.op.do \notin ServerWide PROVE x \subseteq Entitled(q) \cup Excused(q)
    <3>1. q.ws \in q.reach /\ q.ws # None
      BY <2>2, <2>5, <1>3, GatewayAssumption
    <3>2. x \subseteq {q.ws} \/ (q.op.do \in CostRoutes /\ x \subseteq q.born)
      BY <2>5, <3>1, <2>4, <1>6
    <3>3. QED
      BY <2>5, <3>1, <3>2 DEF Entitled, Excused
  <2>6. QED
    BY <2>5, <2>7
<1>9. Same(q, k) /\ k.ws = q.ws /\ k.pending = q.pending /\ k.wrote = q.wrote /\ k.shown = x /\ k.todo = q.todo
  <2>1. x \in SUBSET Workspaces
    BY <1>7
  <2>2. k = [req[s] EXCEPT !.shown = x] /\ req[s] \in Requests
    BY <1>2
  <2> HIDE DEF k
  <2>3. QED
    BY <2>1, <2>2, SetShown
<1> HIDE DEF k, q
<1>10. Good(k, AuthEnabled, members, conversations, runs)
  <2>3. Entitled(k) = Entitled(q) /\ Excused(k) = Excused(q)
    BY <1>9 DEF Entitled, Excused, Same
  <2>1. Clean(k)
    BY <1>2, <1>8, <1>9, <2>3 DEF Good, Clean, Same, q
  <2>2. Permitted(k) /\ Located(k, conversations) /\ Decided(k, runs)
    BY <1>2, <1>9 DEF Good, Permitted, Located, Decided, Same, q
  <2>4. QED
    BY <1>2, <1>9, <2>1, <2>2 DEF Good, Same, q
<1>11. k.todo # << >> /\ k.todo[1].do = "show" /\ k \in Requests
  BY <1>2, <1>9 DEF q, Same
<1>12. Keeps(k, Advance(k)) /\ Advance(k).todo = Tail(k.todo)
  BY <1>11, AdvanceKeeps
<1>13. Good(Advance(k), AuthEnabled, members, conversations, runs)
  BY <1>10, <1>11, <1>12, PassGood
<1>14. Advance(k).op = req[s].op /\ Advance(k).rival = req[s].rival /\ Busy(req[s])
  BY <1>1, <1>9, <1>12 DEF Keeps, Same, q, At
<1>15. QED
  BY <1>1, <1>13, <1>14, OwnStep

\* The workspace found is the one of the conversation; it is looked at before the permission.
LEMMA FindStep ==
  ASSUME IndInv, NEW s \in Slots, FindTarget(s)
  PROVE  IndInv'
<1> DEFINE q == req[s]
           w == WorkspaceOfTarget(q.op)
           k == [q EXCEPT !.ws = w]
<1>1. Kept /\ At(s, "find")
  BY DEF FindTarget, Kept, traffic, directory, work, rest
<1>2. /\ q \in Requests /\ q.todo # << >> /\ q.todo[1].do = "find" /\ q.todo[1] \in Instructions
      /\ Instruction(q) = q.todo[1]
      /\ Good(q, AuthEnabled, members, conversations, runs)
  BY <1>1, AtIs
<1>3. \/ req' = [req EXCEPT ![s] = Advance(k)] /\ (w # None \/ Instruction(q).code = 0)
      \/ req' = [req EXCEPT ![s] = End(q, Instruction(q).code)]
  BY DEF FindTarget, Become
<1>4. CASE req' = [req EXCEPT ![s] = End(q, Instruction(q).code)]
  <2>1. Instruction(q).code \in Nat
    BY <1>2, Codes
  <2>2. Keeps(q, End(q, Instruction(q).code)) /\ Stopped(End(q, Instruction(q).code).todo)
    BY <1>2, <2>1, EndKeeps
  <2>3. QED
    BY <1>1, <1>4, <2>2, QuietStep
<1>5. CASE req' = [req EXCEPT ![s] = Advance(k)] /\ (w # None \/ Instruction(q).code = 0)
  <2>1. q.op \in Ops
    BY <1>2 DEF Requests
  <2>2. HomeOfTarget(q.op) \in Conversations \cup {None}
    BY <2>1, GatewayAssumption DEF HomeOfTarget
  <2>3. w \in Workspaces \cup {None} /\ (HomeOfTarget(q.op) # None => w = conversations[HomeOfTarget(q.op)])
    BY <2>2 DEF WorkspaceOfTarget, IndInv, StateOk
  <2> HIDE DEF w
  <2>4. Same(q, k) /\ k.ws = w /\ k.pending = q.pending /\ k.wrote = q.wrote /\ k.shown = q.shown /\ k.todo = q.todo
    BY <1>2, <2>3, SetWs, SMTT(30)
  <2> HIDE DEF k
  <2>5. k \in Requests /\ k.todo # << >>
    BY <1>2, <2>4 DEF Same
  <2> DEFINE p == Advance(k)
  <2>6. Keeps(k, p) /\ p.todo = Tail(k.todo)
    BY <2>5, AdvanceKeeps
  <2> HIDE DEF p, q
  <2>7. p \in Requests /\ p.op = q.op /\ p.rival = q.rival /\ p.reach = q.reach /\ p.ws = w /\ p.wrote = q.wrote
        /\ p.shown = q.shown /\ p.born = q.born /\ p.todo = Tail(q.todo)
    BY <2>4, <2>6 DEF Keeps, Same
  <2>8. Under(q.todo, q.op)
    BY <1>2 DEF Good
  <2>9. /\ Under(p.todo, q.op)
        /\ Shows(p.todo) \/ IsShow(q.todo[1]) <=> Shows(q.todo)
        /\ p.todo # << >> /\ p.todo[1].do = "commitDecision" => q.todo[1].do = "readPending"
    BY <1>2, <2>7, <2>8, TailIs
  <2>15. Shows(p.todo) => w # None \/ q.op.do \in CostRoutes
    <3>1. SUFFICES ASSUME Shows(p.todo), w = None PROVE q.op.do \in CostRoutes
      OBVIOUS
    <3>2. IsLenient(q.todo[1])
      BY <1>2, <1>5, <3>1 DEF IsLenient, q
    <3>3. q.todo \in Seq(Instructions)
      BY <2>8 DEF Under
    <3>4. 1 \in 1 .. Len(q.todo)
      BY <1>2, <3>3
    <3>5. PICK j \in 1 .. Len(q.todo) : IsShow(q.todo[j])
      BY <2>9, <3>1 DEF Shows
    <3>6. QED
      BY <2>8, <3>2, <3>4, <3>5 DEF Under
  <2>10. Allows(p.todo)
    <3>1. q.todo \in Seq(Instructions) /\ Orderly(q.todo)
      BY <2>8 DEF Under
    <3>2. 1 \in 1 .. Len(q.todo) /\ IsFind(q.todo[1])
      BY <1>2, <3>1 DEF IsFind
    <3>3. PICK j \in 1 + 1 .. Len(q.todo) : IsAllow(q.todo[j])
      BY <3>1, <3>2 DEF Orderly
    <3>4. j - 1 \in 1 .. Len(p.todo) /\ p.todo[j - 1] = q.todo[j]
      BY <1>2, <3>1, <2>7
    <3>5. QED
      BY <3>3, <3>4 DEF Allows
  <2>16. q.op.do \notin ServerWide
    <3>1. q.todo \in Seq(Instructions)
      BY <2>8 DEF Under
    <3>2. 1 \in 1 .. Len(q.todo) /\ IsFind(q.todo[1])
      BY <1>2, <3>1 DEF IsFind
    <3>3. QED
      BY <2>8, <3>2 DEF Under
  <2>11. Permitted(p) /\ Located(p, conversations) /\ Decided(p, runs) /\ Clean(p)
    <3>1. Clean(p)
      BY <1>2, <2>7 DEF Clean, Entitled, Excused, Good
    <3>2. QED
      BY <1>2, <2>3, <2>7, <2>9, <2>10, <2>15, <2>16, <3>1 DEF Permitted, Located, Decided, Good
  <2>12. Good(p, AuthEnabled, members, conversations, runs)
    BY <1>2, <2>7, <2>9, <2>11 DEF Good
  <2>13. Busy(req[s]) /\ p.op = req[s].op /\ p.rival = req[s].rival
    BY <1>1, <2>7 DEF At, q
  <2>14. QED
    BY <1>1, <1>5, <2>12, <2>13, OwnStep DEF p
<1>6. QED
  BY <1>3, <1>4, <1>5

\* What the decision becomes is settled against the clock before it is recorded.
LEMMA ReadStep ==
  ASSUME IndInv, NEW s \in Slots, ReadPending(s)
  PROVE  IndInv'
<1> DEFINE q == req[s]
           r == q.op.run
           x == [decision |-> resolveEffectiveDecision(q.op.decision, runs[r].presentedAt, clock, ApprovalTimeout),
                 at |-> clock]
           k == [q EXCEPT !.pending = x]
<1>1. Kept /\ At(s, "readPending")
  BY DEF ReadPending, Kept, traffic, directory, work, rest
<1>2. /\ q \in Requests /\ q.todo # << >> /\ q.todo[1].do = "readPending"
      /\ Good(q, AuthEnabled, members, conversations, runs)
  BY <1>1, AtIs
<1>3. \/ req' = [req EXCEPT ![s] = End(q, 404)]
      \/ req' = [req EXCEPT ![s] = End(q, 409)]
      \/ req' = [req EXCEPT ![s] = Advance(k)] /\ r # None /\ runs[r].phase = "NEEDS_DECISION"
         /\ runs[r].op = q.op.operation
  BY DEF ReadPending, Become
<1>4. ASSUME NEW c \in Nat, req' = [req EXCEPT ![s] = End(q, c)] PROVE IndInv'
  <2>1. Keeps(q, End(q, c)) /\ Stopped(End(q, c).todo)
    BY <1>2, EndKeeps
  <2>2. QED
    BY <1>1, <1>4, <2>1, QuietStep
<1>5. CASE req' = [req EXCEPT ![s] = Advance(k)] /\ r # None /\ runs[r].phase = "NEEDS_DECISION"
           /\ runs[r].op = q.op.operation
  <2>1. q.op \in Ops /\ r \in Runs /\ q.op.decision \in {"approve", "deny", None}
    BY <1>2, <1>5, GatewayAssumption DEF Requests
  <2>2. clock \in Nat /\ runs[r].presentedAt \in Nat /\ ApprovalTimeout \in Nat
    BY <2>1, GatewayAssumption DEF IndInv, StateOk
  <2>3. x \in Pendings /\ x.at = clock
        /\ (x.decision = "approve" => clock - runs[r].presentedAt < ApprovalTimeout)
    <3> DEFINE d == resolveEffectiveDecision(q.op.decision, runs[r].presentedAt, clock, ApprovalTimeout)
    <3>1. d \in {"approve", "deny", None, "timeout-denied"}
          /\ (d = "approve" => clock - runs[r].presentedAt < ApprovalTimeout)
      BY <2>1, <2>2 DEF resolveEffectiveDecision
    <3>2. x = [decision |-> d, at |-> clock]
      OBVIOUS
    <3> HIDE DEF d
    <3>3. x \in [decision : {"approve", "deny", None, "timeout-denied"}, at : Nat] /\ x.at = clock /\ x.decision = d
      BY <2>2, <3>1, <3>2
    <3>4. QED
      BY <3>1, <3>3 DEF Pendings
  <2> HIDE DEF x
  <2>4. Same(q, k) /\ k.ws = q.ws /\ k.pending = x /\ k.wrote = q.wrote /\ k.shown = q.shown /\ k.todo = q.todo
    BY <1>2, <2>3, SetPending
  <2> HIDE DEF k
  <2>5. k \in Requests /\ k.todo # << >>
    BY <1>2, <2>4 DEF Same
  <2> DEFINE p == Advance(k)
  <2>6. Keeps(k, p) /\ p.todo = Tail(k.todo)
    BY <2>5, AdvanceKeeps
  <2> HIDE DEF p, q
  <2>7. p \in Requests /\ p.op = q.op /\ p.rival = q.rival /\ p.reach = q.reach /\ p.ws = q.ws /\ p.wrote = q.wrote
        /\ p.shown = q.shown /\ p.born = q.born /\ p.pending = x /\ p.todo = Tail(q.todo)
    BY <2>4, <2>6 DEF Keeps, Same
  <2>8. Under(q.todo, q.op)
    BY <1>2 DEF Good
  <2>9. /\ Under(p.todo, q.op)
        /\ Allows(p.todo) \/ IsAllow(q.todo[1]) <=> Allows(q.todo)
        /\ Finds(p.todo) \/ IsFind(q.todo[1]) <=> Finds(q.todo)
        /\ Shows(p.todo) \/ IsShow(q.todo[1]) <=> Shows(q.todo)
        /\ Uses(p.todo) \/ IsShow(q.todo[1]) \/ IsGated(q.todo[1]) <=> Uses(q.todo)
    BY <1>2, <2>7, <2>8, TailIs
  <2>10. /\ Allows(p.todo) <=> Allows(q.todo)
         /\ Finds(p.todo) <=> Finds(q.todo)
         /\ Shows(p.todo) => Shows(q.todo)
         /\ Uses(p.todo) => Uses(q.todo)
    BY <1>2, <2>9 DEF IsAllow, IsFind
  <2>11. Permitted(p) /\ Located(p, conversations) /\ Clean(p)
    BY <1>2, <2>7, <2>10 DEF Permitted, Located, Clean, Entitled, Excused, Good
  <2>12. Decided(p, runs)
    BY <1>5, <2>1, <2>3, <2>7 DEF Decided, q
  <2>13. Good(p, AuthEnabled, members, conversations, runs)
    BY <1>2, <2>7, <2>9, <2>11, <2>12 DEF Good
  <2>14. Busy(req[s]) /\ p.op = req[s].op /\ p.rival = req[s].rival
    BY <1>1, <2>7 DEF At, q
  <2>15. QED
    BY <1>1, <1>5, <2>13, <2>14, OwnStep DEF p
<1>6. QED
  BY <1>3, <1>4, <1>5

\* The decision is recorded.  The run it is recorded on is the one that was read, unless
\* another decision came first.
LEMMA CommitStep ==
  ASSUME IndInv, NEW s \in Slots, recordApprovalDecision(s)
  PROVE  IndInv'
<1> DEFINE q == req[s]
           r == q.op.run
           k == [q EXCEPT !.wrote = q.ws]
           phase == IF q.pending.decision = "approve" THEN "EXECUTING" ELSE "SYNTHESIZING"
           x == [run |-> r, op |-> runs[r].op, said |-> q.op.operation, rival |-> q.rival,
                 age |-> q.pending.at - runs[r].presentedAt]
<1>1. /\ At(s, "commitDecision")
      /\ UNCHANGED <<mix, clock, spaces, members, memberCounter, conversations>>
  BY DEF recordApprovalDecision, traffic, directory, rest
<1>2. /\ q \in Requests /\ q.todo # << >> /\ q.todo[1].do = "commitDecision" /\ Busy(req[s])
      /\ Good(q, AuthEnabled, members, conversations, runs)
  BY <1>1, AtIs DEF At
<1>3. CASE runs[r].phase # "NEEDS_DECISION"
  <2>1. Kept /\ req' = [req EXCEPT ![s] = End(q, 409)]
    BY <1>1, <1>3 DEF recordApprovalDecision, Kept, Become
  <2>2. Keeps(q, End(q, 409)) /\ Stopped(End(q, 409).todo)
    BY <1>2, EndKeeps
  <2>3. QED
    BY <1>1, <2>1, <2>2, QuietStep
<1>4. CASE runs[r].phase = "NEEDS_DECISION"
  <2>1. /\ runs' = [runs EXCEPT ![r].phase = phase]
        /\ ran' = IF q.pending.decision = "approve" THEN ran \cup {x} ELSE ran
        /\ req' = [req EXCEPT ![s] = Advance(k)]
    BY <1>4 DEF recordApprovalDecision, Become
  <2>2. r \in Runs /\ Decided(q, runs)
    BY <1>2 DEF Good, Decided
  <2>3. StateOk'
    <3>1. phase \in {"EXECUTING", "NEEDS_DECISION", "SYNTHESIZING"}
      OBVIOUS
    <3> HIDE DEF phase
    <3>2. runs' \in [Runs -> [phase : {"EXECUTING", "NEEDS_DECISION", "SYNTHESIZING"}, op : Int, presentedAt : Nat]]
      BY <2>1, <2>2, <3>1 DEF IndInv, StateOk
    <3>3. QED
      BY <1>1, <3>2 DEF IndInv, StateOk
  <2>4. RunsOnlyApproved'
    <3>1. q.pending.decision = "approve" /\ ~x.rival => x.op = x.said /\ x.age < ApprovalTimeout
      BY <1>2, <2>2 DEF Decided
    <3>2. RunsOnlyApproved
      BY DEF IndInv
    <3> HIDE DEF x
    <3>3. QED
      BY <2>1, <3>1, <3>2 DEF RunsOnlyApproved
  <2>5. IsGated(q.todo[1])
    BY <1>2 DEF IsGated
  <2>6. Good(k, AuthEnabled, members, conversations, runs) /\ k.todo = q.todo /\ k.op = q.op /\ k.rival = q.rival
    BY <1>2, <2>5, WroteGood
  <2> HIDE DEF k
  <2> DEFINE p == Advance(k)
  <2>7. k \in Requests
    BY <2>6 DEF Good
  <2>8. Keeps(k, p) /\ p.todo = Tail(k.todo)
    BY <1>2, <2>6, <2>7, AdvanceKeeps
  <2> HIDE DEF p
  <2>9. Good(p, AuthEnabled, members, conversations, runs)
    BY <1>2, <2>6, <2>8, PassGood
  <2>10. Decided(p, runs')
    <3>1. Under(k.todo, k.op)
      BY <2>6 DEF Good
    <3>2. ~(p.todo # << >> /\ p.todo[1].do = "commitDecision")
      BY <1>2, <2>6, <2>8, <3>1, TailIs
    <3>3. QED
      BY <3>2 DEF Decided
  <2>11. Good(p, AuthEnabled, members', conversations', runs')
    BY <1>1, <2>9, <2>10 DEF Good
  <2>12. ASSUME NEW t \in Slots \ {s}, req[t] # Idle
         PROVE  Good(req[t], AuthEnabled, members', conversations', runs')
    <3>1. Good(req[t], AuthEnabled, members, conversations, runs)
      BY <2>12 DEF IndInv, RequestsOk
    <3>2. Decided(req[t], runs')
      <4>1. SUFFICES ASSUME req[t].todo # << >>, req[t].todo[1].do = "commitDecision"
                     PROVE  req[t].op.run \in Runs /\ req[t].rival
        BY DEF Decided
      <4>2. req[t].op.run \in Runs /\ req[t] \in Requests
        BY <3>1, <4>1 DEF Good, Decided
      <4>3. Busy(req[t])
        BY <4>1, <4>2, SlotIs
      <4>4. req[t].op.do = "postDecision"
        <5>1. Under(req[t].todo, req[t].op) /\ req[t].todo \in Seq(Instructions)
          BY <3>1 DEF Good, Under
        <5>2. 1 \in 1 .. Len(req[t].todo)
          BY <4>1, <5>1
        <5>3. QED
          BY <4>1, <5>1, <5>2 DEF Under
      <4>5. q.op.do = "postDecision"
        <5>1. Under(q.todo, q.op) /\ q.todo \in Seq(Instructions)
          BY <1>2 DEF Good, Under
        <5>2. 1 \in 1 .. Len(q.todo)
          BY <1>2, <5>1
        <5>3. QED
          BY <1>2, <5>1, <5>2 DEF Under
      <4>6. Apart(req[s], req[t])
        BY <1>2, <4>3, <2>12 DEF IndInv, PairsOk
      <4>7. QED
        BY <4>2, <4>4, <4>5, <4>6 DEF Apart
    <3>3. QED
      BY <1>1, <3>1, <3>2 DEF Good
  <2>13. p.op = req[s].op /\ p.rival = req[s].rival
    BY <2>6, <2>8 DEF Keeps, Same
  <2>14. req' = [req EXCEPT ![s] = p]
    BY <2>1 DEF p
  <2>15. QED
    BY <1>1, <1>2, <2>3, <2>4, <2>11, <2>12, <2>13, <2>14, SlotStep
<1>5. QED
  BY <1>3, <1>4

\* The role found is a role or None.
LEMMA RoleTyped ==
  ASSUME NEW ms, Single(ms), NEW u, NEW w
  PROVE  roleOf(ms, u, w) \in Roles \cup {None}
<1>1. CASE \E m \in ms : m.user = u /\ m.ws = w
  <2>1. PICK m \in ms : m.user = u /\ m.ws = w
    BY <1>1
  <2>2. roleOf(ms, u, w) = m.role
    BY <2>1, MembershipFound DEF roleOf
  <2>3. m.role \in Roles \cup {None}
    BY <2>1 DEF Single, Memberships
  <2>4. QED
    BY <2>2, <2>3
<1>2. CASE \A m \in ms : ~(m.user = u /\ m.ws = w)
  BY <1>2, MembershipFound DEF roleOf
<1>3. QED
  BY <1>1, <1>2

\* Making somebody's own workspace takes nothing from a request under way.
LEMMA EnsuredGood ==
  ASSUME NEW auth, NEW ms, Single(ms), NEW cs, NEW rs, NEW q, Good(q, auth, ms, cs, rs), NEW u \in Users
  PROVE  Good(q, auth, ensurePersonalWorkspace(ms, u), cs, rs)
<1>1. q.op.user \in Users
  BY GatewayAssumption DEF Good, Requests
<1>2. \A w : effectiveRole(ensurePersonalWorkspace(ms, u), q.op.user, w) = effectiveRole(ms, q.op.user, w)
  BY <1>1, EnsuredRoles
<1>3. ReachIn(auth, ensurePersonalWorkspace(ms, u), q.op) = ReachIn(auth, ms, q.op)
  BY <1>2 DEF ReachIn
<1>4. QED
  BY <1>3 DEF Good

\* Membership and permission: the workspace the request is let into is one where its user
\* has the permission now.
LEMMA AllowStep ==
  ASSUME IndInv, NEW s \in Slots, AuthorizeRequest(s)
  PROVE  IndInv'
<1> DEFINE q == req[s]
           u == q.op.user
           own == ensurePersonalWorkspace(members, u)
           known == q.ws = None \/ q.ws \in spaces
           ms == IF AuthEnabled /\ known /\ q.ws \in {None, PersonalOf[u]} THEN own ELSE members
           w == IF q.ws = None THEN PersonalOf[u] ELSE q.ws
           role == IF AuthEnabled /\ ~known THEN None ELSE roleOf(ms, u, w)
           k == [q EXCEPT !.ws = w, !.role = role]
           perm == Instruction(q).permission
<1>1. /\ At(s, "allow")
      /\ UNCHANGED <<mix, clock, memberCounter, conversations, runs, ran>>
      /\ members' = ms
      /\ spaces' = IF ms = members THEN spaces ELSE spaces \cup {PersonalOf[u]}
  BY DEF AuthorizeRequest, traffic, work, rest
<1>2. /\ q \in Requests /\ q.todo # << >> /\ q.todo[1].do = "allow" /\ Busy(req[s])
      /\ Instruction(q) = q.todo[1] /\ q.todo[1] \in Instructions
      /\ Good(q, AuthEnabled, members, conversations, runs)
  BY <1>1, AtIs, SMTT(30) DEF At
<1>3. \/ req' = [req EXCEPT ![s] = Advance(k)] /\ requirePermission(AuthEnabled, role, perm)
      \/ req' = [req EXCEPT ![s] = Refuse(q, 403)]
  BY DEF AuthorizeRequest, Become
<1>4. q.op \in Ops /\ u \in Users /\ q.ws \in Workspaces \cup {None} /\ PersonalOf[u] \in Workspaces
  BY <1>2, GatewayAssumption DEF Requests, Workspaces
<1>5. Directory(spaces, members) /\ Single(members)
  BY DEF IndInv, StateOk, Directory, Single
<1>6. /\ Single(own)
      /\ own = members \/ own = members \cup {OwnRecord(u)}
  BY <1>4, <1>5, Ensured
<1>7. Single(ms) /\ (ms = members \/ ms = own)
  BY <1>5, <1>6
<1>8. Directory(spaces', members')
  <2> HIDE DEF own, ms
  <2>1. CASE ms = members
    BY <1>1, <1>5, <2>1
  <2>2. CASE ms # members
    <3>1. ms = members \cup {OwnRecord(u)} /\ spaces' = spaces \cup {PersonalOf[u]}
      BY <1>1, <1>6, <1>7, <2>2
    <3> HIDE DEF q, u
    <3>2. \A m \in ms : m.ws \in spaces'
      BY <1>4, <1>5, <3>1, OwnIs, SMTT(30) DEF Directory
    <3>3. QED
      BY <1>1, <1>4, <1>5, <1>7, <3>1, <3>2 DEF Directory, Single
  <2>3. QED
    BY <2>1, <2>2
<1>9. StateOk' /\ RunsOnlyApproved'
  BY <1>1, <1>8 DEF IndInv, StateOk, RunsOnlyApproved
<1>10. ASSUME NEW a, Good(a, AuthEnabled, members, conversations, runs)
       PROVE  Good(a, AuthEnabled, members', conversations', runs')
  BY <1>1, <1>4, <1>5, <1>7, <1>10, EnsuredGood
<1>11. \A t \in Slots \ {s} : req[t] # Idle => Good(req[t], AuthEnabled, members', conversations', runs')
  BY <1>10 DEF IndInv, RequestsOk
<1>12. CASE req' = [req EXCEPT ![s] = Refuse(q, 403)]
  <2> DEFINE p == Refuse(q, 403)
  <2>1. Keeps(q, p) /\ Stopped(p.todo)
    BY <1>2, RefuseKeeps
  <2> HIDE DEF p
  <2>2. Good(p, AuthEnabled, members, conversations, runs)
    BY <1>2, <2>1, StopGood
  <2>3. p.op = req[s].op /\ p.rival = req[s].rival /\ Good(p, AuthEnabled, members', conversations', runs')
    BY <1>10, <2>1, <2>2 DEF Keeps, Same
  <2>4. req' = [req EXCEPT ![s] = p] /\ mix' = mix
    BY <1>1, <1>12 DEF p
  <2>5. QED
    BY <1>2, <1>9, <1>11, <2>3, <2>4, SlotStep
<1>13. CASE req' = [req EXCEPT ![s] = Advance(k)] /\ requirePermission(AuthEnabled, role, perm)
  <2>1. Under(q.todo, q.op) /\ q.todo \in Seq(Instructions) /\ Orderly(q.todo)
    BY <1>2 DEF Good, Under
  <2>2. 1 \in 1 .. Len(q.todo) /\ IsAllow(q.todo[1])
    BY <1>2, <2>1 DEF IsAllow
  <2>3. perm = PermissionOf(q.op) /\ perm \in Permissions
    <3>1. q.todo[1].permission = PermissionOf(q.op)
      BY <2>1, <2>2 DEF Under
    <3>2. q.todo[1].permission \in Permissions
      BY <1>2 DEF Instructions, Plains
    <3>3. QED
      BY <1>2, <3>1, <3>2
  <2>4. PermissionOf(q.op) # None
    BY <2>3, GatewayAssumption
  <2>5. w \in Workspaces
    BY <1>4
  <2>6. requirePermission(AuthEnabled, effectiveRole(members, u, w), PermissionOf(q.op))
    <3>1. CASE AuthEnabled
      <4>1. role # None
        BY <1>13, <3>1 DEF requirePermission
      <4>5. known
        BY <3>1, <4>1
      <4>2. role = roleOf(ms, u, w)
        BY <4>5
      <4>3. roleOf(ms, u, w) = effectiveRole(members, u, w)
        <5>1. CASE w = PersonalOf[u]
          <6>1. q.ws \in {None, PersonalOf[u]}
            BY <5>1
          <6>2. ms = own
            BY <3>1, <4>5, <6>1
          <6>3. QED
            BY <6>2 DEF effectiveRole
        <5>2. CASE w # PersonalOf[u]
          <6>1. ms = members
            BY <3>1, <5>2
          <6>2. roleOf(members, u, w) = effectiveRole(members, u, w)
            BY <1>4, <1>5, <5>2, RoleElsewhere
          <6>3. QED
            BY <6>1, <6>2
        <5>3. QED
          BY <5>1, <5>2
      <4> HIDE DEF q, u, own, ms, w, role, perm
      <4>6. role = effectiveRole(members, u, w)
        BY <4>2, <4>3
      <4>7. requirePermission(AuthEnabled, role, perm)
        BY <1>13
      <4>4. QED
        BY <2>3, <4>6, <4>7, Zenon
    <3>2. CASE ~AuthEnabled
      BY <1>13, <2>3, <3>2 DEF requirePermission
    <3>3. QED
      BY <3>1, <3>2, SMTT(30)
  <2>7. w \in q.reach
    <3>1. w \in ReachIn(AuthEnabled, members, q.op)
      BY <2>4, <2>5, <2>6 DEF ReachIn
    <3>2. QED
      BY <1>2, <3>1 DEF Good
  <2>8. role \in Roles \cup {None}
    BY <1>7, RoleTyped
  <2>9. (w = q.ws \/ q.ws = None) /\ (q.ws = None => w = PersonalOf[q.op.user])
    OBVIOUS
  <2> HIDE DEF w, role
  <2>10. Same(q, k) /\ k.ws = w /\ k.pending = q.pending /\ k.wrote = q.wrote /\ k.shown = q.shown /\ k.todo = q.todo
    <3>1. k = [req[s] EXCEPT !.ws = w, !.role = role] /\ req[s] \in Requests /\ w \in Workspaces \cup {None}
      BY <1>2, <2>5
    <3> HIDE DEF k
    <3>2. ASSUME NEW a, a = req[s], NEW b, b = role, NEW v, v = w
          PROVE  Same(a, k) /\ k.ws = v /\ k.pending = a.pending /\ k.wrote = a.wrote /\ k.shown = a.shown
                 /\ k.todo = a.todo
      <4>1. k = [a EXCEPT !.ws = v, !.role = b] /\ a \in Requests /\ b \in Roles \cup {None}
            /\ v \in Workspaces \cup {None}
        BY <2>8, <3>1, <3>2
      <4>2. QED
        BY <4>1 DEF Requests, Same
    <3>3. QED
      BY <3>2
  <2> HIDE DEF k
  <2>11. k \in Requests /\ k.todo # << >>
    BY <1>2, <2>10 DEF Same
  <2> DEFINE p == Advance(k)
  <2>12. Keeps(k, p) /\ p.todo = Tail(k.todo)
    BY <2>11, AdvanceKeeps
  <2> HIDE DEF p, q
  <2>13. p \in Requests /\ p.op = q.op /\ p.rival = q.rival /\ p.reach = q.reach /\ p.ws = w /\ p.wrote = q.wrote
         /\ p.shown = q.shown /\ p.born = q.born /\ p.todo = Tail(q.todo)
    BY <2>10, <2>12 DEF Keeps, Same
  <2>14. /\ Under(p.todo, q.op)
         /\ Shows(p.todo) \/ IsShow(q.todo[1]) <=> Shows(q.todo)
         /\ p.todo # << >> /\ p.todo[1].do = "commitDecision" => q.todo[1].do = "readPending"
    BY <1>2, <2>1, <2>13, TailIs
  <2>15. Allows(q.todo) /\ ~Finds(q.todo) /\ ~Allows(p.todo)
    <3>1. Len(q.todo) \in Nat /\ \A i \in 1 .. Len(p.todo) : i + 1 \in 1 .. Len(q.todo) /\ i + 1 > 1
          /\ p.todo[i] = q.todo[i + 1]
      BY <1>2, <2>1, <2>13
    <3>2. \A i \in 1 .. Len(q.todo) : 1 < i => ~IsAllow(q.todo[i]) /\ ~IsFind(q.todo[i])
      BY <2>1, <2>2 DEF Orderly
    <3>3. \A i \in 1 .. Len(q.todo) : i = 1 \/ 1 < i
      BY <3>1
    <3>4. ~IsFind(q.todo[1])
      BY <1>2 DEF IsFind
    <3>5. QED
      BY <2>2, <3>1, <3>2, <3>3, <3>4 DEF Allows, Finds
  <2>16. Permitted(p) /\ Decided(p, runs) /\ Clean(p)
    <3>1. Permitted(p)
      BY <1>2, <2>7, <2>9, <2>13 DEF Permitted, Good
    <3>2. Decided(p, runs)
      BY <1>2, <2>13, <2>14 DEF Decided
    <3>3. Clean(p)
      BY <1>2, <2>13 DEF Clean, Entitled, Excused, Good
    <3>4. QED
      BY <3>1, <3>2, <3>3
  <2>17. Located(p, conversations)
    BY <1>2, <2>9, <2>13, <2>14, <2>15 DEF Located, Good
  <2>18. Good(p, AuthEnabled, members, conversations, runs)
    BY <1>2, <2>13, <2>14, <2>16, <2>17 DEF Good
  <2>19. Good(p, AuthEnabled, members', conversations', runs')
    BY <1>10, <2>18
  <2>20. req' = [req EXCEPT ![s] = p] /\ mix' = mix /\ p.op = req[s].op /\ p.rival = req[s].rival
    BY <1>1, <1>13, <2>13 DEF p, q
  <2>21. QED
    BY <1>2, <1>9, <1>11, <2>19, <2>20, SlotStep
<1>14. QED
  BY <1>3, <1>12, <1>13, SMTT(30)

(***************************************************************************)
(* Steps that change the directory: every request under way is shown the   *)
(* new one.                                                                *)
(***************************************************************************)
\* The history makes a request good for the new directory.
LEMMA WatchedGood ==
  ASSUME NEW auth, NEW ms, NEW ns, NEW cs, NEW rs, NEW q, Good(q, auth, ms, cs, rs),
         NEW p, p = [q EXCEPT !.reach = q.reach \cup ReachIn(auth, ns, q.op)]
  PROVE  Good(p, auth, ns, cs, rs) /\ p.op = q.op /\ p.rival = q.rival /\ p.todo = q.todo
<1>1. q \in Requests /\ ReachIn(auth, ns, q.op) \in SUBSET Workspaces
  BY DEF Good, ReachIn
<1>2. p \in Requests /\ p.op = q.op /\ p.todo = q.todo /\ p.rival = q.rival
      /\ p.reach = q.reach \cup ReachIn(auth, ns, q.op)
      /\ p.ws = q.ws /\ p.pending = q.pending /\ p.wrote = q.wrote /\ p.shown = q.shown /\ p.born = q.born
  BY <1>1, SetReach
<1>3. Permitted(p) /\ Located(p, cs) /\ Decided(p, rs)
  BY <1>2 DEF Good, Permitted, Located, Decided
<1>5. Entitled(q) \subseteq Entitled(p) /\ Excused(q) = Excused(p)
  <2>1. q.reach \subseteq Workspaces
    BY <1>1 DEF Requests
  <2>2. QED
    BY <1>2, <2>1 DEF Entitled, Excused
<1>6. Clean(p)
  BY <1>2, <1>5 DEF Good, Clean
<1>4. QED
  BY <1>1, <1>2, <1>3, <1>6 DEF Good

\* One request moves on, and all of them see the new directory.
LEMMA WatchStep ==
  ASSUME IndInv, NEW s \in Slots, Busy(req[s]),
         NEW after, after.op = req[s].op, after.rival = req[s].rival,
         Good(after, AuthEnabled, members, conversations, runs),
         NEW ns, members' = ns, req' = Watching(ns, [req EXCEPT ![s] = after]),
         Directory(spaces', ns), memberCounter' \in Int,
         UNCHANGED <<mix, clock, conversations, runs, ran>>
  PROVE  IndInv'
<1> DEFINE r == [req EXCEPT ![s] = after]
<1>1. /\ after \in Requests /\ req \in [Slots -> Requests \cup {Idle}]
  BY DEF Good, IndInv, RequestsOk
<1>2. r \in [Slots -> Requests \cup {Idle}] /\ r[s] = after /\ \A t \in Slots \ {s} : r[t] = req[t]
  BY <1>1
<1> HIDE DEF r
<1>3. \A t \in Slots : r[t] # Idle => Good(r[t], AuthEnabled, members, conversations, runs)
  BY <1>2 DEF IndInv, RequestsOk
<1>4. req' = [t \in Slots |-> IF Busy(r[t]) THEN [r[t] EXCEPT !.reach = @ \cup Reach(ns, r[t])] ELSE r[t]]
  BY DEF Watching, r
<1>5. ASSUME NEW t \in Slots
      PROVE  /\ req'[t] \in Requests \cup {Idle}
             /\ req'[t] = Idle <=> r[t] = Idle
             /\ req'[t] # Idle => Good(req'[t], AuthEnabled, ns, conversations, runs)
             /\ Busy(req'[t]) <=> Busy(r[t])
             /\ Busy(r[t]) => req'[t].op = r[t].op /\ req'[t].rival = r[t].rival
  <2>1. CASE Busy(r[t])
    <3>1. r[t] \in Requests /\ r[t] # Idle /\ r[t].todo # << >>
      BY <1>2, <2>1, SlotIs
    <3>2. req'[t] = [r[t] EXCEPT !.reach = r[t].reach \cup ReachIn(AuthEnabled, ns, r[t].op)]
      BY <1>4, <2>1, ReachIs
    <3>3. ASSUME NEW a, a = r[t], NEW b, b = req'[t]
          PROVE  Good(b, AuthEnabled, ns, conversations, runs) /\ b.op = a.op /\ b.rival = a.rival /\ b.todo = a.todo
      <4>1. b = [a EXCEPT !.reach = a.reach \cup ReachIn(AuthEnabled, ns, a.op)]
        BY <3>2, <3>3
      <4>2. Good(a, AuthEnabled, members, conversations, runs)
        BY <1>3, <3>1, <3>3
      <4>3. QED
        BY <4>1, <4>2, WatchedGood
    <3>4. req'[t] \in Requests
      BY <3>3 DEF Good
    <3>5. QED
      BY <2>1, <3>1, <3>3, <3>4, SlotIs
  <2>2. CASE ~Busy(r[t])
    <3>1. req'[t] = r[t]
      BY <1>4, <2>2
    <3>2. r[t] # Idle => r[t] \in Requests /\ r[t].todo = << >>
      BY <1>2, <2>2, SlotIs
    <3>3. r[t] # Idle => Good(r[t], AuthEnabled, ns, conversations, runs)
      BY <1>3, <3>2 DEF Good
    <3>4. QED
      BY <1>2, <2>2, <3>1, <3>3
  <2>3. QED
    BY <2>1, <2>2
<1>6. AuthEnabled' = AuthEnabled /\ conversations' = conversations /\ runs' = runs
  BY DEF AuthEnabled
<1>7. StateOk' /\ RunsOnlyApproved'
  BY DEF IndInv, StateOk, RunsOnlyApproved
<1>8. req' \in [Slots -> Requests \cup {Idle}]
  BY <1>4, <1>5
<1>9. RequestsOk'
  BY <1>5, <1>6, <1>8 DEF RequestsOk
<1>10. PairsOk'
  <2>1. SUFFICES ASSUME NEW t \in Slots, NEW v \in Slots, t # v, Busy(req'[t]), Busy(req'[v])
                 PROVE  Apart(req'[t], req'[v])
    BY DEF PairsOk, Busy, Apart
  <2>2. Busy(r[t]) /\ Busy(r[v])
    BY <1>5, <2>1
  <2>3. Busy(req[t]) /\ Busy(req[v]) /\ r[t].op = req[t].op /\ r[t].rival = req[t].rival
        /\ r[v].op = req[v].op /\ r[v].rival = req[v].rival
    BY <1>2, <2>2
  <2>4. Apart(req[t], req[v])
    BY <2>1, <2>3 DEF IndInv, PairsOk
  <2>5. QED
    BY <1>5, <2>2, <2>3, <2>4 DEF Apart
<1>11. QED
  BY <1>7, <1>9, <1>10 DEF IndInv

\* Roles are changed in place: the memberships are of the same users and workspaces.
LEMMA Regraded ==
  ASSUME NEW sp, NEW ms, Directory(sp, ms), NEW f,
         \A m \in ms : f[m] \in Memberships /\ f[m].user = m.user /\ f[m].ws = m.ws,
         NEW ns, ns = {f[m] : m \in ms}
  PROVE  Directory(sp, ns)
<1>1. ns \subseteq Memberships /\ \A n \in ns : n.ws \in sp
  BY DEF Directory
<1>2. ASSUME NEW a \in ns, NEW b \in ns, a.user = b.user, a.ws = b.ws PROVE a = b
  <2>1. PICK m \in ms : a = f[m]
    OBVIOUS
  <2>2. PICK n \in ms : b = f[n]
    OBVIOUS
  <2>3. m = n
    BY <1>2, <2>1, <2>2 DEF Directory
  <2>4. QED
    BY <2>1, <2>2, <2>3
<1>3. QED
  BY <1>1, <1>2 DEF Directory

\* A membership with another role.
LEMMA Graded ==
  ASSUME NEW m \in Memberships, NEW g \in Roles \cup {None}, NEW n, n = [m EXCEPT !.role = g]
  PROVE  n \in Memberships /\ n.user = m.user /\ n.ws = m.ws
BY DEF Memberships

\* A member added is a new one or a new role of the one there is.
LEMMA AddedDirectory ==
  ASSUME NEW sp, NEW ms, Directory(sp, ms), NEW q \in Requests, q.ws \in sp, memberCounter \in Int
  PROVE  Directory(sp, addMembership(ms, q))
<1> DEFINE v == q.op.target
           g == q.op.grant
           w == q.ws
<1>1. v \in Users \cup {None} /\ g \in Roles \cup {None} /\ w \in Workspaces /\ Single(ms)
  BY GatewayAssumption DEF Requests, Directory, Single
<1>2. CASE MembershipIn(ms, v, w) = None
  <2> DEFINE n == [id |-> memberCounter + 1, ws |-> w, user |-> v, role |-> g]
  <2>1. addMembership(ms, q) = ms \cup {n}
    BY <1>2 DEF addMembership
  <2>2. memberCounter + 1 \in Int
    OBVIOUS
  <2> HIDE DEF v, g, w
  <2>3. n \in Memberships /\ n.ws = w /\ n.user = v
    BY <1>1, <2>2 DEF Memberships
  <2>4. \A m \in ms : ~(m.user = v /\ m.ws = w)
    BY <1>1, <1>2, MembershipFound
  <2> HIDE DEF n
  <2>5. w \in sp
    BY DEF w
  <2>6. QED
    BY <2>1, <2>3, <2>4, <2>5 DEF Directory
<1>3. CASE MembershipIn(ms, v, w) # None
  <2> DEFINE f == [m \in ms |-> IF m.user = v /\ m.ws = w THEN [m EXCEPT !.role = g] ELSE m]
  <2>1. addMembership(ms, q) = {f[m] : m \in ms}
    BY <1>3 DEF addMembership
  <2>2. ASSUME NEW m \in ms PROVE f[m] \in Memberships /\ f[m].user = m.user /\ f[m].ws = m.ws
    <3>1. m \in Memberships
      BY DEF Directory
    <3>2. QED
      BY <1>1, <3>1, Graded
  <2> HIDE DEF f
  <2>3. QED
    BY <2>1, <2>2, Regraded
<1>4. QED
  BY <1>2, <1>3

\* A request that passes a step, is answered early, or passes a change, is as good as before.
LEMMA Advanced ==
  ASSUME NEW auth, NEW ms, NEW cs, NEW rs, NEW q, Good(q, auth, ms, cs, rs), q.todo # << >>,
         q.todo[1].do \notin {"allow", "find", "readPending"}, NEW p, p = Advance(q)
  PROVE  Good(p, auth, ms, cs, rs) /\ p.op = q.op /\ p.rival = q.rival
<1>1. q \in Requests
  BY DEF Good
<1>2. Keeps(q, p) /\ p.todo = Tail(q.todo)
  BY <1>1, AdvanceKeeps
<1>3. QED
  BY <1>2, PassGood DEF Keeps, Same

\* The same for an early answer.
LEMMA Ended ==
  ASSUME NEW auth, NEW ms, NEW cs, NEW rs, NEW q, Good(q, auth, ms, cs, rs), q.todo # << >>,
         NEW c \in Nat, NEW p, p = End(q, c)
  PROVE  Good(p, auth, ms, cs, rs) /\ p.op = q.op /\ p.rival = q.rival
<1>1. q \in Requests
  BY DEF Good
<1>2. Keeps(q, p) /\ Stopped(p.todo)
  BY <1>1, EndKeeps
<1>3. QED
  BY <1>2, StopGood DEF Keeps, Same

\* The same for a change that is recorded as written.
LEMMA Written ==
  ASSUME NEW auth, NEW ms, NEW cs, NEW rs, NEW q, Good(q, auth, ms, cs, rs), q.todo # << >>, IsGated(q.todo[1]),
         NEW p, p = Advance([q EXCEPT !.wrote = q.ws])
  PROVE  Good(p, auth, ms, cs, rs) /\ p.op = q.op /\ p.rival = q.rival
<1> DEFINE k == [q EXCEPT !.wrote = q.ws]
<1>1. Good(k, auth, ms, cs, rs) /\ k.todo = q.todo /\ k.op = q.op /\ k.rival = q.rival
  BY WroteGood
<1>2. p = Advance(k) /\ q.todo[1].do \notin {"allow", "find", "readPending"}
  BY DEF IsGated
<1> HIDE DEF k
<1>3. QED
  BY <1>1, <1>2, Advanced

\* Members are added, given another role, removed.
LEMMA MembersStep ==
  ASSUME IndInv, NEW s \in Slots, ChangeMembers(s)
  PROVE  IndInv'
<1> DEFINE q == req[s]
           what == Instruction(q).what
           known == \E m \in members : m.id = q.op.member
           lost == what = "addMembership" /\ q.ws \notin spaces
           new == CASE lost -> members
                    [] what = "addMembership" /\ ~lost -> addMembership(members, q)
                    [] what = "updateMembershipRole" -> updateMembershipRole(members, q)
                    [] what = "removeMembership" -> removeMembership(members, q)
           after == CASE lost -> End(q, 400)
                      [] what = "updateMembershipRole" /\ ~known -> End(q, 404)
                      [] OTHER -> Advance(IF what = "removeMembership" /\ ~known THEN q ELSE [q EXCEPT !.wrote = q.ws])
<1>1. /\ At(s, "effect") /\ what \in {"addMembership", "updateMembershipRole", "removeMembership"}
      /\ UNCHANGED <<mix, clock, conversations, runs, ran>> /\ spaces' = spaces
      /\ members' = new /\ memberCounter' \in {memberCounter, memberCounter + 1}
      /\ req' = Watching(new, [req EXCEPT ![s] = after])
  BY DEF ChangeMembers, traffic, work, rest
<1>2. /\ q \in Requests /\ q.todo # << >> /\ q.todo[1].do = "effect" /\ Busy(req[s])
      /\ Instruction(q) = q.todo[1]
      /\ Good(q, AuthEnabled, members, conversations, runs)
  BY <1>1, AtIs DEF At
<1>3. Directory(spaces, members) /\ memberCounter \in Int
  BY DEF IndInv, StateOk
<1>4. Directory(spaces, new)
  <2>1. CASE lost
    BY <1>3, <2>1
  <2>2. CASE what = "addMembership" /\ ~lost
    <3>1. new = addMembership(members, q) /\ q.ws \in spaces
      BY <2>2
    <3>2. QED
      BY <1>2, <1>3, <3>1, AddedDirectory
  <2>3. CASE what = "updateMembershipRole"
    <3> DEFINE f == [m \in members |-> IF m.id = q.op.member THEN [m EXCEPT !.role = q.op.grant] ELSE m]
    <3>1. new = {f[m] : m \in members}
      BY <2>3 DEF updateMembershipRole
    <3>2. q.op.grant \in Roles \cup {None}
      BY <1>2, GatewayAssumption DEF Requests
    <3>3. ASSUME NEW m \in members PROVE f[m] \in Memberships /\ f[m].user = m.user /\ f[m].ws = m.ws
      <4>1. m \in Memberships
        BY <1>3 DEF Directory
      <4>2. QED
        BY <3>2, <4>1, Graded
    <3> HIDE DEF f, new
    <3>4. QED
      BY <1>3, <3>1, <3>3, Regraded
  <2>4. CASE what = "removeMembership"
    <3>1. new = {m \in members : m.id # q.op.member}
      BY <2>4 DEF removeMembership
    <3> HIDE DEF new
    <3>2. QED
      BY <1>3, <3>1 DEF Directory
  <2>5. QED
    BY <1>1, <2>1, <2>2, <2>3, <2>4
<1>5. Good(after, AuthEnabled, members, conversations, runs) /\ after.op = q.op /\ after.rival = q.rival
  <2>0. q.todo[1].do = "effect" /\ q.todo[1].what \in {"addMembership", "updateMembershipRole", "removeMembership"}
    BY <1>1, <1>2
  <2>1. IsGated(q.todo[1]) /\ q.todo[1].do \notin {"allow", "find", "readPending"}
    BY <2>0 DEF IsGated
  <2>2. \/ after = End(q, 400) \/ after = End(q, 404) \/ after = Advance(q)
        \/ after = Advance([q EXCEPT !.wrote = q.ws])
    OBVIOUS
  <2> HIDE DEF after
  <2>3. QED
    BY <1>2, <2>1, <2>2, Advanced, Ended, Written, SMTT(30)
<1> HIDE DEF new, after
<1>6. memberCounter' \in Int
  BY <1>1, <1>3
<1>7. QED
  BY <1>1, <1>2, <1>4, <1>5, <1>6, WatchStep

\* A set of naturals that is not empty has a least element.
LEMMA LeastId ==
  ASSUME NEW T \in SUBSET Nat, T # {}
  PROVE  \E m \in T : \A n \in T : m <= n
<1>1. \E m \in T : \A n \in T : ~(<<n, m>> \in OpToRel(<, Nat))
  BY WFMin, NatLessThanWellFounded
<1>2. ASSUME NEW m \in T, NEW n \in T, ~(<<n, m>> \in OpToRel(<, Nat))
      PROVE  m <= n
  <2>1. ~(n < m)
    BY <1>2 DEF OpToRel
  <2>2. QED
    BY <2>1
<1>3. QED
  BY <1>1, <1>2

\* A new workspace has an id of its own.
LEMMA NewWorkspace ==
  ASSUME NEW sp, FreeIds(sp) # {}
  PROVE  nextWorkspaceId(sp) \in Workspaces /\ nextWorkspaceId(sp) \notin sp
<1>1. FreeIds(sp) \subseteq 1 .. MaxWorkspaces /\ FreeIds(sp) \in SUBSET Nat /\ \A x \in FreeIds(sp) : x \notin sp
  BY GatewayAssumption DEF FreeIds
<1>2. \E m \in FreeIds(sp) : \A n \in FreeIds(sp) : m <= n
  BY <1>1, LeastId
<1>3. nextWorkspaceId(sp) \in FreeIds(sp)
  BY <1>2 DEF nextWorkspaceId
<1>4. QED
  BY <1>1, <1>3 DEF Workspaces

\* A workspace is made, with its owner; only the handler of that route makes one, and it
\* neither asks for a permission nor shows anything.
LEMMA SpaceStep ==
  ASSUME IndInv, NEW s \in Slots, createWorkspace(s)
  PROVE  IndInv'
<1> DEFINE q == req[s]
           w == nextWorkspaceId(spaces)
           n == [id |-> memberCounter + 1, ws |-> w, user |-> q.op.user, role |-> "owner"]
           new == members \cup {n}
           k == [q EXCEPT !.ws = w]
           p == Advance(k)
<1>1. /\ At(s, "effect") /\ Instruction(q).what = "createWorkspace" /\ FreeIds(spaces) # {}
      /\ UNCHANGED <<mix, clock, conversations, runs, ran>> /\ spaces' = spaces \cup {w}
      /\ members' = new /\ memberCounter' = memberCounter + 1
      /\ req' = Watching(new, [req EXCEPT ![s] = p])
  BY DEF createWorkspace, traffic, work, rest
<1>2. /\ q \in Requests /\ q.todo # << >> /\ q.todo[1].do = "effect" /\ Busy(req[s])
      /\ Instruction(q) = q.todo[1]
      /\ Good(q, AuthEnabled, members, conversations, runs)
  BY <1>1, AtIs DEF At
<1>3. Directory(spaces, members) /\ memberCounter \in Int /\ memberCounter + 1 \in Int
  BY DEF IndInv, StateOk
<1>4. w \in Workspaces /\ w \notin spaces
  BY <1>1, NewWorkspace
<1>5. q.op \in Ops /\ q.op.user \in Users /\ "owner" \in Roles
  BY <1>2, GatewayAssumption DEF Requests, Roles, ROLE_PERMISSIONS
<1> HIDE DEF w
<1>6. Directory(spaces', new) /\ memberCounter' \in Int
  <2>1. n \in Memberships /\ n.ws = w
    BY <1>3, <1>4, <1>5 DEF Memberships
  <2> HIDE DEF n
  <2>2. \A m \in members : m.ws # w
    BY <1>3, <1>4 DEF Directory
  <2>3. Directory(spaces \cup {w}, new)
    BY <1>3, <1>4, <2>1, <2>2 DEF Directory
  <2>4. QED
    BY <1>1, <1>3, <2>3
<1> HIDE DEF n, new
<1>7. Same(q, k) /\ k.ws = w /\ k.pending = q.pending /\ k.wrote = q.wrote /\ k.shown = q.shown /\ k.todo = q.todo
  BY <1>2, <1>4, SetWs
<1> HIDE DEF k
<1>8. k \in Requests /\ k.todo # << >>
  BY <1>2, <1>7 DEF Same
<1>9. Keeps(k, p) /\ p.todo = Tail(k.todo)
  BY <1>8, AdvanceKeeps
<1> HIDE DEF p
<1>10. p \in Requests /\ p.op = q.op /\ p.rival = q.rival /\ p.reach = q.reach /\ p.wrote = q.wrote
       /\ p.shown = q.shown /\ p.born = q.born /\ p.todo = Tail(q.todo)
  BY <1>7, <1>9 DEF Keeps, Same
<1>11. Under(q.todo, q.op)
  BY <1>2 DEF Good
<1>12. q.todo[1].do = "effect" /\ q.todo[1].what = "createWorkspace"
  BY <1>1, <1>2
<1>13. q.op.do = "postWorkspaces" /\ PermissionOf(q.op) = None
  <2>1. q.todo \in Seq(Instructions)
    BY <1>11 DEF Under
  <2>2. 1 \in 1 .. Len(q.todo)
    BY <1>2, <2>1
  <2>3. QED
    BY <1>11, <1>12, <2>2 DEF Under, IsEffect
<1> HIDE DEF q
<1>14. /\ Under(p.todo, q.op)
       /\ p.todo # << >> /\ p.todo[1].do = "commitDecision" => q.todo[1].do = "readPending"
  BY <1>2, <1>10, <1>11, TailIs
<1>15. ~Shows(p.todo)
  BY <1>13, <1>14 DEF Under, Shows
<1>20. Clean(p)
  BY <1>2, <1>10 DEF Clean, Entitled, Excused, Good
<1>16. Permitted(p) /\ Located(p, conversations) /\ Decided(p, runs) /\ Clean(p)
  BY <1>2, <1>10, <1>12, <1>13, <1>14, <1>15, <1>20 DEF Permitted, ServerWide, Located, Decided, Good
<1>17. Good(p, AuthEnabled, members, conversations, runs)
  BY <1>2, <1>10, <1>14, <1>16 DEF Good
<1>18. p.op = req[s].op /\ p.rival = req[s].rival
  BY <1>10 DEF q
<1>19. QED
  BY <1>1, <1>2, <1>6, <1>17, <1>18, WatchStep

\* A step behind which nothing is recorded as written.
LEMMA Unwritten ==
  ASSUME NEW auth, NEW ms, NEW cs, NEW rs, NEW q, Good(q, auth, ms, cs, rs), q.todo # << >>,
         q.todo[1].do \notin {"allow", "find", "readPending"},
         NEW p, p = Advance([q EXCEPT !.wrote = None])
  PROVE  Good(p, auth, ms, cs, rs) /\ p.op = q.op /\ p.rival = q.rival
<1> DEFINE k == [q EXCEPT !.wrote = None]
<1>1. q \in Requests /\ None \in Workspaces \cup {None}
  BY DEF Good
<1>2. Same(q, k) /\ k.ws = q.ws /\ k.pending = q.pending /\ k.wrote = None /\ k.shown = q.shown /\ k.todo = q.todo
  BY <1>1, SetWrote
<1>3. p = Advance(k)
  OBVIOUS
<1> HIDE DEF k
<1>4. Permitted(k) /\ Located(k, cs) /\ Decided(k, rs) /\ Clean(k)
  BY <1>2 DEF Good, Permitted, Located, Decided, Clean, Entitled, Excused, Same
<1>5. Good(k, auth, ms, cs, rs) /\ k.op = q.op /\ k.rival = q.rival
  BY <1>2, <1>4 DEF Good, Same
<1>6. QED
  BY <1>2, <1>3, <1>5, Advanced

\* The history makes a request good for a conversation that was not there.
LEMMA BornGood ==
  ASSUME NEW auth, NEW ms, NEW cs, NEW ds, NEW rs, NEW q, Good(q, auth, ms, cs, rs), NEW c, NEW w \in Workspaces,
         cs[c] = None, ds[c] = w, \A d \in Conversations : d # c => ds[d] = cs[d],
         NEW p, p = [q EXCEPT !.born = q.born \cup {w}]
  PROVE  Good(p, auth, ms, ds, rs) /\ p.op = q.op /\ p.rival = q.rival /\ p.todo = q.todo
<1>1. q \in Requests
  BY DEF Good
<1>2. p \in Requests /\ p.op = q.op /\ p.todo = q.todo /\ p.rival = q.rival /\ p.born = q.born \cup {w}
      /\ p.ws = q.ws /\ p.pending = q.pending /\ p.wrote = q.wrote /\ p.shown = q.shown /\ p.reach = q.reach
  BY <1>1, SetBorn
<1>3. Permitted(p) /\ Decided(p, rs) /\ Clean(p)
  BY <1>2 DEF Good, Permitted, Decided, Clean, Entitled, Excused
<1>4. HomeOfTarget(q.op) \in Conversations \cup {None}
  <2>1. q.op \in Ops
    BY <1>1 DEF Requests
  <2>2. QED
    BY <2>1, GatewayAssumption DEF HomeOfTarget
<1>5. Located(p, ds)
  <2>1. Located(q, cs)
    BY DEF Good
  <2>2. QED
    BY <1>2, <1>4, <2>1 DEF Located
<1>6. QED
  BY <1>2, <1>3, <1>5 DEF Good

\* A conversation is made, in the workspace of the request: it is new to all of them.
LEMMA ConversationStep ==
  ASSUME IndInv, NEW s \in Slots, createConversation(s)
  PROVE  IndInv'
<1> DEFINE q == req[s]
           w == q.ws
           after == Advance([q EXCEPT !.wrote = q.ws])
           r == [req EXCEPT ![s] = after]
<1>1. /\ At(s, "effect") /\ Instruction(q).what = "createConversation"
      /\ UNCHANGED <<mix, clock, spaces, members, memberCounter, runs, ran>>
      /\ req' = Bearing(w, r)
  BY DEF createConversation, traffic, directory, rest
<1>2. PICK c \in Conversations : conversations[c] = None /\ conversations' = [conversations EXCEPT ![c] = w]
  BY DEF createConversation
<1>3. /\ q \in Requests /\ q.todo # << >> /\ q.todo[1].do = "effect" /\ Busy(req[s])
      /\ Instruction(q) = q.todo[1]
      /\ Good(q, AuthEnabled, members, conversations, runs)
  BY <1>1, AtIs DEF At
<1>4. IsGated(q.todo[1])
  <2>1. q.todo[1].do = "effect" /\ q.todo[1].what = "createConversation"
    BY <1>1, <1>3
  <2>2. QED
    BY <2>1 DEF IsGated
<1>5. w \in Workspaces
  <2>1. w \in q.reach
    BY <1>3, <1>4, Behind
  <2>2. q.reach \subseteq Workspaces
    BY <1>3 DEF Requests
  <2>3. QED
    BY <2>1, <2>2
<1>6. Good(after, AuthEnabled, members, conversations, runs) /\ after.op = q.op /\ after.rival = q.rival
  <2> HIDE DEF q
  <2>1. after = Advance([q EXCEPT !.wrote = q.ws])
    OBVIOUS
  <2> HIDE DEF after
  <2>2. Good(q, AuthEnabled, members, conversations, runs) /\ q.todo # << >> /\ IsGated(q.todo[1])
    BY <1>3, <1>4
  <2>3. QED
    BY ONLY <2>1, <2>2, Written
<1> HIDE DEF after, w
<1>7. conversations \in [Conversations -> Workspaces \cup {None}]
  BY DEF IndInv, StateOk
<1>8. /\ conversations' \in [Conversations -> Workspaces \cup {None}] /\ conversations'[c] = w
      /\ \A d \in Conversations : d # c => conversations'[d] = conversations[d]
  BY <1>2, <1>5, <1>7
<1>9. StateOk' /\ RunsOnlyApproved'
  BY <1>1, <1>8 DEF IndInv, StateOk, RunsOnlyApproved
<1>10. after \in Requests /\ req \in [Slots -> Requests \cup {Idle}]
  BY <1>6 DEF Good, IndInv, RequestsOk
<1>11. r \in [Slots -> Requests \cup {Idle}] /\ r[s] = after /\ \A t \in Slots \ {s} : r[t] = req[t]
  BY <1>10
<1>12. req' = [t \in Slots |-> IF Busy(r[t]) THEN [r[t] EXCEPT !.born = @ \cup {w}] ELSE r[t]]
  BY <1>1 DEF Bearing
<1> HIDE DEF r
<1>13. \A t \in Slots : r[t] # Idle => Good(r[t], AuthEnabled, members, conversations, runs)
  BY <1>6, <1>11 DEF IndInv, RequestsOk
<1>14. ASSUME NEW t \in Slots
       PROVE  /\ req'[t] \in Requests \cup {Idle}
              /\ req'[t] = Idle <=> r[t] = Idle
              /\ req'[t] # Idle => Good(req'[t], AuthEnabled, members, conversations', runs)
              /\ Busy(req'[t]) <=> Busy(r[t])
              /\ Busy(r[t]) => req'[t].op = r[t].op /\ req'[t].rival = r[t].rival
  <2>1. CASE Busy(r[t])
    <3>1. r[t] \in Requests /\ r[t] # Idle /\ r[t].todo # << >>
      BY <1>11, <2>1, SlotIs
    <3>2. req'[t] = [r[t] EXCEPT !.born = r[t].born \cup {w}]
      BY <1>12, <2>1
    <3>3. ASSUME NEW a, a = r[t], NEW b, b = req'[t], NEW cs, cs = conversations, NEW ds, ds = conversations'
          PROVE  Good(b, AuthEnabled, members, ds, runs) /\ b.op = a.op /\ b.rival = a.rival /\ b.todo = a.todo
      <4>1. b = [a EXCEPT !.born = a.born \cup {w}]
        BY <3>2, <3>3
      <4>2. Good(a, AuthEnabled, members, cs, runs)
        BY <1>13, <3>1, <3>3
      <4>3. cs[c] = None /\ ds[c] = w /\ \A d \in Conversations : d # c => ds[d] = cs[d]
        BY <1>2, <1>8, <3>3
      <4>4. QED
        BY <1>5, <4>1, <4>2, <4>3, BornGood
    <3>4. Good(req'[t], AuthEnabled, members, conversations', runs) /\ req'[t].op = r[t].op
          /\ req'[t].rival = r[t].rival /\ req'[t].todo = r[t].todo
      BY <3>3
    <3>5. req'[t] \in Requests
      BY <3>4 DEF Good
    <3>6. QED
      BY <2>1, <3>1, <3>4, <3>5, SlotIs
  <2>2. CASE ~Busy(r[t])
    <3>1. req'[t] = r[t]
      BY <1>12, <2>2
    <3>2. r[t] # Idle => r[t] \in Requests /\ r[t].todo = << >>
      BY <1>11, <2>2, SlotIs
    <3>3. r[t] # Idle => Located(r[t], conversations')
      BY <3>2 DEF Located, Shows
    <3>4. r[t] # Idle => Good(r[t], AuthEnabled, members, conversations', runs)
      BY <1>13, <3>3 DEF Good
    <3>5. QED
      BY <1>11, <2>2, <3>1, <3>4
  <2>3. QED
    BY <2>1, <2>2
<1>15. AuthEnabled' = AuthEnabled
  BY <1>1 DEF AuthEnabled
<1>16. req' \in [Slots -> Requests \cup {Idle}]
  BY <1>12, <1>14
<1>17. RequestsOk'
  BY <1>1, <1>14, <1>15, <1>16 DEF RequestsOk
<1>18. PairsOk'
  <2>1. SUFFICES ASSUME NEW t \in Slots, NEW v \in Slots, t # v, Busy(req'[t]), Busy(req'[v])
                 PROVE  Apart(req'[t], req'[v])
    BY DEF PairsOk, Busy, Apart
  <2>2. Busy(r[t]) /\ Busy(r[v])
    BY <1>14, <2>1
  <2>3. Busy(req[t]) /\ Busy(req[v]) /\ r[t].op = req[t].op /\ r[t].rival = req[t].rival
        /\ r[v].op = req[v].op /\ r[v].rival = req[v].rival
    BY <1>3, <1>6, <1>11, <2>2
  <2>4. Apart(req[t], req[v])
    BY <2>1, <2>3 DEF IndInv, PairsOk
  <2>5. QED
    BY <1>14, <2>2, <2>3, <2>4 DEF Apart
<1>19. QED
  BY <1>9, <1>17, <1>18 DEF IndInv

\* Effects on the store.
LEMMA StoreStep ==
  ASSUME IndInv, NEW s \in Slots, ChangeStore(s)
  PROVE  IndInv'
<1> DEFINE q == req[s]
           what == Instruction(q).what
           over == what \in {"interruptRun", "steerRun"} /\ q.op.run = None
<1>1. /\ At(s, "effect") /\ Kept
      /\ what \in {"logout", "rotateSecret", "createMemoryEntry", "createMessage", "interruptRun", "steerRun"}
  BY DEF ChangeStore, Kept, directory, rest
<1>2. req' = [req EXCEPT ![s] = IF over THEN End(q, 404)
                                ELSE Advance([q EXCEPT !.wrote = IF what = "logout" THEN None ELSE q.ws])]
  BY DEF ChangeStore, Become
<1>3. /\ q \in Requests /\ q.todo # << >> /\ q.todo[1].do = "effect" /\ Busy(req[s])
      /\ Instruction(q) = q.todo[1]
      /\ Good(q, AuthEnabled, members, conversations, runs)
  BY <1>1, AtIs DEF At
<1>4. q.todo[1].do \notin {"allow", "find", "readPending"}
  BY <1>3
<1>5. CASE over
  <2> DEFINE p == End(q, 404)
  <2>1. req' = [req EXCEPT ![s] = p]
    BY <1>2, <1>5
  <2>2. Good(p, AuthEnabled, members, conversations, runs) /\ p.op = q.op /\ p.rival = q.rival
    BY <1>3, Ended
  <2> HIDE DEF p
  <2>3. QED
    BY <1>1, <1>3, <2>1, <2>2, OwnStep
<1>6. CASE ~over /\ what = "logout"
  <2>1. req' = [req EXCEPT ![s] = Advance([q EXCEPT !.wrote = None])]
    BY <1>2, <1>6
  <2>2. QED
    BY <1>1, <1>3, <1>4, <2>1, Unwritten, OwnStep
<1>7. CASE ~over /\ what # "logout"
  <2>1. req' = [req EXCEPT ![s] = Advance([q EXCEPT !.wrote = q.ws])]
    BY <1>2, <1>7
  <2>2. IsGated(q.todo[1])
    <3>1. q.todo[1].what \notin {"logout", "createWorkspace"} /\ q.todo[1].do = "effect"
      BY <1>1, <1>3, <1>7
    <3>2. QED
      BY <3>1 DEF IsGated
  <2>3. QED
    BY <1>1, <1>3, <2>1, <2>2, Written, OwnStep
<1>8. QED
  BY <1>5, <1>6, <1>7

(***************************************************************************)
(* A request arrives.                                                      *)
(***************************************************************************)
\* The record of a new request.
LEMMA FreshIs ==
  ASSUME NEW op \in Ops, NEW b \in BOOLEAN, NEW x \in SUBSET Workspaces,
         NEW p, p = [op |-> op, todo |-> Program(op), ws |-> op.ws, role |-> None, pending |-> None, wrote |-> None,
                     shown |-> {}, counting |-> FALSE, rival |-> b, reach |-> x, born |-> {}, answer |-> 0]
  PROVE  /\ p \in Requests /\ p.op = op /\ p.todo = Program(op) /\ p.wrote = None /\ p.shown = {} /\ p.rival = b
         /\ p.reach = x /\ p.ws = op.ws
<1>1. op.ws \in Workspaces \cup {None}
  BY GatewayAssumption
<1>2. Program(op) \in Seq(Instructions)
  BY ProgramsSound DEF Sound
<1>3. None \in Pendings
  BY DEF Pendings
<1> DEFINE t == Program(op)
           w == op.ws
<1>4. p = [op |-> op, todo |-> t, ws |-> w, role |-> None, pending |-> None, wrote |-> None,
           shown |-> {}, counting |-> FALSE, rival |-> b, reach |-> x, born |-> {}, answer |-> 0]
  OBVIOUS
<1>5. t \in Seq(Instructions) /\ w \in Workspaces \cup {None}
  BY <1>1, <1>2
<1> HIDE DEF t, w
<1>6. p \in Requests /\ p.op = op /\ p.todo = t /\ p.wrote = None /\ p.shown = {} /\ p.rival = b /\ p.reach = x
      /\ p.ws = w
  BY <1>3, <1>4, <1>5 DEF Requests
<1>7. QED
  BY <1>6 DEF t, w

\* It has all of its handler before it, so nothing is asked of it yet.
LEMMA FreshGood ==
  ASSUME NEW auth, NEW ms, NEW cs, NEW rs, NEW op \in Ops, NEW p \in Requests,
         p.op = op, p.todo = Program(op), p.ws = op.ws, p.wrote = None, p.shown = {},
         ReachIn(auth, ms, op) \subseteq p.reach
  PROVE  Good(p, auth, ms, cs, rs)
<1>1. Under(p.todo, op) /\ Sound(p.todo, op.do)
  BY ProgramUnder, ProgramsSound
<1>2. Permitted(p)
  <2>1. op.do \in ServerWide => p.ws = None
    BY GatewayAssumption
  <2>2. QED
    BY <2>1, PermissionIs DEF Permitted, Allows
<1>3. Located(p, cs)
  <2>1. SUFFICES ASSUME Shows(p.todo), ~Finds(p.todo), op.do \notin ServerWide PROVE HomeOfTarget(op) = None
    BY DEF Located
  <2>2. op.do \in {"listConversations", "searchConversations"}
    BY <1>1, <2>1 DEF Sound, Placed, Shows, Finds
  <2>3. op.run = None /\ op.conversation = None
    BY <2>2, GatewayAssumption
  <2>4. QED
    BY <2>3 DEF HomeOfTarget
<1>4. Decided(p, rs)
  <2>1. p.todo # << >> => 1 \in 1 .. Len(p.todo)
    BY <1>1 DEF Under
  <2>2. p.todo # << >> => p.todo[1].do # "commitDecision"
    BY <1>1, <2>1 DEF Sound, Placed
  <2>3. QED
    BY <2>2 DEF Decided
<1>5. Clean(p)
  BY DEF Clean
<1>6. QED
  BY <1>1, <1>2, <1>3, <1>4, <1>5 DEF Good

\* A decision that another one joins has less to keep.
LEMMA RivalGood ==
  ASSUME NEW auth, NEW ms, NEW cs, NEW rs, NEW q, Good(q, auth, ms, cs, rs), NEW p \in Requests, p.rival,
         p.op = q.op, p.todo = q.todo, p.reach = q.reach, p.ws = q.ws, p.wrote = q.wrote, p.shown = q.shown,
         p.born = q.born
  PROVE  Good(p, auth, ms, cs, rs)
<1>1. Permitted(p) /\ Located(p, cs) /\ Decided(p, rs) /\ Clean(p)
  BY DEF Good, Permitted, Located, Decided, Clean, Entitled, Excused
<1>2. QED
  BY <1>1 DEF Good

\* A request arrives; those under way are watched, and told of a rival.
LEMMA IssueStep ==
  ASSUME IndInv, NEW s \in Slots, NEW op \in Mixes[mix].ops, Issue(s, op)
  PROVE  IndInv'
<1> DEFINE new == [op |-> op, todo |-> Program(op), ws |-> op.ws, role |-> None,
                   pending |-> None, wrote |-> None, shown |-> {}, counting |-> FALSE,
                   rival |-> FALSE, reach |-> {}, born |-> {}, answer |-> 0]
           rivals == {t \in Slots \ {s} : Busy(req[t]) /\ op.do = "postDecision" /\ req[t].op.do = "postDecision"}
           b == rivals # {}
           first == [new EXCEPT !.rival = b]
           arrived == [t \in Slots |-> IF t = s THEN first
                                       ELSE IF t \in rivals THEN [req[t] EXCEPT !.rival = TRUE]
                                       ELSE IF Busy(req[t]) THEN req[t] ELSE Idle]
<1>1. /\ req' = Watching(members, arrived)
      /\ UNCHANGED <<mix, clock, spaces, members, memberCounter, conversations, runs, ran>>
  BY DEF Issue, traffic, directory, work
<1>2. op \in Ops /\ mix \in DOMAIN Mixes
  BY DEF IndInv, StateOk, Ops
<1>3. first \in Requests /\ first.op = op /\ first.todo = Program(op) /\ first.wrote = None /\ first.shown = {}
      /\ first.rival = b /\ first.reach = {} /\ first.ws = op.ws /\ first # Idle
  <2>1. b \in BOOLEAN
    OBVIOUS
  <2>2. new \in Requests /\ new.op = op /\ new.todo = Program(op) /\ new.wrote = None /\ new.shown = {}
        /\ new.reach = {} /\ new.ws = op.ws
    <3>1. ASSUME NEW c \in BOOLEAN, c = FALSE, NEW x \in SUBSET Workspaces, x = {}
          PROVE  new \in Requests /\ new.op = op /\ new.todo = Program(op) /\ new.wrote = None /\ new.shown = {}
                 /\ new.reach = x /\ new.ws = op.ws
      <4>1. new = [op |-> op, todo |-> Program(op), ws |-> op.ws, role |-> None,
                   pending |-> None, wrote |-> None, shown |-> {}, counting |-> FALSE,
                   rival |-> c, reach |-> x, born |-> {}, answer |-> 0]
        BY <3>1
      <4> HIDE DEF new
      <4>2. QED
        BY <1>2, <4>1, FreshIs
    <3>2. FALSE \in BOOLEAN /\ {} \in SUBSET Workspaces
      OBVIOUS
    <3> HIDE DEF new
    <3>3. QED
      BY <3>1, <3>2
  <2> HIDE DEF new, b
  <2>3. first \in Requests /\ first.op = op /\ first.todo = Program(op) /\ first.wrote = None /\ first.shown = {}
      /\ first.rival = b /\ first.reach = {} /\ first.ws = op.ws
    BY <2>1, <2>2, SetRival
  <2>4. QED
    BY <2>3, SlotIs
<1>4. \A t \in Slots : req[t] # Idle => Good(req[t], AuthEnabled, members, conversations, runs)
  BY DEF IndInv, RequestsOk
<1>5. req \in [Slots -> Requests \cup {Idle}]
  BY DEF IndInv, RequestsOk
<1> HIDE DEF first
<1>6. ASSUME NEW t \in Slots
      PROVE  /\ t = s => arrived[t] = first
             /\ t # s /\ ~Busy(req[t]) => arrived[t] = Idle
             /\ t # s /\ Busy(req[t]) =>
                  /\ Good(arrived[t], AuthEnabled, members, conversations, runs)
                  /\ arrived[t].op = req[t].op /\ arrived[t].todo = req[t].todo
                  /\ req[t].rival => arrived[t].rival
                  /\ op.do = "postDecision" /\ req[t].op.do = "postDecision" => arrived[t].rival /\ b
  <2>1. t = s => arrived[t] = first
    OBVIOUS
  <2>2. t # s /\ ~Busy(req[t]) => arrived[t] = Idle
    OBVIOUS
  <2>3. CASE t # s /\ Busy(req[t]) /\ t \in rivals
    <3>1. arrived[t] = [req[t] EXCEPT !.rival = TRUE] /\ b
      BY <2>3
    <3>2. Good(req[t], AuthEnabled, members, conversations, runs)
      BY <1>4, <2>3, SlotIs
    <3> HIDE DEF arrived
    <3>3. ASSUME NEW x, x = req[t], NEW y, y = arrived[t]
          PROVE  Good(y, AuthEnabled, members, conversations, runs) /\ y.op = x.op /\ y.rival /\ y.todo = x.todo
      <4>1. y = [x EXCEPT !.rival = TRUE] /\ Good(x, AuthEnabled, members, conversations, runs) /\ x \in Requests
        BY <3>1, <3>2, <3>3 DEF Good
      <4>2. y \in Requests /\ y.rival /\ y.op = x.op /\ y.todo = x.todo /\ y.reach = x.reach /\ y.ws = x.ws
            /\ y.wrote = x.wrote /\ y.shown = x.shown /\ y.born = x.born
        BY <4>1 DEF Requests
      <4>3. QED
        BY <4>1, <4>2, RivalGood
    <3>4. QED
      BY <2>3, <3>1, <3>3
  <2>4. CASE t # s /\ Busy(req[t]) /\ t \notin rivals
    <3>1. arrived[t] = req[t] /\ ~(op.do = "postDecision" /\ req[t].op.do = "postDecision")
      BY <2>4
    <3>2. Good(req[t], AuthEnabled, members, conversations, runs)
      BY <1>4, <2>4, SlotIs
    <3> HIDE DEF arrived
    <3>3. QED
      BY <2>4, <3>1, <3>2
  <2>5. QED
    BY <2>1, <2>2, <2>3, <2>4
<1> HIDE DEF arrived, b, rivals
<1>7. req' = [t \in Slots |-> IF Busy(arrived[t]) THEN [arrived[t] EXCEPT !.reach = @ \cup Reach(members, arrived[t])]
                              ELSE arrived[t]]
  BY <1>1 DEF Watching
<1>8. ASSUME NEW t \in Slots
      PROVE  /\ req'[t] \in Requests \cup {Idle}
             /\ req'[t] # Idle => Good(req'[t], AuthEnabled, members, conversations, runs)
             /\ Busy(req'[t]) => req'[t].op = arrived[t].op /\ req'[t].rival = arrived[t].rival /\ Busy(arrived[t])
  <2>1. CASE t = s
    <3>1. arrived[t] = first /\ first.todo # << >> /\ Busy(first)
      BY <1>2, <1>3, <1>6, <2>1, SlotIs, ProgramsSound DEF Sound
    <3>2. req'[t] = [first EXCEPT !.reach = first.reach \cup ReachIn(AuthEnabled, members, op)]
      BY <1>3, <1>7, <3>1, ReachIs
    <3>3. ASSUME NEW y, y = req'[t], NEW z, z = ReachIn(AuthEnabled, members, op)
          PROVE  Good(y, AuthEnabled, members, conversations, runs) /\ y.op = first.op /\ y.rival = first.rival
      <4>1. y = [first EXCEPT !.reach = first.reach \cup z] /\ z \in SUBSET Workspaces
        BY <3>2, <3>3 DEF ReachIn
      <4>2. y \in Requests /\ y.op = first.op /\ y.todo = first.todo /\ y.rival = first.rival
            /\ y.reach = first.reach \cup z
            /\ y.wrote = first.wrote /\ y.shown = first.shown /\ y.ws = first.ws
        BY <1>3, <4>1, SetReach
      <4>3. QED
        BY <1>2, <1>3, <3>3, <4>2, FreshGood
    <3>4. QED
      BY <3>1, <3>3 DEF Good
  <2>2. CASE t # s /\ Busy(req[t])
    <3>1. Good(arrived[t], AuthEnabled, members, conversations, runs) /\ arrived[t].todo = req[t].todo
      BY <1>6, <2>2
    <3>2. arrived[t] \in Requests /\ req[t] \in Requests
      BY <1>5, <2>2, <3>1, SlotIs DEF Good
    <3>3. Busy(arrived[t])
      BY <2>2, <3>1, <3>2, SlotIs
    <3>4. req'[t] = [arrived[t] EXCEPT !.reach = arrived[t].reach \cup ReachIn(AuthEnabled, members, arrived[t].op)]
      BY <1>7, <3>3, ReachIs
    <3>5. ASSUME NEW x, x = arrived[t], NEW y, y = req'[t]
          PROVE  Good(y, AuthEnabled, members, conversations, runs) /\ y.op = x.op /\ y.rival = x.rival
      <4>1. y = [x EXCEPT !.reach = x.reach \cup ReachIn(AuthEnabled, members, x.op)]
            /\ Good(x, AuthEnabled, members, conversations, runs)
        BY <3>1, <3>4, <3>5
      <4>2. QED
        BY <4>1, WatchedGood
    <3>6. QED
      BY <3>3, <3>5 DEF Good
  <2>3. CASE t # s /\ ~Busy(req[t])
    <3>1. arrived[t] = Idle /\ req'[t] = Idle
      BY <1>6, <1>7, <2>3, SlotIs
    <3>2. QED
      BY <3>1, SlotIs
  <2>4. QED
    BY <2>1, <2>2, <2>3
<1>9. AuthEnabled' = AuthEnabled
  BY <1>1 DEF AuthEnabled
<1>10. req' \in [Slots -> Requests \cup {Idle}]
  BY <1>7, <1>8
<1>11. RequestsOk'
  BY <1>1, <1>8, <1>9, <1>10 DEF RequestsOk
<1>12. StateOk' /\ RunsOnlyApproved'
  BY <1>1 DEF IndInv, StateOk, RunsOnlyApproved
<1>13. PairsOk'
  <2>1. SUFFICES ASSUME NEW t \in Slots, NEW v \in Slots, t # v, Busy(req'[t]), Busy(req'[v])
                 PROVE  Apart(req'[t], req'[v])
    BY DEF PairsOk, Busy, Apart
  <2>2. /\ Busy(arrived[t]) /\ req'[t].op = arrived[t].op /\ req'[t].rival = arrived[t].rival
        /\ Busy(arrived[v]) /\ req'[v].op = arrived[v].op /\ req'[v].rival = arrived[v].rival
    BY <1>8, <2>1
  <2>3. \A x \in Slots : x # s /\ Busy(arrived[x]) => Busy(req[x])
    BY <1>6, SlotIs
  <2>4. CASE t = s
    <3>1. arrived[t].op = op /\ arrived[t].rival = b /\ v # s /\ Busy(req[v]) /\ arrived[v].op = req[v].op
      BY <1>3, <1>6, <2>1, <2>2, <2>3, <2>4
    <3>2. op.do = "postDecision" /\ req[v].op.do = "postDecision" => arrived[v].rival /\ b
      BY <1>6, <3>1
    <3>3. QED
      BY <2>2, <3>1, <3>2 DEF Apart
  <2>5. CASE v = s
    <3>1. arrived[v].op = op /\ arrived[v].rival = b /\ t # s /\ Busy(req[t]) /\ arrived[t].op = req[t].op
      BY <1>3, <1>6, <2>1, <2>2, <2>3, <2>5
    <3>2. op.do = "postDecision" /\ req[t].op.do = "postDecision" => arrived[t].rival /\ b
      BY <1>6, <3>1
    <3>3. QED
      BY <2>2, <3>1, <3>2 DEF Apart
  <2>6. CASE t # s /\ v # s
    <3>1. Busy(req[t]) /\ Busy(req[v])
      BY <2>2, <2>3, <2>6
    <3>2. Apart(req[t], req[v])
      BY <2>1, <3>1 DEF IndInv, PairsOk
    <3>3. /\ arrived[t].op = req[t].op /\ (req[t].rival => arrived[t].rival)
          /\ arrived[v].op = req[v].op /\ (req[v].rival => arrived[v].rival)
      BY <1>6, <2>6, <3>1
    <3>4. QED
      BY <2>2, <3>2, <3>3 DEF Apart
  <2>7. QED
    BY <2>4, <2>5, <2>6
<1>14. QED
  BY <1>11, <1>12, <1>13 DEF IndInv

(***************************************************************************)
(* Steps that are not of a request.                                        *)
(***************************************************************************)
\* The requests are left alone, and see runs that are as good for their decisions as before.
LEMMA CalmStep ==
  ASSUME IndInv, StateOk', RunsOnlyApproved', UNCHANGED <<mix, members, conversations, req>>,
         \A t \in Slots : req[t] # Idle => Decided(req[t], runs')
  PROVE  IndInv'
<1>1. AuthEnabled' = AuthEnabled
  BY DEF AuthEnabled
<1>2. \A t \in Slots : req[t] # Idle => Good(req[t], AuthEnabled, members, conversations, runs')
  BY DEF IndInv, RequestsOk, Good
<1>3. RequestsOk'
  BY <1>1, <1>2 DEF IndInv, RequestsOk
<1>4. PairsOk'
  BY DEF IndInv, PairsOk, Busy, Apart
<1>5. QED
  BY <1>3, <1>4 DEF IndInv

\* An operation is presented on a run that executes: no decision was under way on it alone.
LEMMA PresentStep ==
  ASSUME IndInv, NEW r \in Runs, presentApprovalRequest(r)
  PROVE  IndInv'
<1>1. /\ runs[r].phase = "EXECUTING"
      /\ runs' = [runs EXCEPT ![r] = [phase |-> "NEEDS_DECISION", op |-> runs[r].op + 1, presentedAt |-> clock]]
      /\ UNCHANGED <<mix, clock, spaces, members, memberCounter, conversations, req, ran>>
  BY DEF presentApprovalRequest, traffic, directory, rest
<1>2. /\ runs \in [Runs -> [phase : {"EXECUTING", "NEEDS_DECISION", "SYNTHESIZING"}, op : Int, presentedAt : Nat]]
      /\ clock \in Nat
  BY DEF IndInv, StateOk
<1>3. /\ runs' \in [Runs -> [phase : {"EXECUTING", "NEEDS_DECISION", "SYNTHESIZING"}, op : Int, presentedAt : Nat]]
      /\ \A x \in Runs : x # r => runs'[x] = runs[x]
  BY <1>1, <1>2
<1>4. StateOk' /\ RunsOnlyApproved'
  BY <1>1, <1>3 DEF IndInv, StateOk, RunsOnlyApproved
<1>5. ASSUME NEW t \in Slots, req[t] # Idle PROVE Decided(req[t], runs')
  <2>1. Decided(req[t], runs)
    BY <1>5 DEF IndInv, RequestsOk, Good
  <2>2. QED
    BY <1>1, <1>3, <2>1 DEF Decided
<1>6. QED
  BY <1>1, <1>4, <1>5, CalmStep

\* Budget approvals, the clock, and a restart that forgets every request.
LEMMA CalmActions ==
  ASSUME IndInv,
         (\E r \in Runs : createApproval(r) \/ waitForDecision(r) \/ waitTimesOut(r)) \/ Tick \/ Restart
         \/ UNCHANGED vars
  PROVE  IndInv'
<1>1. CASE (\E r \in Runs : createApproval(r) \/ waitForDecision(r) \/ waitTimesOut(r)) \/ Tick \/ UNCHANGED vars
  <2>1. UNCHANGED <<mix, spaces, members, memberCounter, conversations, runs, req, ran>>
        /\ clock' \in {clock, clock + 1}
    BY <1>1 DEF createApproval, waitForDecision, waitTimesOut, Tick, vars, traffic, directory, work, rest
  <2>2. StateOk' /\ RunsOnlyApproved'
    BY <2>1 DEF IndInv, StateOk, RunsOnlyApproved
  <2>3. \A t \in Slots : req[t] # Idle => Decided(req[t], runs')
    BY <2>1 DEF IndInv, RequestsOk, Good
  <2>4. QED
    BY <2>1, <2>2, <2>3, CalmStep
<1>2. CASE Restart
  <2>1. /\ spaces' = {} /\ members' = {} /\ memberCounter' = 0 /\ req' = [s \in Slots |-> Idle]
        /\ UNCHANGED <<mix, clock, conversations, runs, ran>>
    BY <1>2 DEF Restart, rest
  <2>2. StateOk' /\ RunsOnlyApproved'
    BY <2>1 DEF IndInv, StateOk, RunsOnlyApproved, Directory
  <2>3. RequestsOk'
    BY <2>1 DEF RequestsOk
  <2>4. \A s \in Slots : ~Busy(req'[s])
    BY <2>1, SlotIs
  <2>5. PairsOk'
    BY <2>4 DEF PairsOk, Busy
  <2>6. QED
    BY <2>2, <2>3, <2>5 DEF IndInv
<1>3. QED
  BY <1>1, <1>2

\* The server starts with a directory in order and no request.
LEMMA InitInv == Init => IndInv
<1> SUFFICES ASSUME Init PROVE IndInv
  OBVIOUS
<1>1. StateOk
  <2>1. mix \in DOMAIN Mixes /\ clock = 0 /\ memberCounter = Mixes[mix].counter /\ spaces = Mixes[mix].spaces
        /\ members = Mixes[mix].members /\ conversations = [c \in Conversations |-> Mixes[mix].home[c]]
        /\ runs = [r \in Runs |-> [phase |-> "EXECUTING", op |-> 0, presentedAt |-> 0]]
    BY DEF Init
  <2>2. /\ Mixes[mix].counter \in Int /\ Directory(Mixes[mix].spaces, Mixes[mix].members)
        /\ Mixes[mix].home \in [Conversations -> Workspaces \cup {None}]
    BY <2>1, GatewayAssumption
  <2>3. runs \in [Runs -> [phase : {"EXECUTING", "NEEDS_DECISION", "SYNTHESIZING"}, op : Int, presentedAt : Nat]]
    BY <2>1
  <2>4. QED
    BY <2>1, <2>2, <2>3 DEF StateOk
<1>2. req = [s \in Slots |-> Idle] /\ ran = {}
  BY DEF Init
<1>3. RequestsOk /\ RunsOnlyApproved
  BY <1>2 DEF RequestsOk, RunsOnlyApproved
<1>4. PairsOk
  BY <1>2, SlotIs DEF PairsOk
<1>5. QED
  BY <1>1, <1>3, <1>4 DEF IndInv

\* Every step keeps the invariant.
LEMMA StepInv == IndInv /\ [Next]_vars => IndInv'
<1> SUFFICES ASSUME IndInv, [Next]_vars PROVE IndInv'
  OBVIOUS
<1>1. ASSUME NEW s \in Slots, Step(s) PROVE IndInv'
  BY <1>1, QuietActions, FindStep, AllowStep, MembersStep, SpaceStep, PolicyStep, WideStep, StoreStep, ConversationStep,
     ShowStep, QuotaSteps, ReadStep, CommitStep DEF Step
<1>2. ASSUME NEW s \in Slots,
             AuditRequest(s) \/ LimiterFails(s) \/ \E ok \in BOOLEAN : CreateRun(s, ok) \/ FinishRun(s, ok)
      PROVE  IndInv'
  BY <1>2, QuietActions
<1>3. ASSUME NEW s \in Slots, NEW op \in Mixes[mix].ops, Issue(s, op) PROVE IndInv'
  BY <1>3, IssueStep
<1>4. ASSUME NEW r \in Runs, presentApprovalRequest(r) PROVE IndInv'
  BY <1>4, PresentStep
<1>5. CASE (\E r \in Runs : createApproval(r) \/ waitForDecision(r) \/ waitTimesOut(r)) \/ Tick \/ Restart
           \/ UNCHANGED vars
  BY <1>5, CalmActions
<1>6. QED
  BY <1>1, <1>2, <1>3, <1>4, <1>5 DEF Next

(***************************************************************************)
(* What follows.                                                           *)
(***************************************************************************)
LEMMA InvAlways == Spec => []IndInv
BY InitInv, StepInv, PTL DEF Spec

\* An operation that was resumed had itself been approved, in time, unless two decisions on
\* pending operations were under way at once (approvalFlow.ts, recordApprovalDecision).
THEOREM ApprovalCorrect == Spec => []RunsOnlyApproved
<1>1. IndInv => RunsOnlyApproved
  BY DEF IndInv
<1>2. QED
  BY <1>1, InvAlways, PTL

\* Whatever a request changes or shows is of a workspace in which its user held the permission
\* of the route while the request was under way, save what the cost routes find of a
\* conversation that was made meanwhile; the six server-wide routes of operator.ts and
\* approvals.ts, which ask for the permission in the user's own workspace, change and show
\* runs of every workspace (server.ts, authorize and the handlers).
THEOREM AuthorizationCorrect == Spec => []EffectsAuthorized
<1>1. IndInv => EffectsAuthorized
  <2> SUFFICES ASSUME IndInv, NEW s \in Slots, req[s].op # None
               PROVE  /\ req[s].wrote # None => req[s].wrote \in Entitled(req[s])
                      /\ PermissionOf(req[s].op) # None => req[s].shown \subseteq Entitled(req[s]) \cup Excused(req[s])
    BY DEF EffectsAuthorized
  <2>1. req[s] # Idle
    BY DEF Idle
  <2>2. Clean(req[s])
    BY <2>1 DEF IndInv, RequestsOk, Good
  <2>3. QED
    BY <2>2 DEF Clean
<1>2. QED
  BY <1>1, InvAlways, PTL

\* What the waiters for a budget approval know agrees with the registry at every step.
BudgetInv ==
  /\ waits \in [Runs -> {"none", "announcing", "waiting", "approved", "denied", "timeout"}]
  /\ approvals \in [Runs -> {None, "pending", "approved", "denied"}]
  /\ \A r \in Runs :
       /\ waits[r] = "announcing" => approvals[r] \in {"pending", "approved", "denied"}
       /\ waits[r] = "waiting" => approvals[r] = "pending"
  /\ BudgetWaitersAgree

\* An orchestration that was told a decision on its budget, or gave up waiting for one, agrees
\* with the registry (security/budget.ts, recordDecision and waitForDecision).
THEOREM BudgetCorrect == Spec => []BudgetWaitersAgree
<1>1. Init => BudgetInv
  BY DEF Init, BudgetInv, BudgetWaitersAgree
<1>2. ASSUME BudgetInv, [Next]_vars PROVE BudgetInv'
  <2> USE DEF BudgetInv, BudgetWaitersAgree
  <2>1. ASSUME NEW r \in Runs, createApproval(r) PROVE BudgetInv'
    BY <1>2, <2>1 DEF createApproval
  <2>2. ASSUME NEW r \in Runs, waitForDecision(r) PROVE BudgetInv'
    BY <1>2, <2>2 DEF waitForDecision
  <2>3. ASSUME NEW r \in Runs, waitTimesOut(r) PROVE BudgetInv'
    BY <1>2, <2>3 DEF waitTimesOut
  <2>4. ASSUME NEW s \in Slots, decideBudget(s) PROVE BudgetInv'
    <3> DEFINE r == req[s].op.run
               settled == IF req[s].op.decision = "approve" THEN "approved" ELSE "denied"
    <3>1. \/ UNCHANGED <<approvals, waits>>
          \/ /\ approvals[r] = "pending"
             /\ approvals' = [approvals EXCEPT ![r] = settled]
             /\ waits' = [waits EXCEPT ![r] = IF waits[r] = "waiting" THEN settled ELSE waits[r]]
      BY <2>4 DEF decideBudget
    <3>2. settled \in {"approved", "denied"}
      OBVIOUS
    <3> HIDE DEF r, settled
    <3>3. QED
      BY <1>2, <3>1, <3>2
  <2>5. CASE Restart
    BY <2>5 DEF Restart
  <2>6. CASE UNCHANGED <<approvals, waits>>
    BY <1>2, <2>6, SMTT(30)
  <2>7. ASSUME NEW s \in Slots,
               \/ LimitRequest(s) \/ EnterRequest(s) \/ LoginRequest(s) \/ FindTarget(s) \/ AuthorizeRequest(s)
               \/ CheckRequest(s) \/ ChangeMembers(s) \/ createWorkspace(s)
               \/ setPolicy(s) \/ ChangeStore(s) \/ createConversation(s) \/ pruneMemory(s) \/ ShowConversations(s)
               \/ enforceRunQuota(s) \/ CountRun(s) \/ ReadPending(s) \/ recordApprovalDecision(s) \/ interruptAny(s)
               \/ AuditRequest(s) \/ LimiterFails(s) \/ (\E ok \in BOOLEAN : CreateRun(s, ok) \/ FinishRun(s, ok))
               \/ (\E op \in Mixes[mix].ops : Issue(s, op))
        PROVE  UNCHANGED <<approvals, waits>>
    BY <2>7 DEF LimitRequest, EnterRequest, LoginRequest, FindTarget, AuthorizeRequest, CheckRequest, ChangeMembers,
       createWorkspace, setPolicy, ChangeStore, createConversation, pruneMemory, ShowConversations, enforceRunQuota,
       CountRun, ReadPending, recordApprovalDecision, interruptAny, AuditRequest, LimiterFails, CreateRun, FinishRun, Issue, work
  <2>8. ASSUME NEW r \in Runs, presentApprovalRequest(r) PROVE UNCHANGED <<approvals, waits>>
    BY <2>8 DEF presentApprovalRequest
  <2>9. CASE Tick \/ UNCHANGED vars
    BY <1>2, <2>6, <2>9 DEF Tick, work, vars
  <2> HIDE DEF BudgetInv
  <2>10. QED
    BY <1>2, <2>1, <2>2, <2>3, <2>4, <2>5, <2>6, <2>7, <2>8, <2>9 DEF Next, Step
<1>3. BudgetInv => BudgetWaitersAgree
  BY DEF BudgetInv
<1>4. QED
  BY <1>1, <1>2, <1>3, PTL DEF Spec

(***************************************************************************)
(* The limiter.                                                            *)
(***************************************************************************)
Buckets == [resetAt : Nat, count : Nat]

\* S are the requests that opened a window: each is WindowMs or more after the one before, and
\* at most n requests, itself included, were let through before the next.
Windows(times, S, n) ==
  /\ S \subseteq DOMAIN times
  /\ \A s, t \in S : s < t => times[t] - times[s] >= WindowMs
  /\ \A i \in DOMAIN times : \E s \in S : s <= i /\ i < s + n

\* The bucket is the one of the last window, and has counted what was let through in it.
LastWindow(times, S, b) ==
  times # << >> =>
    /\ b # None
    /\ \E s \in S : (\A t \in S : t <= s) /\ b.resetAt = times[s] + WindowMs /\ Len(times) < s + b.count

\* The Redis limiter refuses the request that takes the last point: with one point, every one.
Shut(limiter, n) == limiter = "redis" /\ n = 1

Timely(times, now) ==
  /\ times \in Seq(Nat)
  /\ \A i \in 1 .. Len(times) : times[i] <= now
  /\ \A i, j \in 1 .. Len(times) : i <= j => times[i] <= times[j]

RateOk(limiter, times, b, n, now) ==
  /\ Timely(times, now) /\ b \in {None} \cup Buckets
  /\ n > 0 =>
       /\ \E S : Windows(times, S, n) /\ LastWindow(times, S, b)
       /\ Shut(limiter, n) => times = << >>
       /\ times = << >> /\ b # None => Shut(limiter, n)

\* What the limiters answer, and the bucket they leave.
LEMMA CommitIs ==
  ASSUME NEW limiter, NEW b \in {None} \cup Buckets, NEW rule, rule.maxRequests \in Int, rule.maxRequests > 0,
         NEW now \in Nat, NEW d, d = commit(limiter, b, rule, now, WindowMs)
  PROVE  /\ d.bucket \in Buckets /\ d.allowed \in BOOLEAN
         /\ b # None /\ b.resetAt > now =>
              /\ d.bucket.resetAt = b.resetAt /\ d.bucket.count >= b.count
              /\ d.allowed => b.count < rule.maxRequests /\ d.bucket.count = b.count + 1
              /\ Shut(limiter, rule.maxRequests) => ~d.allowed
         /\ ~(b # None /\ b.resetAt > now) =>
              /\ d.bucket.resetAt = now + WindowMs /\ d.bucket.count = 1
              /\ d.allowed <=> ~Shut(limiter, rule.maxRequests)
<1> DEFINE n == rule.maxRequests
           active == b # None /\ b.resetAt > now
<1>0. WindowMs \in Nat /\ (active => b \in Buckets /\ b.resetAt \in Nat /\ b.count \in Nat)
  BY GatewayAssumption DEF Buckets
<1>1. CASE active /\ limiter = "redis"
  <2>1. d = [allowed |-> n - (b.count + 1) > 0, bucket |-> [resetAt |-> b.resetAt, count |-> b.count + 1]]
    BY <1>1 DEF commit, commitRedis, activeBucket
  <2>2. d.bucket \in Buckets /\ d.bucket.resetAt = b.resetAt /\ d.bucket.count = b.count + 1
    BY <1>0, <1>1, <2>1 DEF Buckets
  <2>4. \/ n - (b.count + 1) > 0 /\ d.allowed = TRUE
        \/ ~(n - (b.count + 1) > 0) /\ d.allowed = FALSE
    <3>0. (n - (b.count + 1) > 0) \in BOOLEAN
      OBVIOUS
    <3>1. d.allowed = (n - (b.count + 1) > 0)
      BY <2>1
    <3>2. QED
      BY <3>0, <3>1, Zenon
  <2>5. (n - (b.count + 1) > 0 => b.count < n /\ ~Shut(limiter, n)) /\ b.count + 1 >= b.count
    BY <1>0, <1>1 DEF Shut
  <2> HIDE DEF n
  <2>6. QED
    BY <1>1, <2>2, <2>4, <2>5 DEF n
<1>2. CASE active /\ limiter # "redis"
  <2>1. d = IF b.count >= n THEN [allowed |-> FALSE, bucket |-> b]
            ELSE [allowed |-> TRUE, bucket |-> [b EXCEPT !.count = @ + 1]]
    <3>1. activeBucket(b, now) = b /\ b # None /\ ~(n <= 0)
      BY <1>2 DEF activeBucket
    <3> HIDE DEF n
    <3>2. QED
      BY <1>2, <3>1 DEF commit, commitInMemory, n
  <2>2. CASE b.count >= n
    <3>1. d.allowed = FALSE /\ d.bucket = b
      BY <2>1, <2>2
    <3>2. b \in Buckets /\ d.bucket \in Buckets /\ d.bucket.resetAt = b.resetAt /\ d.bucket.count >= b.count
      BY <1>0, <1>2, <3>1
    <3>0. d.allowed \in BOOLEAN
      BY <3>1, Zenon
    <3> HIDE DEF n
    <3>3. QED
      BY <1>2, <3>0, <3>1, <3>2
  <2>3. CASE ~(b.count >= n)
    <3>1. d.allowed = TRUE /\ d.bucket = [b EXCEPT !.count = @ + 1]
      BY <2>1, <2>3
    <3>2. d.bucket \in Buckets /\ d.bucket.resetAt = b.resetAt /\ d.bucket.count = b.count + 1
      BY <1>0, <1>2, <3>1 DEF Buckets
    <3>3. b.count < n /\ b.count + 1 >= b.count /\ ~Shut(limiter, n)
      BY <1>0, <1>2, <2>3 DEF Shut
    <3>0. d.allowed \in BOOLEAN
      BY <3>1, Zenon
    <3>4. QED
      BY <1>2, <3>0, <3>2, <3>3 DEF n
  <2>4. QED
    BY <2>2, <2>3
<1>3. CASE ~active /\ limiter = "redis"
  <2>1. activeBucket(b, now) = None
    BY <1>3 DEF activeBucket
  <2>2. d = [allowed |-> n - 1 > 0, bucket |-> [resetAt |-> now + WindowMs, count |-> 1]]
    BY <1>3, <2>1 DEF commit, commitRedis
  <2>3. d.allowed = (n - 1 > 0) /\ d.bucket = [resetAt |-> now + WindowMs, count |-> 1]
    BY <2>2
  <2>4. \/ n - 1 > 0 /\ d.allowed = TRUE
        \/ ~(n - 1 > 0) /\ d.allowed = FALSE
    <3>0. (n - 1 > 0) \in BOOLEAN
      OBVIOUS
    <3>1. d.allowed = (n - 1 > 0)
      BY <2>2
    <3>2. QED
      BY <3>0, <3>1, Zenon
  <2>5. n - 1 > 0 <=> ~Shut(limiter, n)
    BY <1>3 DEF Shut
  <2>6. d.bucket \in Buckets /\ d.bucket.resetAt = now + WindowMs /\ d.bucket.count = 1
    BY <1>0, <2>3 DEF Buckets
  <2> HIDE DEF n
  <2>7. QED
    BY <1>3, <2>4, <2>5, <2>6 DEF n
<1>4. CASE ~active /\ limiter # "redis"
  <2>1. activeBucket(b, now) = None
    BY <1>4 DEF activeBucket
  <2>2. d = [allowed |-> TRUE, bucket |-> [resetAt |-> now + WindowMs, count |-> 1]]
    BY <1>4, <2>1 DEF commit, commitInMemory
  <2>3. d.allowed = TRUE /\ d.bucket = [resetAt |-> now + WindowMs, count |-> 1]
    BY <2>2
  <2>4. d.bucket \in Buckets /\ d.bucket.resetAt = now + WindowMs /\ d.bucket.count = 1
    BY <1>0, <2>3 DEF Buckets
  <2>5. QED
    BY <1>4, <2>3, <2>4 DEF Shut
<1>5. QED
  BY <1>1, <1>2, <1>3, <1>4

\* One more request is let through.
LEMMA LetThrough ==
  ASSUME NEW times, NEW now \in Nat, Timely(times, now), NEW more, more = Append(times, now)
  PROVE  /\ Timely(more, now) /\ more # << >> /\ Len(more) = Len(times) + 1 /\ Len(times) \in Nat
         /\ DOMAIN more = 1 .. Len(times) + 1 /\ DOMAIN times = 1 .. Len(times)
         /\ \A i \in 1 .. Len(times) : more[i] = times[i]
         /\ more[Len(times) + 1] = now
<1>1. /\ more \in Seq(Nat) /\ Len(more) = Len(times) + 1 /\ Len(times) \in Nat
      /\ DOMAIN more = 1 .. Len(times) + 1 /\ DOMAIN times = 1 .. Len(times)
      /\ \A i \in 1 .. Len(times) : more[i] = times[i]
      /\ more[Len(times) + 1] = now
  BY DEF Timely
<1>2. more # << >>
  BY <1>1
<1>3. QED
  BY <1>1, <1>2 DEF Timely

\* The limiter decides on a request.
LEMMA RateStep ==
  ASSUME NEW limiter, NEW times, NEW b, NEW now \in Nat, NEW rule, rule.maxRequests \in Int,
         RateOk(limiter, times, b, rule.maxRequests, now),
         NEW d, d = commit(limiter, b, rule, now, WindowMs)
  PROVE  RateOk(limiter, IF d.allowed THEN Append(times, now) ELSE times, d.bucket, rule.maxRequests, now)
<1> DEFINE n == rule.maxRequests
           more == Append(times, now)
           active == b # None /\ b.resetAt > now
<1>0. WindowMs \in Nat /\ n \in Int
  BY GatewayAssumption
<1>1. Timely(times, now) /\ b \in {None} \cup Buckets
  BY DEF RateOk
<1>2. /\ Timely(more, now) /\ more # << >> /\ Len(more) = Len(times) + 1 /\ Len(times) \in Nat
      /\ DOMAIN more = 1 .. Len(times) + 1 /\ DOMAIN times = 1 .. Len(times)
      /\ \A i \in 1 .. Len(times) : more[i] = times[i]
      /\ more[Len(times) + 1] = now
  BY <1>1, LetThrough
<1>3. CASE n <= 0
  <2>1. d = [allowed |-> TRUE, bucket |-> b]
    BY <1>3 DEF commit, commitInMemory, commitRedis
  <2>2. QED
    BY <1>0, <1>1, <1>2, <1>3, <2>1 DEF RateOk
<1>4. CASE n > 0
  <2>1. PICK S : Windows(times, S, n) /\ LastWindow(times, S, b)
    BY <1>4 DEF RateOk
  <2>2. /\ Shut(limiter, n) => times = << >>
        /\ times = << >> /\ b # None => Shut(limiter, n)
    BY <1>4 DEF RateOk
  <2>3. /\ d.bucket \in Buckets /\ d.allowed \in BOOLEAN
        /\ active =>
             /\ d.bucket.resetAt = b.resetAt /\ d.bucket.count >= b.count
             /\ d.allowed => b.count < n /\ d.bucket.count = b.count + 1
             /\ Shut(limiter, n) => ~d.allowed
        /\ ~active =>
             /\ d.bucket.resetAt = now + WindowMs /\ d.bucket.count = 1
             /\ d.allowed <=> ~Shut(limiter, n)
    BY <1>0, <1>1, <1>4, CommitIs
  <2>4. d.bucket # None
    BY <2>3, GatewayAssumption DEF Buckets
  <2>5. /\ S \subseteq 1 .. Len(times)
        /\ \A s, t \in S : s < t => times[t] - times[s] >= WindowMs
        /\ \A i \in 1 .. Len(times) : \E s \in S : s <= i /\ i < s + n
        /\ \A i \in 1 .. Len(times) : times[i] \in Nat /\ times[i] <= now
        /\ \A i, j \in 1 .. Len(times) : i <= j => times[i] <= times[j]
    BY <1>1, <1>2, <2>1 DEF Windows, Timely
  <2> HIDE DEF more, active, n
  <2>6. CASE times # << >>
    <3>1. b # None /\ ~Shut(limiter, n) /\ b \in Buckets
      BY <1>1, <2>1, <2>2, <2>6 DEF LastWindow
    <3>2. PICK s \in S : (\A t \in S : t <= s) /\ b.resetAt = times[s] + WindowMs /\ Len(times) < s + b.count
      BY <2>1, <2>6 DEF LastWindow
    <3>3. s \in 1 .. Len(times) /\ b.resetAt \in Nat /\ b.count \in Nat /\ d.bucket.count \in Nat
          /\ d.bucket.resetAt \in Nat
      BY <2>3, <2>5, <3>1, <3>2 DEF Buckets
    <3>4. CASE ~d.allowed
      <4>1. active
        BY <2>3, <3>1, <3>4
      <4>2. LastWindow(times, S, d.bucket)
        BY <1>2, <2>3, <2>4, <3>2, <3>3, <4>1 DEF LastWindow
      <4>3. QED
        BY <1>1, <2>1, <2>3, <2>6, <3>1, <3>4, <4>2 DEF RateOk, n
    <3>5. CASE d.allowed /\ active
      <4>1. b.count < n /\ d.bucket.count = b.count + 1 /\ d.bucket.resetAt = b.resetAt
        BY <2>3, <3>5
      <4>2. Windows(more, S, n)
        <5>1. \A i \in 1 .. Len(times) + 1 : \E r \in S : r <= i /\ i < r + n
          <6> SUFFICES ASSUME NEW i \in 1 .. Len(times) + 1 PROVE \E r \in S : r <= i /\ i < r + n
            OBVIOUS
          <6>1. CASE i \in 1 .. Len(times)
            BY <2>5, <6>1
          <6>2. CASE i = Len(times) + 1
            BY <1>0, <1>2, <3>2, <3>3, <4>1, <6>2 DEF n
          <6>3. QED
            BY <1>2, <6>1, <6>2
        <5>2. S \subseteq DOMAIN more /\ \A x, y \in S : x < y => more[y] - more[x] >= WindowMs
          <6>1. \A x \in S : more[x] = times[x] /\ x \in 1 .. Len(times) + 1
            BY <1>2, <2>5
          <6>2. QED
            BY <1>2, <2>5, <6>1
        <5>3. \A i \in DOMAIN more : \E r \in S : r <= i /\ i < r + n
          BY <1>2, <5>1
        <5>4. QED
          BY <5>2, <5>3 DEF Windows
      <4>3. LastWindow(more, S, d.bucket)
        BY <1>2, <2>4, <3>2, <3>3, <4>1 DEF LastWindow
      <4>4. QED
        BY <1>2, <2>3, <3>1, <3>5, <4>2, <4>3 DEF RateOk, n, more
    <3>6. CASE d.allowed /\ ~active
      <4> DEFINE top == Len(times) + 1
                 T == S \cup {top}
      <4>1. d.bucket.resetAt = now + WindowMs /\ d.bucket.count = 1
        BY <2>3, <3>6
      <4>2. \A t \in S : now - times[t] >= WindowMs
        <5> SUFFICES ASSUME NEW t \in S PROVE now - times[t] >= WindowMs
          OBVIOUS
        <5>1. b.resetAt <= now
          BY <3>1, <3>3, <3>6 DEF active
        <5>2. times[t] <= times[s] /\ times[t] \in Nat /\ times[s] \in Nat
          BY <2>5, <3>2, <3>3
        <5>3. QED
          BY <1>0, <3>2, <5>1, <5>2
      <4>0. \A x \in S : x \in 1 .. Len(times) /\ x <= top /\ x # top
        <5>1. S \subseteq 1 .. Len(times) /\ Len(times) \in Nat
          BY <1>2, <2>5
        <5>2. QED
          BY <5>1
      <4>3. \A x, y \in T : x < y => more[y] - more[x] >= WindowMs
        <5> SUFFICES ASSUME NEW x \in T, NEW y \in T, x < y PROVE more[y] - more[x] >= WindowMs
          OBVIOUS
        <5>1. x \in S
          <6>1. CASE y \in S
            BY <1>2, <4>0, <6>1
          <6>2. CASE y = top
            BY <1>2, <6>2
          <6>3. QED
            BY <6>1, <6>2
        <5>2. more[x] = times[x]
          BY <1>2, <2>5, <5>1
        <5>3. CASE y \in S
          BY <1>2, <2>5, <5>1, <5>2, <5>3
        <5>4. CASE y = top
          BY <1>2, <4>2, <5>1, <5>2, <5>4
        <5>5. QED
          BY <5>3, <5>4
      <4>4. \A i \in 1 .. top : \E r \in T : r <= i /\ i < r + n
        <5> SUFFICES ASSUME NEW i \in 1 .. top PROVE \E r \in T : r <= i /\ i < r + n
          OBVIOUS
        <5>1. CASE i \in 1 .. Len(times)
          BY <2>5, <5>1
        <5>2. CASE i = top
          <6>1. top <= top /\ top < top + n /\ top \in T
            BY <1>0, <1>2, <1>4 DEF n
          <6>2. QED
            BY <5>2, <6>1
        <5>3. QED
          BY <1>2, <5>1, <5>2
      <4>5. T \subseteq 1 .. top /\ DOMAIN more = 1 .. top /\ top \in T /\ \A t \in T : t <= top
        <5>1. top \in Nat /\ top \in 1 .. top /\ top <= top /\ DOMAIN more = 1 .. top
              /\ 1 .. Len(times) \subseteq 1 .. top
          BY <1>2
        <5> HIDE DEF top
        <5>2. QED
          BY <4>0, <5>1
      <4>6. Windows(more, T, n)
        <5> HIDE DEF T, top
        <5>1. QED
          BY <4>3, <4>4, <4>5 DEF Windows
      <4>7. LastWindow(more, T, d.bucket)
        <5>1. Len(more) = top /\ top < top + d.bucket.count /\ more[top] = now
          BY <1>2, <4>1
        <5> HIDE DEF T, top
        <5>2. QED
          BY <2>4, <4>1, <4>5, <5>1 DEF LastWindow
      <4>8. QED
        BY <1>2, <2>3, <3>1, <3>6, <4>6, <4>7 DEF RateOk, n, more
    <3>7. QED
      BY <3>4, <3>5, <3>6
  <2>7. CASE times = << >>
    <3>1. Len(times) = 0 /\ S = {}
      BY <2>5, <2>7
    <3>2. CASE ~d.allowed
      <4>1. Shut(limiter, n)
        BY <2>2, <2>3, <2>7, <3>2 DEF active
      <4>2. LastWindow(times, S, d.bucket)
        BY <2>7 DEF LastWindow
      <4>3. QED
        BY <1>1, <2>1, <2>3, <2>7, <3>2, <4>1, <4>2 DEF RateOk, n
    <3>3. CASE d.allowed
      <4>1. ~active /\ ~Shut(limiter, n)
        BY <2>2, <2>3, <2>7, <3>3 DEF active
      <4>2. d.bucket.resetAt = now + WindowMs /\ d.bucket.count = 1
        BY <2>3, <4>1
      <4>3. Len(more) = 1 /\ DOMAIN more = 1 .. 1 /\ more[1] = now
        BY <1>2, <3>1
      <4>4. Windows(more, {1}, n)
        BY <1>0, <1>4, <4>3 DEF Windows, n
      <4>5. LastWindow(more, {1}, d.bucket)
        BY <2>4, <4>2, <4>3 DEF LastWindow
      <4>6. QED
        BY <1>2, <2>3, <3>3, <4>1, <4>4, <4>5 DEF RateOk, n, more
    <3>4. QED
      BY <2>3, <3>2, <3>3
  <2>8. QED
    BY <2>6, <2>7
<1>5. QED
  BY <1>0, <1>3, <1>4

\* Windows of n requests that are WindowMs apart let fewer than 2n through in WindowMs.
LEMMA WindowsBound ==
  ASSUME NEW limiter, NEW times, NEW b, NEW n \in Int, n > 0, NEW now, RateOk(limiter, times, b, n, now),
         NEW i \in DOMAIN times, i + 2 * n - 1 \in DOMAIN times
  PROVE  times[i + 2 * n - 1] - times[i] >= WindowMs
<1> DEFINE j == i + 2 * n - 1
<1>0. WindowMs \in Nat
  BY GatewayAssumption
<1>1. /\ DOMAIN times = 1 .. Len(times) /\ Len(times) \in Nat
      /\ \A x \in 1 .. Len(times) : times[x] \in Nat
      /\ \A x, y \in 1 .. Len(times) : x <= y => times[x] <= times[y]
  BY DEF RateOk, Timely
<1>2. PICK S : Windows(times, S, n)
  BY DEF RateOk
<1>3. PICK s \in S : s <= j /\ j < s + n
  BY <1>2 DEF Windows
<1>4. S \subseteq 1 .. Len(times)
  BY <1>1, <1>2 DEF Windows
<1>5. i \in 1 .. Len(times) /\ j \in 1 .. Len(times) /\ s \in 1 .. Len(times) /\ s - 1 \in 1 .. Len(times)
      /\ s - 1 >= i + n - 1
  BY <1>1, <1>3, <1>4
<1>6. PICK r \in S : r <= s - 1 /\ s - 1 < r + n
  BY <1>1, <1>2, <1>5 DEF Windows
<1>7. r \in 1 .. Len(times) /\ r >= i /\ r < s
  BY <1>4, <1>5, <1>6
<1>8. times[s] - times[r] >= WindowMs
  BY <1>2, <1>7 DEF Windows
<1>9. times[r] >= times[i] /\ times[j] >= times[s]
  BY <1>1, <1>3, <1>5, <1>7
<1>10. times[j] \in Nat /\ times[s] \in Nat /\ times[r] \in Nat /\ times[i] \in Nat
  BY <1>1, <1>5, <1>7
<1> HIDE DEF j
<1>11. times[j] - times[i] >= WindowMs
  BY <1>0, <1>8, <1>9, <1>10
<1>12. QED
  BY <1>11 DEF j

\* The limit of a route is a number.
LEMMA LimitIs == ASSUME mix \in DOMAIN Mixes, NEW r \in RateRoutes PROVE Limit(r) \in Int
<1> DEFINE base == Mixes[mix].base
           override == Mixes[mix].override
           own(d) == IF (IF r \in DOMAIN override THEN override[r] ELSE None) = None THEN d
                     ELSE IF r \in DOMAIN override THEN override[r] ELSE None
<1>1. base \in Int /\ \A x \in DOMAIN override : override[x] \in {None} \cup Int
  BY GatewayAssumption
<1>2. PICK d \in Int : Limit(r) = own(d)
  <2> DEFINE d == CASE r = "chat" -> base
                    [] r \in {"auth-login", "general"} -> LargerOf(10, 5 * LargerOf(0, base))
                    [] OTHER -> LargerOf(5, LargerOf(0, base))
  <2>1. d \in Int
    BY <1>1 DEF LargerOf
  <2>2. Limit(r) = own(d)
    BY DEF Limit, rateLimitRuleFor, Policy, createRateLimitPolicy, buildRouteRule, RateRoutes
  <2> HIDE DEF d, own
  <2>3. QED
    BY <2>1, <2>2
<1>3. QED
  BY <1>1, <1>2

\* What the limiter holds agrees with what it let through, on every route and for everyone.
RateInv ==
  /\ buckets \in [Keys -> [RateRoutes -> {None} \cup Buckets]]
  /\ admitted \in [Keys -> [RateRoutes -> Seq(Nat)]]
  /\ \A k \in Keys, r \in RateRoutes : RateOk(Mixes[mix].limiter, admitted[k][r], buckets[k][r], Limit(r), clock)

\* Nothing was let through yet.
LEMMA RateFresh ==
  ASSUME NEW limiter, NEW n, NEW now, NEW times, times = << >>
  PROVE  RateOk(limiter, times, None, n, now)
<1>1. Timely(times, now)
  BY DEF Timely
<1>2. Windows(times, {}, n) /\ LastWindow(times, {}, None)
  BY DEF Windows, LastWindow
<1>3. QED
  BY <1>1, <1>2 DEF RateOk

\* Time goes on.
LEMMA RateLater ==
  ASSUME NEW limiter, NEW n, NEW now \in Nat, NEW later \in Nat, now <= later, NEW times, NEW b,
         RateOk(limiter, times, b, n, now)
  PROVE  RateOk(limiter, times, b, n, later)
<1>1. Timely(times, later)
  <2>1. Timely(times, now)
    BY DEF RateOk
  <2>2. \A i \in 1 .. Len(times) : times[i] \in Nat
    BY <2>1 DEF Timely
  <2>3. QED
    BY <2>1, <2>2 DEF Timely
<1>2. QED
  BY <1>1 DEF RateOk

\* The buckets and the history are left alone, and so is the clock or it goes on.
LEMMA RateQuiet ==
  ASSUME RateInv, clock \in Nat, clock' \in Nat, clock <= clock', UNCHANGED <<mix, buckets, admitted>>
  PROVE  RateInv'
<1>1. \A r : Limit(r)' = Limit(r)
  BY DEF Limit, Policy
<1>2. ASSUME NEW k \in Keys, NEW r \in RateRoutes
      PROVE  RateOk(Mixes[mix].limiter, admitted[k][r], buckets[k][r], Limit(r), clock')
  BY <1>2, RateLater DEF RateInv
<1>3. QED
  BY <1>1, <1>2 DEF RateInv

\* A request comes to the limiter.
LEMMA RateLimit == ASSUME RateInv, StateOk, NEW s \in Slots, LimitRequest(s) PROVE RateInv'
<1> DEFINE q     == req[s]
           key   == rateLimitKeyForRequest(q.op)
           route == classifyRateLimitRoute(q.op.method, q.op.path)
           rule  == rateLimitRuleFor(Policy, route)
           b     == buckets[key][route]
           d     == commit(Mixes[mix].limiter, b, rule, clock, WindowMs)
           more  == Append(admitted[key][route], clock)
<1>0. clock \in Nat /\ mix \in DOMAIN Mixes /\ UNCHANGED <<mix, clock>>
  BY DEF StateOk, LimitRequest, rest
<1>1. CASE route = None
  <2>1. UNCHANGED <<buckets, admitted>>
    BY <1>1 DEF LimitRequest
  <2>2. QED
    BY <1>0, <2>1, RateQuiet
<1>2. CASE route # None
  <2>1. /\ buckets' = [buckets EXCEPT ![key][route] = d.bucket]
        /\ admitted' = IF d.allowed THEN [admitted EXCEPT ![key][route] = more] ELSE admitted
    BY <1>2 DEF LimitRequest
  <2>2. ASSUME key \in Keys, route \in RateRoutes
        PROVE  /\ RateOk(Mixes[mix].limiter, IF d.allowed THEN more ELSE admitted[key][route], d.bucket, Limit(route), clock)
               /\ d.bucket \in {None} \cup Buckets /\ more \in Seq(Nat)
    <3>1. RateOk(Mixes[mix].limiter, admitted[key][route], b, rule.maxRequests, clock) /\ rule.maxRequests \in Int
      BY <1>0, <2>2, LimitIs DEF RateInv, Limit
    <3> HIDE DEF rule, b, d
    <3>2. RateOk(Mixes[mix].limiter, IF d.allowed THEN more ELSE admitted[key][route], d.bucket, rule.maxRequests, clock)
      BY <1>0, <3>1, RateStep DEF d
    <3>3. d.bucket \in {None} \cup Buckets /\ more \in Seq(Nat)
      <4>1. \A l, t, x, n : RateOk(l, t, x, n, clock) => x \in {None} \cup Buckets
        BY DEF RateOk
      <4>2. admitted[key][route] \in Seq(Nat)
        BY <2>2 DEF RateInv
      <4>3. more \in Seq(Nat)
        BY <1>0, <4>2
      <4>4. QED
        BY <3>2, <4>1, <4>3
    <3>4. QED
      BY <3>2, <3>3 DEF rule, Limit
  <2>3. \A r : Limit(r)' = Limit(r)
    BY <1>0 DEF Limit, Policy
  <2> HIDE DEF key, route, d, more
  <2>4. /\ buckets' \in [Keys -> [RateRoutes -> {None} \cup Buckets]]
        /\ admitted' \in [Keys -> [RateRoutes -> Seq(Nat)]]
    <3>1. CASE key \in Keys /\ route \in RateRoutes
      BY <2>1, <2>2, <3>1 DEF RateInv
    <3>2. CASE ~(key \in Keys /\ route \in RateRoutes)
      BY <2>1, <3>2 DEF RateInv
    <3>3. QED
      BY <3>1, <3>2
  <2>5. ASSUME NEW k \in Keys, NEW r \in RateRoutes
        PROVE  RateOk(Mixes[mix].limiter, admitted'[k][r], buckets'[k][r], Limit(r), clock)
    <3>1. CASE k = key /\ r = route
      <4>1. buckets'[k][r] = d.bucket /\ admitted'[k][r] = IF d.allowed THEN more ELSE admitted[k][r]
        BY <2>1, <3>1 DEF RateInv
      <4>2. QED
        BY <2>2, <3>1, <4>1
    <3>2. CASE ~(k = key /\ r = route)
      <4>1. buckets'[k][r] = buckets[k][r] /\ admitted'[k][r] = admitted[k][r]
        BY <2>1, <3>2 DEF RateInv
      <4>2. QED
        BY <4>1 DEF RateInv
    <3>3. QED
      BY <3>1, <3>2
  <2>6. QED
    BY <1>0, <2>3, <2>4, <2>5 DEF RateInv
<1>3. QED
  BY <1>1, <1>2

\* The process starts with an empty limiter, and starts again with one.
LEMMA RateEmpty ==
  ASSUME buckets = [k \in Keys |-> [r \in RateRoutes |-> None]],
         admitted = [k \in Keys |-> [r \in RateRoutes |-> << >>]]
  PROVE  RateInv
<1>1. \A k \in Keys, r \in RateRoutes : buckets[k][r] = None /\ admitted[k][r] = << >>
  OBVIOUS
<1>2. << >> \in Seq(Nat)
  OBVIOUS
<1>3. /\ buckets \in [Keys -> [RateRoutes -> {None} \cup Buckets]]
      /\ admitted \in [Keys -> [RateRoutes -> Seq(Nat)]]
  BY <1>2
<1>4. QED
  BY <1>1, <1>3, RateFresh DEF RateInv

\* The limiter of a process that was started again has let nothing through.
LEMMA RateRestart == ASSUME Restart PROVE RateInv'
<1>1. \A k \in Keys, r \in RateRoutes : buckets'[k][r] = None /\ admitted'[k][r] = << >>
  BY DEF Restart
<1>2. << >> \in Seq(Nat)
  OBVIOUS
<1>3. /\ buckets' \in [Keys -> [RateRoutes -> {None} \cup Buckets]]
      /\ admitted' \in [Keys -> [RateRoutes -> Seq(Nat)]]
  BY <1>2 DEF Restart
<1>4. QED
  BY <1>1, <1>3, RateFresh DEF RateInv

\* Every step keeps the limiter in agreement with what it let through.
LEMMA RateKept == ASSUME IndInv, RateInv, [Next]_vars PROVE RateInv'
<1>0. StateOk /\ clock \in Nat
  BY DEF IndInv, StateOk
<1>1. CASE UNCHANGED <<mix, clock, buckets, admitted>>
  BY <1>0, <1>1, RateQuiet
<1>2. ASSUME NEW s \in Slots,
             \/ EnterRequest(s) \/ LoginRequest(s) \/ FindTarget(s) \/ AuthorizeRequest(s)
             \/ CheckRequest(s) \/ ChangeMembers(s) \/ createWorkspace(s)
             \/ setPolicy(s) \/ ChangeStore(s) \/ createConversation(s) \/ pruneMemory(s) \/ ShowConversations(s)
             \/ enforceRunQuota(s) \/ CountRun(s) \/ ReadPending(s) \/ recordApprovalDecision(s) \/ decideBudget(s)
             \/ interruptAny(s)
             \/ AuditRequest(s) \/ LimiterFails(s) \/ (\E ok \in BOOLEAN : CreateRun(s, ok) \/ FinishRun(s, ok))
             \/ (\E op \in Mixes[mix].ops : Issue(s, op))
      PROVE  UNCHANGED <<mix, clock, buckets, admitted>>
  BY <1>2 DEF EnterRequest, LoginRequest, FindTarget, AuthorizeRequest, CheckRequest, ChangeMembers,
     createWorkspace, setPolicy, ChangeStore, createConversation, pruneMemory, ShowConversations, enforceRunQuota,
     CountRun, ReadPending, recordApprovalDecision, decideBudget, interruptAny, AuditRequest, LimiterFails, CreateRun, FinishRun,
     Issue, traffic, rest
<1>3. ASSUME NEW r \in Runs, presentApprovalRequest(r) \/ createApproval(r) \/ waitForDecision(r) \/ waitTimesOut(r)
      PROVE  UNCHANGED <<mix, clock, buckets, admitted>>
  BY <1>3 DEF presentApprovalRequest, createApproval, waitForDecision, waitTimesOut, traffic, rest
<1>4. CASE Tick
  <2>1. clock' = clock + 1 /\ UNCHANGED <<mix, buckets, admitted>>
    BY <1>4 DEF Tick, rest
  <2>2. QED
    BY <1>0, <2>1, RateQuiet
<1>5. CASE UNCHANGED vars
  BY <1>1, <1>5 DEF vars
<1>6. QED
  BY <1>0, <1>1, <1>2, <1>3, <1>4, <1>5, RateLimit, RateRestart DEF Next, Step

\* Windows of at most n requests, opened WindowMs apart, let no 2n requests through in less.
LEMMA RateBound == ASSUME IndInv, RateInv PROVE AdmittedWithinLimit
<1> SUFFICES ASSUME NEW k \in Keys, NEW r \in RateRoutes, Limit(r) > 0, NEW i \in DOMAIN admitted[k][r],
                    i + 2 * Limit(r) - 1 \in DOMAIN admitted[k][r]
             PROVE  admitted[k][r][i + 2 * Limit(r) - 1] - admitted[k][r][i] >= WindowMs
  BY DEF AdmittedWithinLimit
<1>1. Limit(r) \in Int
  BY LimitIs DEF IndInv, StateOk
<1>2. RateOk(Mixes[mix].limiter, admitted[k][r], buckets[k][r], Limit(r), clock)
  BY DEF RateInv
<1>3. QED
  BY <1>1, <1>2, WindowsBound

(***************************************************************************)
(* The quota of runs.                                                      *)
(***************************************************************************)
\* The steps that may move a request to another workspace, or ask for the quota.
IsTurn(i) == i.do \in {"find", "allow", "quota"} \/ IsEffect(i, "createWorkspace")

\* What is left of a handler that counts a run, or is about to: the workspace is settled when the
\* quota is asked for, which happens before the run is counted, once.
Metered(p, counting) ==
  /\ \A i, j \in 1 .. Len(p) : i < j /\ p[i].do = "quota" => ~IsTurn(p[j])
  /\ \A i, j \in 1 .. Len(p) : i < j /\ p[i].do = "count" => p[j].do # "count"
  /\ counting => \A i \in 1 .. Len(p) : ~IsTurn(p[i])
  /\ \A i \in 1 .. Len(p) : p[i].do = "count" /\ ~counting => \E j \in 1 .. i - 1 : p[j].do = "quota"

\* One list of steps behind another.
LEMMA Concatenated ==
  ASSUME NEW a \in Seq(Instructions), NEW b \in Seq(Instructions)
  PROVE  /\ a \o b \in Seq(Instructions) /\ Len(a \o b) = Len(a) + Len(b) /\ Len(b) \in Nat /\ Len(a) \in Nat
         /\ \A k \in 1 .. Len(a) + Len(b) : IF k <= Len(a) THEN (a \o b)[k] = a[k] ELSE (a \o b)[k] = b[k - Len(a)]
<1>1. a \o b \in Seq(Instructions) /\ Len(a \o b) = Len(a) + Len(b) /\ Len(b) \in Nat /\ Len(a) \in Nat
  OBVIOUS
<1>2. \A k \in 1 .. Len(a) + Len(b) : IF k <= Len(a) THEN (a \o b)[k] = a[k] ELSE (a \o b)[k] = b[k - Len(a)]
  BY <1>1
<1>3. QED
  BY <1>1, <1>2

\* The steps of one list, then those of another.
Join(a, b) == a \o b

\* The same by the places of the two.
LEMMA Joined ==
  ASSUME NEW a \in Seq(Instructions), NEW b \in Seq(Instructions)
  PROVE  /\ Join(a, b) \in Seq(Instructions) /\ Len(Join(a, b)) = Len(a) + Len(b) /\ Len(b) \in Nat
         /\ \A k \in 1 .. Len(a) : Join(a, b)[k] = a[k]
         /\ \A k \in 1 .. Len(b) : Join(a, b)[k + Len(a)] = b[k]
<1> DEFINE c == a \o b
<1>3. /\ c \in Seq(Instructions) /\ Len(c) = Len(a) + Len(b) /\ Len(b) \in Nat /\ Len(a) \in Nat
      /\ \A k \in 1 .. Len(a) + Len(b) : IF k <= Len(a) THEN c[k] = a[k] ELSE c[k] = b[k - Len(a)]
  BY Concatenated, Zenon
<1> HIDE DEF c
<1>4. \A k \in 1 .. Len(b) : k + Len(a) \in 1 .. Len(a) + Len(b) /\ ~(k + Len(a) <= Len(a))
      /\ (k + Len(a)) - Len(a) = k
  BY <1>3
<1>5. \A k \in 1 .. Len(b) : c[k + Len(a)] = b[k]
  BY <1>3, <1>4
<1>6. \A k \in 1 .. Len(a) : c[k] = a[k]
  BY <1>3
<1>7. Join(a, b) = c
  BY DEF c, Join
<1>8. QED
  BY <1>3, <1>5, <1>6, <1>7

\* Every route is metered from its start.
LEMMA ProgramsMetered == ASSUME NEW op \in Ops PROVE Metered(Program(op), FALSE)
<1>1. op.do \in Routes
  BY GatewayAssumption
<1>2. ASSUME Unmetered(Program(op)) PROVE Metered(Program(op), FALSE)
  BY <1>2 DEF Unmetered, Metered
<1>3. CASE op.do \in {"login", "logout", "session"}
  <2> USE Constructors DEF Effects, Plains, Unmetered
  <2>1. op.do = "login" => Program(op) = login(op) /\ Unmetered(login(op))
    BY DEF Program, login
  <2>2. op.do = "logout" => Program(op) = logout(op) /\ Unmetered(logout(op))
    BY DEF Program, logout
  <2>3. op.do = "session" => Program(op) = session(op) /\ Unmetered(session(op))
    BY DEF Program, session
  <2> HIDE DEF Unmetered
  <2>4. QED
    BY <1>2, <1>3, <2>1, <2>2, <2>3
<1>4. Entry \in Seq(Instructions) /\ Len(Entry) = 2 /\ Entry[1].do = "limit" /\ Entry[2].do = "enter"
  BY Constructors DEF Entry, Plains
<1>5. op.do \notin {"login", "logout", "session"} => Program(op) = Entry \o Handler(op)
  BY DEF Program
<1>6. CASE op.do \notin {"login", "logout", "session", "postMessages"}
  <2> DEFINE e == Entry
             h == Handler(op)
             p == e \o h
  <2>1. h \in Seq(Instructions) /\ Unmetered(h)
    BY <1>1, <1>6, HandlersSound DEF Sound
  <2>2. e \in Seq(Instructions) /\ Len(e) = 2 /\ e[1].do = "limit" /\ e[2].do = "enter"
    BY <1>4
  <2> HIDE DEF e, h
  <2>3. p = Join(e, h)
    BY DEF Join
  <2> HIDE DEF p
  <2>6. Len(p) = 2 + Len(h) /\ Len(h) \in Nat
        /\ (\A k \in 1 .. 2 : p[k] = e[k]) /\ \A k \in 1 .. Len(h) : p[k + 2] = h[k]
    <3>1. h \in Seq(Instructions) /\ e \in Seq(Instructions)
      BY <2>1, <2>2
    <3>2. /\ p \in Seq(Instructions) /\ Len(p) = Len(e) + Len(h) /\ Len(h) \in Nat
          /\ \A k \in 1 .. Len(e) : p[k] = e[k]
          /\ \A k \in 1 .. Len(h) : p[k + Len(e)] = h[k]
      BY <2>3, <3>1, Joined
    <3>3. Len(e) = 2
      BY <2>2
    <3>4. QED
      BY <3>2, <3>3
  <2>4. Unmetered(p)
    <3> SUFFICES ASSUME NEW k \in 1 .. 2 + Len(h) PROVE p[k].do \notin {"quota", "count"}
      BY <2>6 DEF Unmetered
    <3>1. CASE k \in {1, 2}
      BY <2>2, <2>6, <3>1
    <3>2. CASE k \notin {1, 2}
      <4>1. k - 2 \in 1 .. Len(h) /\ (k - 2) + 2 = k
        BY <2>6, <3>2
      <4>2. p[k] = h[k - 2]
        BY <2>6, <4>1
      <4>3. QED
        BY <2>1, <4>1, <4>2 DEF Unmetered
    <3>3. QED
      BY <3>1, <3>2
  <2>5. QED
    BY <1>2, <1>5, <1>6, <2>4 DEF p, e, h
<1>7. CASE op.do = "postMessages"
  <2> DEFINE e == Entry
             h == <<Find("conversation", 404), Allow("runs.create"), Do("quota"), Need("ready", 409),
                    Need("body", 400),
                    Effect("createMessage"), Do("createRun")>>
             t == IF op.stream THEN <<Do("count"), Do("finish")>> ELSE <<Do("finish"), Do("count")>>
  <2>1. h \in Seq(Instructions) /\ Len(h) = 7 /\ h[1].do = "find" /\ h[2].do = "allow" /\ h[3].do = "quota"
        /\ h[4].do = "need" /\ h[5].do = "need" /\ h[6] = Effect("createMessage") /\ h[7].do = "createRun"
    BY Constructors DEF Permissions, Plains, Effects
  <2>2. h[6].do = "effect" /\ h[6].what = "createMessage"
    BY <2>1, Constructors DEF Effects
  <2>3. /\ t \in Seq(Instructions) /\ Len(t) = 2
        /\ t[1].do \in {"count", "finish"} /\ t[2].do \in {"count", "finish"} /\ t[1].do # t[2].do
    <3>1. CASE op.stream
      BY <3>1, Constructors DEF Plains
    <3>2. CASE ~op.stream
      BY <3>2, Constructors DEF Plains
    <3>3. QED
      BY <3>1, <3>2
  <2>4. Program(op) = e \o (h \o t)
    BY <1>5, <1>7 DEF Handler, postMessages
  <2>5. e \in Seq(Instructions) /\ Len(e) = 2 /\ e[1].do = "limit" /\ e[2].do = "enter"
    BY <1>4
  <2> HIDE DEF e, h, t
  <2> DEFINE g == h \o t
             p == e \o g
  <2>11. g = Join(h, t) /\ p = Join(e, g)
    BY DEF Join
  <2> HIDE DEF g, p
  <2>6. /\ g \in Seq(Instructions) /\ Len(g) = 9
        /\ (\A k \in 1 .. 7 : g[k] = h[k]) /\ \A k \in 1 .. 2 : g[k + 7] = t[k]
    <3>1. h \in Seq(Instructions) /\ t \in Seq(Instructions)
      BY <2>1, <2>3
    <3>2. /\ g \in Seq(Instructions) /\ Len(g) = Len(h) + Len(t)
          /\ \A k \in 1 .. Len(h) : g[k] = h[k]
          /\ \A k \in 1 .. Len(t) : g[k + Len(h)] = t[k]
      BY <2>11, <3>1, Joined
    <3>3. Len(h) = 7 /\ Len(t) = 2
      BY <2>1, <2>3
    <3>4. QED
      BY <3>2, <3>3
  <2>0. Len(p) = 11 /\ (\A k \in 1 .. 2 : p[k] = e[k]) /\ \A k \in 1 .. 9 : p[k + 2] = g[k]
    <3>1. e \in Seq(Instructions)
      BY <2>5
    <3>2. /\ Len(p) = Len(e) + Len(g)
          /\ \A k \in 1 .. Len(e) : p[k] = e[k]
          /\ \A k \in 1 .. Len(g) : p[k + Len(e)] = g[k]
      BY <2>6, <2>11, <3>1, Joined
    <3>3. Len(e) = 2 /\ Len(g) = 9
      BY <2>5, <2>6
    <3>4. QED
      BY <3>2, <3>3
  <2>7. /\ p[1].do = "limit" /\ p[2].do = "enter" /\ p[3].do = "find" /\ p[4].do = "allow" /\ p[5].do = "quota"
        /\ p[6].do = "need" /\ p[7].do = "need" /\ p[8].do = "effect" /\ p[8].what = "createMessage"
           /\ p[9].do = "createRun"
        /\ p[10].do \in {"count", "finish"} /\ p[11].do \in {"count", "finish"} /\ p[10].do # p[11].do
    <3>1. p[1] = e[1] /\ p[2] = e[2]
      BY <2>0
    <3>2. p[1 + 2] = g[1] /\ p[2 + 2] = g[2] /\ p[3 + 2] = g[3] /\ p[4 + 2] = g[4]
          /\ p[5 + 2] = g[5] /\ p[6 + 2] = g[6] /\ p[7 + 2] = g[7]
          /\ p[8 + 2] = g[8] /\ p[9 + 2] = g[9]
      BY <2>0
    <3>3. g[1 + 7] = t[1] /\ g[2 + 7] = t[2]
      BY <2>6
    <3>4. g[1] = h[1] /\ g[2] = h[2] /\ g[3] = h[3] /\ g[4] = h[4]
          /\ g[5] = h[5] /\ g[6] = h[6] /\ g[7] = h[7]
      BY <2>6
    <3>5. QED
      BY <2>1, <2>2, <2>3, <2>5, <3>1, <3>2, <3>3, <3>4
  <2>8. \A k \in 1 .. 11 : /\ p[k].do = "quota" <=> k = 5
                           /\ IsTurn(p[k]) => k <= 5
                           /\ p[k].do = "count" => k \in {10, 11}
    BY <2>7 DEF IsTurn, IsEffect
  <2>9. Metered(p, FALSE)
    BY <2>0, <2>7, <2>8 DEF Metered
  <2>10. QED
    BY <2>4, <2>9 DEF p, g
<1>8. QED
  BY <1>3, <1>6, <1>7

\* A step done: what is left is metered, and counting from the quota to the count.
LEMMA MeteredTail ==
  ASSUME NEW p \in Seq(Instructions), p # << >>, NEW c \in BOOLEAN, Metered(p, c)
  PROVE  /\ p[1].do \notin {"quota", "count"} => Metered(Tail(p), c)
         /\ p[1].do = "quota" => Metered(Tail(p), TRUE)
         /\ p[1].do = "count" => c /\ Metered(Tail(p), FALSE)
         /\ IsTurn(p[1]) => ~c
<1> DEFINE t == Tail(p)
<1>1. Len(p) \in Nat \ {0} /\ Len(t) = Len(p) - 1 /\ 1 \in 1 .. Len(p)
      /\ \A i \in 1 .. Len(t) : i + 1 \in 1 .. Len(p) /\ t[i] = p[i + 1]
  OBVIOUS
<1> HIDE DEF t
<1>2. /\ \A i, j \in 1 .. Len(t) : i < j /\ t[i].do = "quota" => ~IsTurn(t[j])
      /\ \A i, j \in 1 .. Len(t) : i < j /\ t[i].do = "count" => t[j].do # "count"
  <2> SUFFICES ASSUME NEW i \in 1 .. Len(t), NEW j \in 1 .. Len(t), i < j
               PROVE  (t[i].do = "quota" => ~IsTurn(t[j])) /\ (t[i].do = "count" => t[j].do # "count")
    OBVIOUS
  <2>1. i + 1 \in 1 .. Len(p) /\ j + 1 \in 1 .. Len(p) /\ i + 1 < j + 1 /\ t[i] = p[i + 1] /\ t[j] = p[j + 1]
    BY <1>1
  <2>2. QED
    BY <2>1 DEF Metered
<1>3. CASE p[1].do \notin {"quota", "count"}
  <2>1. c => \A i \in 1 .. Len(t) : ~IsTurn(t[i])
    BY <1>1 DEF Metered
  <2>2. ASSUME NEW i \in 1 .. Len(t), t[i].do = "count", ~c PROVE \E j \in 1 .. i - 1 : t[j].do = "quota"
    <3>1. PICK j \in 1 .. (i + 1) - 1 : p[j].do = "quota"
      BY <1>1, <2>2 DEF Metered
    <3>2. j # 1
      BY <1>3, <3>1
    <3>3. j - 1 \in 1 .. i - 1 /\ j - 1 \in 1 .. Len(t) /\ (j - 1) + 1 = j
      BY <1>1, <3>2
    <3>4. t[j - 1] = p[j]
      BY <1>1, <3>3
    <3>5. QED
      BY <3>1, <3>3, <3>4
  <2>3. QED
    BY <1>2, <1>3, <2>1, <2>2, <1>1 DEF Metered, t
<1>4. CASE p[1].do = "quota"
  <2>1. \A i \in 1 .. Len(t) : ~IsTurn(t[i])
    <3> SUFFICES ASSUME NEW i \in 1 .. Len(t) PROVE ~IsTurn(t[i])
      OBVIOUS
    <3>1. 1 < i + 1 /\ i + 1 \in 1 .. Len(p) /\ t[i] = p[i + 1]
      BY <1>1
    <3>2. QED
      BY <1>1, <1>4, <3>1 DEF Metered
  <2>2. IsTurn(p[1])
    BY <1>4 DEF IsTurn
  <2>3. QED
    BY <1>1, <1>2, <1>4, <2>1, <2>2 DEF Metered, t
<1>5. CASE p[1].do = "count"
  <2>1. \A i \in 1 .. Len(t) : t[i].do # "count"
    <3> SUFFICES ASSUME NEW i \in 1 .. Len(t) PROVE t[i].do # "count"
      OBVIOUS
    <3>1. 1 < i + 1 /\ i + 1 \in 1 .. Len(p) /\ t[i] = p[i + 1]
      BY <1>1
    <3>2. QED
      BY <1>1, <1>5, <3>1 DEF Metered
  <2>2. c
    BY <1>1, <1>5 DEF Metered
  <2>3. QED
    BY <1>1, <1>2, <1>5, <2>1, <2>2 DEF Metered, t, IsTurn, IsEffect
<1>6. QED
  BY <1>3, <1>4, <1>5

\* A refusal is not metered.
LEMMA MeteredStopped == ASSUME NEW p, Stopped(p), NEW c PROVE Metered(p, c)
BY UnderStopped DEF Metered, IsTurn, IsEffect

\* What a step makes of a request as far as the quota goes: it stays metered, and it counts only
\* where it counted before.
Follows(q, p) ==
  Busy(p) => /\ Metered(p.todo, p.counting)
             /\ p.counting => Busy(q) /\ q.counting /\ p.ws = q.ws

\* It passes a step, which may have changed its workspace if it does not count, or is stopped.
Moved(q, p) ==
  \/ Stopped(p.todo) /\ p.counting \in {FALSE, q.counting} /\ p.ws = q.ws
  \/ p.todo = Tail(q.todo) /\ p.counting = q.counting /\ (p.ws = q.ws \/ IsTurn(q.todo[1]))

\* A request with what the quota needs to know of it.
Full(q) == {"op", "todo", "ws", "counting", "answer"} \subseteq DOMAIN q

\* Every request under way has them.
LEMMA RequestFull == \A q \in Requests : Full(q)
BY DEF Requests, Full

\* A step that is neither the question for the quota nor the count meters nothing new.
LEMMA MovedFollows ==
  ASSUME NEW q \in Requests, Busy(q), Metered(q.todo, q.counting), q.todo[1].do \notin {"quota", "count"},
         NEW p, Moved(q, p)
  PROVE  Follows(q, p)
<1>1. q.todo \in Seq(Instructions) /\ q.todo # << >> /\ q.counting \in BOOLEAN
  BY SlotIs DEF Requests
<1>2. Metered(Tail(q.todo), q.counting) /\ (IsTurn(q.todo[1]) => ~q.counting)
  BY <1>1, MeteredTail
<1>3. CASE Stopped(p.todo) /\ p.counting \in {FALSE, q.counting} /\ p.ws = q.ws
  <2>1. Metered(p.todo, p.counting)
    BY <1>3, MeteredStopped
  <2>2. p.counting => q.counting
    BY <1>3
  <2>3. QED
    BY <1>3, <2>1, <2>2 DEF Follows
<1>4. CASE p.todo = Tail(q.todo) /\ p.counting = q.counting /\ (p.ws = q.ws \/ IsTurn(q.todo[1]))
  BY <1>2, <1>4 DEF Follows
<1>5. QED
  BY <1>3, <1>4 DEF Moved

\* The three things that become of a request.
LEMMA MovedFields ==
  ASSUME NEW q \in Requests
  PROVE  /\ \A k : Full(k) /\ k.todo = q.todo /\ k.counting = q.counting /\ (k.ws = q.ws \/ IsTurn(q.todo[1]))
              => Moved(q, Advance(k)) /\ Full(Advance(k))
         /\ \A c : Moved(q, End(q, c)) /\ Full(End(q, c))
         /\ \A c \in Nat : Moved(q, Refuse(q, c)) /\ Full(Refuse(q, c))
<1>1. ASSUME NEW k, Full(k) PROVE Advance(k).todo = Tail(k.todo) /\ Advance(k).counting = k.counting
             /\ Advance(k).ws = k.ws
                                  /\ Full(Advance(k))
  BY <1>1 DEF Full, Advance
<1>2. ASSUME NEW c PROVE End(q, c).todo = << >> /\ End(q, c).counting = FALSE /\ End(q, c).ws = q.ws
             /\ Full(End(q, c))
  BY RequestFull DEF Full, End
<1>3. ASSUME NEW c \in Nat
      PROVE  Refuse(q, c).todo = <<[do |-> "audit", code |-> c]>> /\ Refuse(q, c).counting = q.counting
             /\ Refuse(q, c).ws = q.ws
             /\ Full(Refuse(q, c))
  BY RequestFull DEF Full, Refuse
<1>4. \A c \in Nat : Stopped(Refuse(q, c).todo)
  BY <1>3 DEF Stopped
<1>5. \A c : Stopped(End(q, c).todo)
  BY <1>2 DEF Stopped
<1>6. \A k : Full(k) /\ k.todo = q.todo /\ k.counting = q.counting
      /\ (k.ws = q.ws \/ IsTurn(q.todo[1])) => Moved(q, Advance(k))
  BY <1>1 DEF Moved
<1>7. \A c : Moved(q, End(q, c))
  BY <1>2, <1>5 DEF Moved
<1>8. \A c \in Nat : Moved(q, Refuse(q, c))
  BY <1>3, <1>4 DEF Moved
<1>9. QED
  BY <1>1, <1>2, <1>3, <1>6, <1>7, <1>8

(***************************************************************************)
(* The counters.                                                           *)
(***************************************************************************)
Days == {c \div DayLength : c \in Nat}
Usages == [day : Days, runsToday : Nat]
Counters(w) == {s \in Slots : Busy(req[s]) /\ req[s].counting /\ req[s].ws = w}

\* Runs of today, and those that are going to be counted, are within the excess that is allowed;
\* the largest quota of the day is at least the one in force.
QuotaOk(policy, u, c, wide, n) ==
  c # None =>
    /\ policy # None /\ policy <= c
    /\ u # None => u.runsToday + n <= c + (IF c = 0 THEN wide ELSE wide - 1)

QuotaTypes ==
  /\ policies \in [Workspaces -> {None} \cup Nat] /\ ceiling \in [Workspaces -> {None} \cup Nat]
  /\ usage \in [Workspaces -> {None} \cup Usages] /\ width \in [Workspaces -> Nat]
QuotaInv ==
  /\ QuotaTypes
  /\ \A s \in Slots : Busy(req[s]) => Metered(req[s].todo, req[s].counting)
  /\ \A w \in Workspaces : QuotaOk(policies[w], usage[w], ceiling[w], width[w], Counting(w))

\* Counting grows with the requests that count.
LEMMA CountIs ==
  ASSUME NEW A, NEW B, A \subseteq Slots, B \subseteq Slots
  PROVE  /\ Cardinality(A) \in Nat
         /\ A \subseteq B => Cardinality(A) <= Cardinality(B)
         /\ \A s \in Slots : A \subseteq B \cup {s} => Cardinality(A) <= Cardinality(B) + 1
         /\ \A s \in B : A \subseteq B \ {s} => Cardinality(A) + 1 <= Cardinality(B)
<1>1. IsFiniteSet(Slots)
  <2>1. 1 \in Int /\ MaxSlots \in Int
    BY GatewayAssumption
  <2>2. QED
    BY <2>1, FS_Interval DEF Slots
<1>2. IsFiniteSet(A) /\ IsFiniteSet(B)
  BY <1>1, FS_Subset
<1>3. Cardinality(A) \in Nat /\ Cardinality(B) \in Nat
  BY <1>2, FS_CardinalityType
<1>4. A \subseteq B => Cardinality(A) <= Cardinality(B)
  BY <1>2, FS_Subset
<1>5. ASSUME NEW s \in Slots, A \subseteq B \cup {s} PROVE Cardinality(A) <= Cardinality(B) + 1
  <2>1. IsFiniteSet(B \cup {s})
        /\ (Cardinality(B \cup {s}) = Cardinality(B) \/ Cardinality(B \cup {s}) = Cardinality(B) + 1)
    BY <1>2, FS_AddElement
  <2>2. Cardinality(A) <= Cardinality(B \cup {s})
    BY <1>5, <2>1, FS_Subset
  <2>3. QED
    BY <1>3, <2>1, <2>2
<1>6. ASSUME NEW s \in B, A \subseteq B \ {s} PROVE Cardinality(A) + 1 <= Cardinality(B)
  <2>1. IsFiniteSet(B \ {s}) /\ Cardinality(B \ {s}) = Cardinality(B) - 1
    BY <1>2, FS_RemoveElement
  <2>2. Cardinality(A) <= Cardinality(B \ {s})
    BY <1>6, <2>1, FS_Subset
  <2>3. QED
    BY <1>3, <2>1, <2>2
<1>7. QED
  BY <1>3, <1>4, <1>5, <1>6

\* Fewer that count, or a wider day, are as well.
LEMMA QuotaLess ==
  ASSUME NEW policy, NEW u \in {None} \cup Usages, NEW c \in {None} \cup Nat, NEW wide \in Nat, NEW n \in Nat,
         NEW m \in Nat,
         m <= n, QuotaOk(policy, u, c, wide, n)
  PROVE  QuotaOk(policy, u, c, wide, m)
<1>1. u # None => u.runsToday \in Nat
  BY DEF Usages
<1>2. QED
  BY <1>1 DEF QuotaOk

\* Nothing of the quotas is touched, and no request starts to count.
LEMMA QuotaQuiet ==
  ASSUME QuotaInv, UNCHANGED quotas, \A s \in Slots : Follows(req[s], req'[s])
  PROVE  QuotaInv'
<1>1. UNCHANGED <<policies, usage, ceiling, width>>
  BY DEF quotas
<1>2. \A w : Counters(w)' \subseteq Counters(w)
  BY DEF Counters, Follows
<1>3. \A w : Counting(w)' <= Counting(w) /\ Counting(w) \in Nat /\ Counting(w)' \in Nat
  <2> SUFFICES ASSUME NEW w PROVE Counting(w)' <= Counting(w) /\ Counting(w) \in Nat /\ Counting(w)' \in Nat
    OBVIOUS
  <2>1. Counting(w) = Cardinality(Counters(w)) /\ Counting(w)' = Cardinality(Counters(w)')
    BY DEF Counting, Counters
  <2>2. Counters(w) \subseteq Slots /\ Counters(w)' \subseteq Slots /\ Counters(w)' \subseteq Counters(w)
    BY <1>2 DEF Counters
  <2>3. QED
    BY <2>1, <2>2, CountIs
<1>4. \A s \in Slots : Busy(req'[s]) => Metered(req'[s].todo, req'[s].counting)
  BY DEF Follows
<1>5. \A w \in Workspaces : QuotaOk(policies[w], usage[w], ceiling[w], width[w], Counting(w)')
  <2> SUFFICES ASSUME NEW w \in Workspaces PROVE QuotaOk(policies[w], usage[w], ceiling[w], width[w], Counting(w)')
    OBVIOUS
  <2>1. /\ usage[w] \in {None} \cup Usages /\ ceiling[w] \in {None} \cup Nat /\ width[w] \in Nat
        /\ QuotaOk(policies[w], usage[w], ceiling[w], width[w], Counting(w))
    BY DEF QuotaInv, QuotaTypes
  <2>2. QED
    BY <1>3, <2>1, QuotaLess
<1>6. QuotaTypes'
  BY <1>1 DEF QuotaInv, QuotaTypes
<1>7. \A w \in Workspaces : QuotaOk(policies'[w], usage'[w], ceiling'[w], width'[w], Counting(w)')
  BY <1>1, <1>5
<1>8. QED
  BY <1>4, <1>6, <1>7 DEF QuotaInv, Busy

\* One request moves on, the others stay as they are.
LEMMA MovedStep ==
  ASSUME IndInv, QuotaInv, NEW s \in Slots, NEW d, At(s, d), d \notin {"quota", "count"},
         NEW p, Moved(req[s], p), req' = [req EXCEPT ![s] = p]
  PROVE  \A t \in Slots : Follows(req[t], req'[t])
<1>1. req[s] \in Requests /\ req[s].todo[1].do = d /\ Busy(req[s]) /\ req \in [Slots -> Requests \cup {Idle}]
  BY AtIs DEF At, IndInv, RequestsOk
<1>2. Metered(req[s].todo, req[s].counting)
  BY <1>1 DEF QuotaInv
<1>3. Follows(req[s], p)
  BY <1>1, <1>2, MovedFollows
<1>4. req'[s] = p /\ \A t \in Slots \ {s} : req'[t] = req[t]
  BY <1>1
<1>5. ASSUME NEW t \in Slots \ {s} PROVE Follows(req[t], req[t])
  BY <1>5 DEF Follows, QuotaInv
<1>6. QED
  BY <1>3, <1>4, <1>5

\* A request learns that its user's reach has grown, or that a conversation was born.
Told(a, b) == b = a \/ \E x : b = [a EXCEPT !.reach = x] \/ b = [a EXCEPT !.born = x]

\* What it learns does not touch what it counts.
LEMMA ToldFollows ==
  ASSUME NEW q, NEW a, NEW b, Follows(q, a), a = Idle \/ Full(a), Told(a, b)
  PROVE  Follows(q, b)
<1>1. CASE b = a
  BY <1>1
<1>2. ASSUME NEW x, b = [a EXCEPT !.reach = x] \/ b = [a EXCEPT !.born = x] PROVE Follows(q, b)
  <2>1. CASE a = Idle
    <3>1. b.op = None
      BY <1>2, <2>1 DEF Idle
    <3>2. QED
      BY <3>1 DEF Follows, Busy
  <2>2. CASE Full(a)
    <3>1. b.op = a.op /\ b.todo = a.todo /\ b.counting = a.counting /\ b.ws = a.ws
      BY <1>2, <2>2 DEF Full
    <3>2. QED
      BY <3>1 DEF Follows, Busy
  <2>3. QED
    BY <2>1, <2>2
<1>3. QED
  BY <1>1, <1>2 DEF Told

\* The requests are told of a change of the directory or of a new conversation besides.
LEMMA ToldStep ==
  ASSUME IndInv, QuotaInv, NEW s \in Slots, NEW d, At(s, d), d \notin {"quota", "count"},
         NEW p, Moved(req[s], p), Full(p), NEW r, r = [req EXCEPT ![s] = p],
         \A t \in Slots : Told(r[t], req'[t])
  PROVE  \A t \in Slots : Follows(req[t], req'[t])
<1>1. req[s] \in Requests /\ req[s].todo[1].do = d /\ Busy(req[s]) /\ req \in [Slots -> Requests \cup {Idle}]
  BY AtIs DEF At, IndInv, RequestsOk
<1>2. Metered(req[s].todo, req[s].counting)
  BY <1>1 DEF QuotaInv
<1>3. Follows(req[s], p)
  BY <1>1, <1>2, MovedFollows
<1>4. r[s] = p /\ \A t \in Slots \ {s} : r[t] = req[t]
  BY <1>1
<1>5. ASSUME NEW t \in Slots PROVE Follows(req[t], r[t]) /\ (r[t] = Idle \/ Full(r[t]))
  <2>1. CASE t = s
    BY <1>3, <1>4, <2>1
  <2>2. CASE t # s
    <3>1. r[t] = req[t] /\ (req[t] \in Requests \/ req[t] = Idle)
      BY <1>1, <1>4, <2>2
    <3>2. Follows(req[t], req[t])
      BY DEF Follows, QuotaInv
    <3>3. QED
      BY <3>1, <3>2, RequestFull
  <2>3. QED
    BY <2>1, <2>2
<1>6. QED
  BY <1>5, ToldFollows

\* The steps that leave the quotas alone.
LEMMA QuotaPassed ==
  ASSUME IndInv, QuotaInv, NEW s \in Slots,
         \/ LimitRequest(s) \/ LimiterFails(s) \/ EnterRequest(s) \/ LoginRequest(s) \/ CheckRequest(s)
         \/ AuditRequest(s) \/ pruneMemory(s)
         \/ \E ok \in BOOLEAN : CreateRun(s, ok) \/ FinishRun(s, ok)
  PROVE  QuotaInv'
<1> USE DEF Become
<1> DEFINE q == req[s]
           Passed == req' = [req EXCEPT ![s] = Advance(q)]
           EndedWith(c) == req' = [req EXCEPT ![s] = End(q, c)]
           RefusedWith(c) == req' = [req EXCEPT ![s] = Refuse(q, c)]
<1>0. ASSUME NEW d, At(s, d), d \notin {"quota", "count"}, UNCHANGED quotas,
             Passed \/ (\E c : EndedWith(c)) \/ \E c \in Nat : RefusedWith(c)
      PROVE  QuotaInv'
  <2>1. q \in Requests
    BY <1>0, AtIs
  <2>2. Moved(q, Advance(q)) /\ (\A c : Moved(q, End(q, c))) /\ \A c \in Nat : Moved(q, Refuse(q, c))
    BY <2>1, RequestFull, MovedFields
  <2>3. PICK p : Moved(q, p) /\ req' = [req EXCEPT ![s] = p]
    BY <1>0, <2>2
  <2>4. QED
    BY <1>0, <2>3, MovedStep, QuotaQuiet
<1>1. CASE LimitRequest(s)
  <2>1. UNCHANGED quotas /\ At(s, "limit")
    BY <1>1, Zenon DEF LimitRequest
  <2>2. Passed \/ EndedWith(429)
    BY <1>1 DEF LimitRequest
  <2>3. QED
    BY <1>0, <2>1, <2>2
<1>2. CASE LimiterFails(s)
  <2>1. UNCHANGED quotas /\ At(s, "limit")
    BY <1>2, Zenon DEF LimiterFails
  <2>2. Passed \/ EndedWith(503)
    BY <1>2 DEF LimiterFails
  <2>3. QED
    BY <1>0, <2>1, <2>2
<1>3. CASE EnterRequest(s)
  <2>1. UNCHANGED quotas /\ At(s, "enter")
    BY <1>3, Zenon DEF EnterRequest
  <2>2. Passed \/ EndedWith(401) \/ EndedWith(403)
    BY <1>3, ZenonT(60) DEF EnterRequest
  <2>3. QED
    BY <1>0, <2>1, <2>2
<1>4. CASE LoginRequest(s)
  <2>1. UNCHANGED quotas /\ At(s, "login")
    BY <1>4, Zenon DEF LoginRequest
  <2>2. Passed \/ EndedWith(200) \/ EndedWith(400) \/ RefusedWith(429) \/ RefusedWith(401)
    BY <1>4 DEF LoginRequest
  <2>3. QED
    BY <1>0, <2>1, <2>2
<1>5. CASE CheckRequest(s)
  <2>1. UNCHANGED quotas /\ At(s, "need")
    BY <1>5, Zenon DEF CheckRequest
  <2>2. Passed \/ \E c : EndedWith(c)
    BY <1>5 DEF CheckRequest
  <2>3. QED
    BY <1>0, <2>1, <2>2
<1>6. CASE AuditRequest(s)
  <2>1. UNCHANGED quotas /\ At(s, "audit")
    BY <1>6, Zenon DEF AuditRequest
  <2>2. Passed \/ \E c : EndedWith(c)
    BY <1>6 DEF AuditRequest
  <2>3. QED
    BY <1>0, <2>1, <2>2
<1>7. CASE pruneMemory(s)
  <2>1. UNCHANGED quotas /\ At(s, "prune") /\ Passed
    BY <1>7, Zenon DEF pruneMemory
  <2>2. QED
    BY <1>0, <2>1
<1>10. ASSUME NEW ok \in BOOLEAN, CreateRun(s, ok) \/ FinishRun(s, ok) PROVE QuotaInv'
  <2>1. UNCHANGED quotas /\ (At(s, "createRun") \/ At(s, "finish"))
    BY <1>10, Zenon DEF CreateRun, FinishRun
  <2>2. Passed \/ EndedWith(400)
    BY <1>10 DEF CreateRun, FinishRun
  <2>3. QED
    BY <1>0, <2>1, <2>2
<1>11. QED
  BY <1>1, <1>2, <1>3, <1>4, <1>5, <1>6, <1>7, <1>10

\* A request that remembers something more moves on just as well; its workspace changes only at
\* the steps that may change it.
LEMMA MovedVariants ==
  ASSUME NEW q \in Requests, NEW x, NEW y
  PROVE  /\ IsTurn(q.todo[1]) => /\ Moved(q, Advance([q EXCEPT !.ws = x])) /\ Full(Advance([q EXCEPT !.ws = x]))
                                 /\ Moved(q, Advance([q EXCEPT !.ws = x, !.role = y]))
         /\ Moved(q, Advance([q EXCEPT !.wrote = x])) /\ Full(Advance([q EXCEPT !.wrote = x]))
         /\ Moved(q, Advance([q EXCEPT !.shown = x])) /\ Moved(q, Advance([q EXCEPT !.pending = x]))
         /\ Moved(q, Advance(q)) /\ Full(Advance(q))
<1>1. ASSUME NEW k, Full(k), k.todo = q.todo, k.counting = q.counting, k.ws = q.ws \/ IsTurn(q.todo[1])
      PROVE  Moved(q, Advance(k)) /\ Full(Advance(k))
  BY <1>1, MovedFields
<1>2. Full(q)
  BY RequestFull
<1>3. ASSUME NEW k, k = [q EXCEPT !.ws = x] \/ k = [q EXCEPT !.ws = x, !.role = y]
      PROVE  Full(k) /\ k.todo = q.todo /\ k.counting = q.counting
  BY <1>2, <1>3 DEF Full
<1>4. ASSUME NEW k, k = [q EXCEPT !.wrote = x] \/ k = [q EXCEPT !.shown = x] \/ k = [q EXCEPT !.pending = x]
      PROVE  Full(k) /\ k.todo = q.todo /\ k.counting = q.counting /\ k.ws = q.ws
  BY <1>2, <1>4 DEF Full
<1>5. QED
  BY <1>1, <1>2, <1>3, <1>4

\* Lookups, permissions, changes of the store and what is shown.
LEMMA QuotaChanged ==
  ASSUME IndInv, QuotaInv, NEW s \in Slots,
         \/ FindTarget(s) \/ AuthorizeRequest(s) \/ ChangeStore(s) \/ ShowConversations(s) \/ ReadPending(s)
         \/ recordApprovalDecision(s) \/ decideBudget(s) \/ interruptAny(s)
  PROVE  QuotaInv'
<1> USE DEF Become
<1> DEFINE q == req[s]
<1>0. ASSUME NEW d, At(s, d), d \notin {"quota", "count"}, UNCHANGED quotas,
             NEW p, req' = [req EXCEPT ![s] = p], Moved(q, p)
      PROVE  QuotaInv'
  BY <1>0, MovedStep, QuotaQuiet
<1>1. ASSUME NEW d, At(s, d)
      PROVE  q \in Requests /\ q.todo[1].do = d /\ (\A c : Moved(q, End(q, c)))
             /\ \A c \in Nat : Moved(q, Refuse(q, c))
  BY <1>1, AtIs, MovedFields
<1>2. CASE FindTarget(s)
  <2>1. UNCHANGED quotas /\ At(s, "find")
    BY <1>2, Zenon DEF FindTarget
  <2>2. q \in Requests /\ IsTurn(q.todo[1])
    BY <1>1, <2>1 DEF IsTurn
  <2>3. PICK w : req' = [req EXCEPT ![s] = End(q, Instruction(q).code)]
                 \/ req' = [req EXCEPT ![s] = Advance([q EXCEPT !.ws = w])]
    BY <1>2 DEF FindTarget
  <2>4. Moved(q, Advance([q EXCEPT !.ws = w])) /\ Moved(q, End(q, Instruction(q).code))
    BY <1>1, <2>1, <2>2, MovedVariants
  <2>5. QED
    BY <1>0, <2>1, <2>3, <2>4
<1>3. CASE AuthorizeRequest(s)
  <2>1. UNCHANGED quotas /\ At(s, "allow")
    BY <1>3, Zenon DEF AuthorizeRequest
  <2>2. q \in Requests /\ IsTurn(q.todo[1])
    BY <1>1, <2>1 DEF IsTurn
  <2> DEFINE
        known == q.ws = None \/ q.ws \in spaces
        ms == IF AuthEnabled /\ known /\ q.ws \in {None, PersonalOf[q.op.user]}
              THEN ensurePersonalWorkspace(members, q.op.user) ELSE members
        w == IF q.ws = None THEN PersonalOf[q.op.user] ELSE q.ws
        x == IF AuthEnabled /\ ~known THEN None ELSE roleOf(ms, q.op.user, w)
        ok == requirePermission(AuthEnabled, x, Instruction(q).permission)
  <2>5. req' = [req EXCEPT ![s] = IF ok THEN Advance([q EXCEPT !.ws = w, !.role = x]) ELSE Refuse(q, 403)]
    BY <1>3, Zenon DEF AuthorizeRequest
  <2> HIDE DEF w, x, ok
  <2>3. \/ req' = [req EXCEPT ![s] = Refuse(q, 403)]
        \/ req' = [req EXCEPT ![s] = Advance([q EXCEPT !.ws = w, !.role = x])]
    <3>1. CASE ok
      BY <2>5, <3>1, Zenon
    <3>2. CASE ~ok
      BY <2>5, <3>2, Zenon
    <3>3. QED
      BY <3>1, <3>2
  <2>4. Moved(q, Advance([q EXCEPT !.ws = w, !.role = x])) /\ Moved(q, Refuse(q, 403))
    <3>1. Moved(q, Advance([q EXCEPT !.ws = w, !.role = x]))
      BY <2>2, MovedVariants
    <3>2. Moved(q, Refuse(q, 403))
      BY <1>1, <2>1
    <3>3. QED
      BY <3>1, <3>2
  <2>6. QED
    BY <1>0, <2>1, <2>3, <2>4
<1>4. CASE ChangeStore(s)
  <2>1. UNCHANGED quotas /\ At(s, "effect")
    BY <1>4, Zenon DEF ChangeStore
  <2>2. q \in Requests
    BY <1>1, <2>1
  <2>3. PICK w : req' = [req EXCEPT ![s] = End(q, 404)] \/ req' = [req EXCEPT ![s] = Advance([q EXCEPT !.wrote = w])]
    BY <1>4 DEF ChangeStore
  <2>4. Moved(q, Advance([q EXCEPT !.wrote = w])) /\ Moved(q, End(q, 404))
    BY <1>1, <2>1, <2>2, MovedVariants
  <2>5. QED
    BY <1>0, <2>1, <2>3, <2>4
<1>5. CASE ShowConversations(s)
  <2>1. UNCHANGED quotas /\ At(s, "show") /\ req' = [req EXCEPT ![s] = Advance([q EXCEPT !.shown = Shown(q)])]
    BY <1>5, Zenon DEF ShowConversations
  <2>2. q \in Requests
    BY <1>1, <2>1
  <2>3. Moved(q, Advance([q EXCEPT !.shown = Shown(q)]))
    BY <2>2, MovedVariants
  <2>4. QED
    BY <1>0, <2>1, <2>3
<1>6. CASE ReadPending(s)
  <2>1. UNCHANGED quotas /\ At(s, "readPending")
    BY <1>6, Zenon DEF ReadPending
  <2>2. q \in Requests
    BY <1>1, <2>1
  <2>3. PICK x : \/ req' = [req EXCEPT ![s] = End(q, 404)] \/ req' = [req EXCEPT ![s] = End(q, 409)]
                 \/ req' = [req EXCEPT ![s] = Advance([q EXCEPT !.pending = x])]
    BY <1>6 DEF ReadPending
  <2>4. Moved(q, Advance([q EXCEPT !.pending = x])) /\ Moved(q, End(q, 404)) /\ Moved(q, End(q, 409))
    BY <1>1, <2>1, <2>2, MovedVariants
  <2>5. QED
    BY <1>0, <2>1, <2>3, <2>4
<1>7. CASE recordApprovalDecision(s)
  <2>1. UNCHANGED quotas /\ At(s, "commitDecision")
    BY <1>7, Zenon DEF recordApprovalDecision
  <2>2. q \in Requests
    BY <1>1, <2>1
  <2>3. req' = [req EXCEPT ![s] = End(q, 409)] \/ req' = [req EXCEPT ![s] = Advance([q EXCEPT !.wrote = q.ws])]
    BY <1>7 DEF recordApprovalDecision
  <2>4. Moved(q, Advance([q EXCEPT !.wrote = q.ws])) /\ Moved(q, End(q, 409))
    BY <1>1, <2>1, <2>2, MovedVariants
  <2>5. QED
    BY <1>0, <2>1, <2>3, <2>4
<1>9. ASSUME NEW d \in {"decideBudget", "interruptAny"}, At(s, d), UNCHANGED quotas,
             \/ req' = [req EXCEPT ![s] = End(q, 404)]
             \/ req' = [req EXCEPT ![s] = End(q, 409)]
             \/ req' = [req EXCEPT ![s] = Advance([q EXCEPT !.wrote = WorkspaceOfTarget(q.op)])]
      PROVE  QuotaInv'
  <2>1. q \in Requests
    BY <1>1, <1>9
  <2>2. Moved(q, Advance([q EXCEPT !.wrote = WorkspaceOfTarget(q.op)])) /\ Moved(q, End(q, 404))
        /\ Moved(q, End(q, 409))
    BY <1>1, <1>9, <2>1, MovedVariants
  <2>3. QED
    BY <1>0, <1>9, <2>2
<1>10. CASE decideBudget(s)
  <2>1. UNCHANGED quotas /\ At(s, "decideBudget")
    BY <1>10, Zenon DEF decideBudget
  <2>2. \/ req' = [req EXCEPT ![s] = End(q, 404)]
        \/ req' = [req EXCEPT ![s] = End(q, 409)]
        \/ req' = [req EXCEPT ![s] = Advance([q EXCEPT !.wrote = WorkspaceOfTarget(q.op)])]
    BY <1>10 DEF decideBudget
  <2>3. QED
    BY <1>9, <2>1, <2>2
<1>11. CASE interruptAny(s)
  <2>1. UNCHANGED quotas /\ At(s, "interruptAny")
    BY <1>11, Zenon DEF interruptAny
  <2>2. \/ req' = [req EXCEPT ![s] = End(q, 404)]
        \/ req' = [req EXCEPT ![s] = Advance([q EXCEPT !.wrote = WorkspaceOfTarget(q.op)])]
    BY <1>11 DEF interruptAny
  <2>3. QED
    BY <1>9, <2>1, <2>2
<1>8. QED
  BY <1>2, <1>3, <1>4, <1>5, <1>6, <1>7, <1>10, <1>11

\* Members, workspaces and conversations, of which the other requests are told.
LEMMA QuotaTold ==
  ASSUME IndInv, QuotaInv, NEW s \in Slots, ChangeMembers(s) \/ createWorkspace(s) \/ createConversation(s)
  PROVE  QuotaInv'
<1> DEFINE q == req[s]
<1>0. ASSUME NEW d, At(s, d), d \notin {"quota", "count"}, UNCHANGED quotas, NEW p, Moved(q, p), Full(p),
             (\E ms : req' = Watching(ms, [req EXCEPT ![s] = p])) \/ \E w : req' = Bearing(w, [req EXCEPT ![s] = p])
      PROVE  QuotaInv'
  <2> DEFINE r == [req EXCEPT ![s] = p]
  <2>1. \A t \in Slots : Told(r[t], req'[t])
    <3>1. ASSUME NEW ms, req' = Watching(ms, r), NEW t \in Slots
          PROVE  Told(r[t], req'[t])
      <4> HIDE DEF r
      <4>1. req'[t] = IF Busy(r[t]) THEN [r[t] EXCEPT !.reach = r[t].reach \cup Reach(ms, r[t])] ELSE r[t]
        BY <3>1 DEF Watching
      <4>2. QED
        BY <4>1, Zenon DEF Told
    <3>2. ASSUME NEW w, req' = Bearing(w, r), NEW t \in Slots
          PROVE  Told(r[t], req'[t])
      <4> HIDE DEF r
      <4>1. req'[t] = IF Busy(r[t]) THEN [r[t] EXCEPT !.born = r[t].born \cup {w}] ELSE r[t]
        BY <3>2 DEF Bearing
      <4>2. QED
        BY <4>1, Zenon DEF Told
    <3> HIDE DEF r
    <3>3. (\E ms : req' = Watching(ms, r)) \/ \E w : req' = Bearing(w, r)
      BY <1>0 DEF r
    <3>4. QED
      BY <3>1, <3>2, <3>3
  <2>0. r = [req EXCEPT ![s] = p]
    OBVIOUS
  <2> HIDE DEF r
  <2>2. \A t \in Slots : Follows(req[t], req'[t])
    BY <1>0, <2>0, <2>1, ToldStep
  <2>3. QED
    BY <1>0, <2>2, QuotaQuiet
<1>1. ASSUME At(s, "effect")
      PROVE  q \in Requests /\ q.todo[1].do = "effect" /\ Instruction(q) = q.todo[1] /\ \A c : Moved(q, End(q, c))
             /\ Full(End(q, c))
  BY <1>1, AtIs, MovedFields
<1>2. CASE ChangeMembers(s)
  <2>1. UNCHANGED quotas /\ At(s, "effect")
    BY <1>2, Zenon DEF ChangeMembers
  <2> DEFINE what == Instruction(q).what
             known == \E m \in members : m.id = q.op.member
             lost == what = "addMembership" /\ q.ws \notin spaces
             p == CASE lost -> End(q, 400)
                    [] what = "updateMembershipRole" /\ ~known -> End(q, 404)
                    [] OTHER -> Advance(IF what = "removeMembership" /\ ~known THEN q ELSE [q EXCEPT !.wrote = q.ws])
  <2>2. req' = Watching(members', [req EXCEPT ![s] = p])
    BY <1>2 DEF ChangeMembers
  <2>3. p = End(q, 400) \/ p = End(q, 404) \/ p = Advance(q) \/ p = Advance([q EXCEPT !.wrote = q.ws])
    OBVIOUS
  <2> HIDE DEF p
  <2>4. Moved(q, End(q, 400)) /\ Full(End(q, 400)) /\ Moved(q, End(q, 404)) /\ Full(End(q, 404)) /\ q \in Requests
    BY <1>1, <2>1
  <2>5. /\ Moved(q, Advance(q)) /\ Full(Advance(q))
        /\ Moved(q, Advance([q EXCEPT !.wrote = q.ws])) /\ Full(Advance([q EXCEPT !.wrote = q.ws]))
    BY <2>4, MovedVariants
  <2>6. Moved(q, p) /\ Full(p)
    BY <2>3, <2>4, <2>5
  <2>7. QED
    BY <1>0, <2>1, <2>2, <2>6
<1>3. CASE createWorkspace(s)
  <2>1. UNCHANGED quotas /\ At(s, "effect") /\ Instruction(q).what = "createWorkspace"
    BY <1>3, Zenon DEF createWorkspace
  <2>2. PICK ms, w : req' = Watching(ms, [req EXCEPT ![s] = Advance([q EXCEPT !.ws = w])])
    BY <1>3 DEF createWorkspace
  <2>3. IsTurn(q.todo[1]) /\ q \in Requests
    BY <1>1, <2>1 DEF IsTurn, IsEffect
  <2>4. Moved(q, Advance([q EXCEPT !.ws = w])) /\ Full(Advance([q EXCEPT !.ws = w]))
    BY <2>3, MovedVariants
  <2>5. QED
    BY <1>0, <2>1, <2>2, <2>4
<1>4. CASE createConversation(s)
  <2>1. UNCHANGED quotas /\ At(s, "effect")
        /\ req' = Bearing(q.ws, [req EXCEPT ![s] = Advance([q EXCEPT !.wrote = q.ws])])
    BY <1>4, Zenon DEF createConversation
  <2>2. Moved(q, Advance([q EXCEPT !.wrote = q.ws])) /\ Full(Advance([q EXCEPT !.wrote = q.ws]))
    BY <1>1, <2>1, MovedVariants
  <2>3. QED
    BY <1>0, <2>1, <2>2
<1>5. QED
  BY <1>2, <1>3, <1>4

\* A request arrives.
LEMMA QuotaIssue ==
  ASSUME IndInv, QuotaInv, NEW s \in Slots, NEW op \in Mixes[mix].ops, Issue(s, op)
  PROVE  QuotaInv'
<1> DEFINE new == [op |-> op, todo |-> Program(op), ws |-> op.ws, role |-> None,
                   pending |-> None, wrote |-> None, shown |-> {}, counting |-> FALSE,
                   rival |-> FALSE, reach |-> {}, born |-> {}, answer |-> 0]
           rivals == {t \in Slots \ {s} : Busy(req[t]) /\ op.do = "postDecision" /\ req[t].op.do = "postDecision"}
           b == rivals # {}
           first == [new EXCEPT !.rival = b]
           arrived == [t \in Slots |-> IF t = s THEN first
                                       ELSE IF t \in rivals THEN [req[t] EXCEPT !.rival = TRUE]
                                       ELSE IF Busy(req[t]) THEN req[t] ELSE Idle]
<1>1. req' = Watching(members, arrived) /\ UNCHANGED quotas
  BY DEF Issue
<1>2. op \in Ops
  BY DEF IndInv, StateOk, Ops
<1>3. Full(first) /\ first.todo = Program(op) /\ first.counting = FALSE
  <2>1. Full(new) /\ new.todo = Program(op) /\ new.counting = FALSE
    BY DEF Full
  <2> HIDE DEF new, b
  <2>2. QED
    BY <2>1 DEF Full
<1>4. \A q : Follows(q, first)
  BY <1>2, <1>3, ProgramsMetered DEF Follows
<1>5. req \in [Slots -> Requests \cup {Idle}]
  BY DEF IndInv, RequestsOk
<1> HIDE DEF first
<1>6. ASSUME NEW t \in Slots PROVE Follows(req[t], arrived[t]) /\ (arrived[t] = Idle \/ Full(arrived[t]))
  <2>1. CASE t = s
    <3>1. arrived[t] = first
      BY <2>1
    <3> HIDE DEF arrived
    <3>2. QED
      BY <1>3, <1>4, <3>1
  <2>2. CASE t # s /\ ~Busy(req[t])
    <3>1. arrived[t] = Idle
      BY <2>2
    <3> HIDE DEF arrived
    <3>2. QED
      BY <3>1, SlotIs DEF Follows
  <2>3. CASE t # s /\ Busy(req[t])
    <3>1. arrived[t] = req[t] \/ arrived[t] = [req[t] EXCEPT !.rival = TRUE]
      BY <2>3
    <3> DEFINE x == arrived[t]
               q == req[t]
    <3>2. q \in Requests /\ (x = q \/ x = [q EXCEPT !.rival = TRUE])
      BY <1>5, <2>3, <3>1, SlotIs
    <3> HIDE DEF arrived, x, q
    <3>3. Full(x) /\ x.op = q.op /\ x.todo = q.todo /\ x.counting = q.counting /\ x.ws = q.ws
      BY <3>2, RequestFull DEF Full
    <3>4. Metered(q.todo, q.counting) /\ Busy(q)
      BY <2>3 DEF QuotaInv, q
    <3>5. Follows(q, x)
      BY <3>3, <3>4 DEF Follows
    <3>6. QED
      BY <3>3, <3>5 DEF q, x
  <2>4. QED
    BY <2>1, <2>2, <2>3
<1> HIDE DEF arrived
<1>7. ASSUME NEW t \in Slots PROVE Told(arrived[t], req'[t])
  <2>1. req'[t] = IF Busy(arrived[t])
        THEN [arrived[t] EXCEPT !.reach = arrived[t].reach \cup Reach(members, arrived[t])]
                  ELSE arrived[t]
    BY <1>1 DEF Watching
  <2>2. QED
    BY <2>1, Zenon DEF Told
<1>8. \A t \in Slots : Follows(req[t], req'[t])
  BY <1>6, <1>7, ToldFollows
<1>9. QED
  BY <1>1, <1>8, QuotaQuiet

\* The quota of one workspace changes, or what was counted of it; the others are as they were.
LEMMA QuotaHere ==
  ASSUME QuotaInv, NEW w,
         \A v \in Workspaces \ {w} :
           /\ policies'[v] = policies[v] /\ usage'[v] = usage[v] /\ ceiling'[v] = ceiling[v] /\ width'[v] = width[v]
           /\ Counters(v)' \subseteq Counters(v),
         QuotaTypes', \A s \in Slots : Busy(req'[s]) => Metered(req'[s].todo, req'[s].counting),
         w \in Workspaces => QuotaOk(policies'[w], usage'[w], ceiling'[w], width'[w], Counting(w)')
  PROVE  QuotaInv'
<1>1. ASSUME NEW v \in Workspaces PROVE QuotaOk(policies'[v], usage'[v], ceiling'[v], width'[v], Counting(v)')
  <2>1. CASE v = w
    BY <2>1
  <2>2. CASE v # w
    <3>1. Counting(v) = Cardinality(Counters(v)) /\ Counting(v)' = Cardinality(Counters(v)')
      BY DEF Counting, Counters
    <3>2. Counters(v) \subseteq Slots /\ Counters(v)' \subseteq Slots /\ Counters(v)' \subseteq Counters(v)
      BY <2>2 DEF Counters
    <3>3. Counting(v)' <= Counting(v) /\ Counting(v) \in Nat /\ Counting(v)' \in Nat
      BY <3>1, <3>2, CountIs
    <3>4. /\ usage[v] \in {None} \cup Usages /\ ceiling[v] \in {None} \cup Nat /\ width[v] \in Nat
          /\ QuotaOk(policies[v], usage[v], ceiling[v], width[v], Counting(v))
      BY DEF QuotaInv, QuotaTypes
    <3>5. QuotaOk(policies[v], usage[v], ceiling[v], width[v], Counting(v)')
      BY <3>3, <3>4, QuotaLess
    <3>6. policies'[v] = policies[v] /\ usage'[v] = usage[v] /\ ceiling'[v] = ceiling[v] /\ width'[v] = width[v]
      BY <2>2
    <3>7. QED
      BY <3>5, <3>6
  <2>3. QED
    BY <2>1, <2>2
<1>2. QED
  BY <1>1 DEF QuotaInv, Busy

\* A new policy: the largest of the day is kept, until there is none.
LEMMA QuotaSet ==
  ASSUME NEW policy, NEW u \in {None} \cup Usages, NEW c \in {None} \cup Nat, NEW wide \in Nat, NEW n \in Nat,
         QuotaOk(policy, u, c, wide, n), NEW limit \in {None} \cup Nat,
         NEW c2, c2 = IF c = None \/ limit = None THEN None ELSE LargerOf(c, limit)
  PROVE  QuotaOk(limit, u, c2, wide, n) /\ c2 \in {None} \cup Nat
<1>1. u # None => u.runsToday \in Nat
  BY DEF Usages
<1>2. CASE c = None \/ limit = None
  BY <1>2 DEF QuotaOk
<1>3. CASE ~(c = None \/ limit = None)
  <2>1. c \in Nat /\ limit \in Nat /\ c2 \in Nat /\ c2 >= c /\ c2 >= limit
    BY <1>3 DEF LargerOf
  <2>2. u # None => u.runsToday + n <= c + (IF c = 0 THEN wide ELSE wide - 1)
    BY <1>3 DEF QuotaOk
  <2>3. u # None => u.runsToday + n <= c2 + (IF c2 = 0 THEN wide ELSE wide - 1)
    BY <1>1, <2>1, <2>2
  <2>4. QED
    BY <1>3, <2>1, <2>3 DEF QuotaOk
<1>4. QED
  BY <1>2, <1>3

\* The usage of the day.
LEMMA UsageIs ==
  ASSUME NEW u \in {None} \cup Usages, NEW day \in Days, NEW v, v = getCurrentUsage(u, day)
  PROVE  /\ v \in Usages /\ v.runsToday \in Nat
         /\ u = None \/ u.day # day => v.runsToday = 0
         /\ ~(u = None \/ u.day # day) => v = u
         /\ recordRunCreated(v) \in Usages /\ recordRunCreated(v).runsToday = v.runsToday + 1
<1>1. CASE u = None \/ u.day # day
  <2>1. v = [day |-> day, runsToday |-> 0]
    BY <1>1 DEF getCurrentUsage, emptyUsage
  <2>2. v \in Usages /\ v.runsToday = 0
    BY <2>1 DEF Usages
  <2>3. QED
    BY <1>1, <2>2 DEF Usages, recordRunCreated
<1>2. CASE ~(u = None \/ u.day # day)
  <2>1. v = u /\ u \in Usages
    BY <1>2 DEF getCurrentUsage
  <2>2. QED
    BY <1>2, <2>1 DEF Usages, recordRunCreated
<1>3. QED
  BY <1>1, <1>2

\* What the step that asks for the quota makes of the counters of its workspace.
Asked(policy, u, c, wide, n, m, day, v, c2, before, wide2) ==
  /\ policy \in {None} \cup Nat /\ u \in {None} \cup Usages /\ c \in {None} \cup Nat /\ wide \in Nat
  /\ n \in Nat /\ m \in Nat /\ day \in Days /\ QuotaOk(policy, u, c, wide, n)
  /\ v = getCurrentUsage(u, day) /\ c2 = IF u = None \/ u.day # day THEN policy ELSE c
  /\ before = IF u = None \/ u.day # day THEN 0 ELSE wide
  /\ \/ checkRunCreation(policy, v) /\ wide2 = LargerOf(before, n + 1) /\ m <= n + 1
     \/ ~checkRunCreation(policy, v) /\ wide2 = LargerOf(before, n) /\ m <= n

\* What the step that counts a run makes of them.
Counted(policy, u, c, wide, n, m, day, v, c2, wide2) ==
  /\ policy \in {None} \cup Nat /\ u \in {None} \cup Usages /\ c \in {None} \cup Nat /\ wide \in Nat
  /\ n \in Nat /\ m \in Nat /\ day \in Days /\ QuotaOk(policy, u, c, wide, n) /\ m + 1 <= n
  /\ v = recordRunCreated(getCurrentUsage(u, day)) /\ c2 = IF u = None \/ u.day # day THEN policy ELSE c
  /\ wide2 = IF u = None \/ u.day # day THEN n ELSE wide

\* A message asks for the quota: one that is let through counts from now on.
LEMMA QuotaAsked ==
  ASSUME NEW policy, NEW u, NEW c, NEW wide, NEW n, NEW m, NEW day, NEW v, NEW c2, NEW before, NEW wide2,
         Asked(policy, u, c, wide, n, m, day, v, c2, before, wide2)
  PROVE  QuotaOk(policy, v, c2, wide2, m) /\ c2 \in {None} \cup Nat /\ wide2 \in Nat
<1>0. /\ policy \in {None} \cup Nat /\ u \in {None} \cup Usages /\ c \in {None} \cup Nat /\ wide \in Nat
      /\ n \in Nat /\ m \in Nat /\ day \in Days /\ QuotaOk(policy, u, c, wide, n)
      /\ v = getCurrentUsage(u, day) /\ c2 = IF u = None \/ u.day # day THEN policy ELSE c
      /\ before = IF u = None \/ u.day # day THEN 0 ELSE wide
      /\ \/ checkRunCreation(policy, v) /\ wide2 = LargerOf(before, n + 1) /\ m <= n + 1
         \/ ~checkRunCreation(policy, v) /\ wide2 = LargerOf(before, n) /\ m <= n
  BY DEF Asked
<1>1. /\ v \in Usages /\ v.runsToday \in Nat
      /\ u = None \/ u.day # day => v.runsToday = 0
      /\ ~(u = None \/ u.day # day) => v = u
  <2>1. u \in {None} \cup Usages /\ day \in Days /\ v = getCurrentUsage(u, day)
    BY <1>0
  <2>2. QED
    BY <2>1, UsageIs
<1> USE <1>0
<1>2. c2 \in {None} \cup Nat /\ wide2 \in Nat /\ before \in Nat /\ wide2 >= before
  BY DEF LargerOf
<1>3. SUFFICES ASSUME c2 # None
               PROVE  policy # None /\ policy <= c2 /\ v.runsToday + m <= c2 + (IF c2 = 0 THEN wide2 ELSE wide2 - 1)
  BY <1>2 DEF QuotaOk
<1>4. policy # None /\ policy <= c2 /\ policy \in Nat /\ c2 \in Nat
  BY <1>2, <1>3 DEF QuotaOk
<1>5. CASE checkRunCreation(policy, v) /\ wide2 = LargerOf(before, n + 1) /\ m <= n + 1
  <2>1. v.runsToday + 1 <= policy
    BY <1>4, <1>5 DEF checkRunCreation
  <2>2. wide2 >= n + 1
    BY <1>2, <1>5 DEF LargerOf
  <2>3. QED
    BY <1>1, <1>2, <1>4, <1>5, <2>1, <2>2
<1>6. CASE ~checkRunCreation(policy, v) /\ wide2 = LargerOf(before, n) /\ m <= n
  <2>1. ~(v.runsToday + 1 <= policy)
    BY <1>4, <1>6 DEF checkRunCreation
  <2>2. wide2 >= n
    BY <1>2, <1>6 DEF LargerOf
  <2>3. CASE u = None \/ u.day # day
    <3>1. c2 = 0 /\ v.runsToday = 0
      BY <1>1, <1>4, <2>1, <2>3
    <3>2. QED
      BY <1>2, <1>4, <1>6, <2>2, <3>1
  <2>4. CASE ~(u = None \/ u.day # day)
    <3>1. v = u /\ c2 = c /\ before = wide /\ u # None
      BY <1>1, <2>4
    <3>2. u.runsToday + n <= c + (IF c = 0 THEN wide ELSE wide - 1)
      BY <1>3, <3>1 DEF QuotaOk
    <3>3. QED
      BY <1>1, <1>2, <1>4, <1>6, <3>1, <3>2
  <2>5. QED
    BY <2>3, <2>4
<1>7. QED
  BY <1>4, <1>5, <1>6

\* A run is counted: one that counted does so no longer.
LEMMA QuotaCounted ==
  ASSUME NEW policy, NEW u, NEW c, NEW wide, NEW n, NEW m, NEW day, NEW v, NEW c2, NEW wide2,
         Counted(policy, u, c, wide, n, m, day, v, c2, wide2)
  PROVE  QuotaOk(policy, v, c2, wide2, m) /\ v \in Usages /\ c2 \in {None} \cup Nat /\ wide2 \in Nat
<1>0. /\ policy \in {None} \cup Nat /\ u \in {None} \cup Usages /\ c \in {None} \cup Nat /\ wide \in Nat
      /\ n \in Nat /\ m \in Nat /\ day \in Days /\ QuotaOk(policy, u, c, wide, n) /\ m + 1 <= n
      /\ v = recordRunCreated(getCurrentUsage(u, day)) /\ c2 = IF u = None \/ u.day # day THEN policy ELSE c
      /\ wide2 = IF u = None \/ u.day # day THEN n ELSE wide
  BY DEF Counted
<1> USE <1>0
<1> DEFINE k == getCurrentUsage(u, day)
<1>1. /\ k \in Usages /\ k.runsToday \in Nat
      /\ u = None \/ u.day # day => k.runsToday = 0
      /\ ~(u = None \/ u.day # day) => k = u
      /\ v \in Usages /\ v.runsToday = k.runsToday + 1
  BY UsageIs
<1> HIDE DEF k
<1>2. c2 \in {None} \cup Nat /\ wide2 \in Nat
  OBVIOUS
<1>3. SUFFICES ASSUME c2 # None
               PROVE  policy # None /\ policy <= c2 /\ v.runsToday + m <= c2 + (IF c2 = 0 THEN wide2 ELSE wide2 - 1)
  BY <1>1, <1>2 DEF QuotaOk
<1>4. policy # None /\ policy <= c2 /\ policy \in Nat /\ c2 \in Nat
  BY <1>2, <1>3 DEF QuotaOk
<1>5. CASE u = None \/ u.day # day
  BY <1>1, <1>2, <1>4, <1>5
<1>6. CASE ~(u = None \/ u.day # day)
  <2>1. u.runsToday + n <= c + (IF c = 0 THEN wide ELSE wide - 1)
    BY <1>3, <1>6 DEF QuotaOk
  <2>2. c2 = c /\ wide2 = wide /\ k = u
    BY <1>1, <1>6
  <2>3. QED
    BY <1>1, <1>4, <2>1, <2>2
<1>7. QED
  BY <1>4, <1>5, <1>6

\* What the quota is about when one request moves on.
LEMMA CountersAfter ==
  ASSUME IndInv, QuotaInv, NEW s \in Slots, NEW d, At(s, d), NEW p, req' = [req EXCEPT ![s] = p],
         Metered(p.todo, p.counting), p.counting => p.ws = req[s].ws
  PROVE  /\ \A t \in Slots : Busy(req'[t]) => Metered(req'[t].todo, req'[t].counting)
         /\ \A v : v # req[s].ws => Counters(v)' \subseteq Counters(v)
         /\ \A v : Counters(v)' \subseteq Counters(v) \cup {s}
            /\ (~p.counting => Counters(v)' \subseteq Counters(v) \ {s})
         /\ \A v : Counters(v) \subseteq Slots /\ Counters(v)' \subseteq Slots
         /\ \A v : Counting(v) = Cardinality(Counters(v)) /\ Counting(v)' = Cardinality(Counters(v)')
<1>1. req \in [Slots -> Requests \cup {Idle}]
  BY DEF IndInv, RequestsOk
<1>2. req'[s] = p /\ \A t \in Slots \ {s} : req'[t] = req[t]
  BY <1>1
<1>3. \A t \in Slots : Busy(req'[t]) => Metered(req'[t].todo, req'[t].counting)
  BY <1>2 DEF QuotaInv
<1>4. \A v, t : t \in Counters(v)' <=> t \in Slots /\ Busy(req'[t]) /\ req'[t].counting /\ req'[t].ws = v
  BY DEF Counters, Busy
<1>5. \A v, t : t \in Counters(v) <=> t \in Slots /\ Busy(req[t]) /\ req[t].counting /\ req[t].ws = v
  BY DEF Counters
<1>6. \A v, t : t \in Counters(v)' /\ t # s => t \in Counters(v)
  BY <1>2, <1>4, <1>5
<1>7. \A v : s \in Counters(v)' => p.counting /\ v = req[s].ws
  BY <1>2, <1>4
<1>8. \A v : Counting(v) = Cardinality(Counters(v)) /\ Counting(v)' = Cardinality(Counters(v)')
  BY DEF Counting, Counters
<1>9. \A v : Counters(v) \subseteq Slots /\ Counters(v)' \subseteq Slots
  BY <1>4, <1>5
<1>10. QED
  BY <1>3, <1>6, <1>7, <1>8, <1>9

\* An administrator sets the quota.
LEMMA QuotaPolicy == ASSUME IndInv, QuotaInv, NEW s \in Slots, setPolicy(s) PROVE QuotaInv'
<1>0. PICK w : w = req[s].ws
  OBVIOUS
<1> DEFINE q == req[s]
           p == Advance([q EXCEPT !.wrote = w])
           limit == q.op.limit
           c2 == IF ceiling[w] = None \/ limit = None THEN None ELSE LargerOf(ceiling[w], limit)
<1>1. At(s, "effect") /\ Instruction(q).what = "setPolicy" /\ req' = [req EXCEPT ![s] = p]
      /\ policies' = [policies EXCEPT ![w] = limit] /\ ceiling' = [ceiling EXCEPT ![w] = c2]
      /\ UNCHANGED <<usage, width>>
  BY <1>0 DEF setPolicy, Become
<1>2. q \in Requests /\ q.todo[1].do = "effect" /\ Busy(q)
  BY <1>1, AtIs DEF At
<1>3. limit \in {None} \cup Nat
  BY <1>2, GatewayAssumption DEF Requests
<1>4. Moved(q, p)
  BY <1>2, MovedVariants
<1>5. \A t \in Slots : Follows(req[t], req'[t])
  <2> HIDE DEF p, q
  <2>1. "effect" \notin {"quota", "count"}
    OBVIOUS
  <2>2. Moved(req[s], p)
    BY <1>4 DEF q
  <2>3. QED
    BY <1>1, <2>1, <2>2, MovedStep
<1> HIDE DEF p, limit, c2
<1>6. \A v : Counters(v)' \subseteq Counters(v)
  BY <1>5 DEF Counters, Follows
<1>7. QuotaTypes
  BY DEF QuotaInv
<1>8. ASSUME w \in Workspaces PROVE QuotaOk(limit, usage[w], c2, width[w], Counting(w)') /\ c2 \in {None} \cup Nat
  <2>1. Counters(w) \subseteq Slots /\ Counters(w)' \subseteq Slots
    BY DEF Counters
  <2>2. Counting(w) = Cardinality(Counters(w)) /\ Counting(w)' = Cardinality(Counters(w)')
    BY DEF Counting, Counters
  <2>3. Counting(w)' <= Counting(w) /\ Counting(w) \in Nat /\ Counting(w)' \in Nat
    BY <1>6, <2>1, <2>2, CountIs
  <2>4. usage[w] \in {None} \cup Usages /\ ceiling[w] \in {None} \cup Nat /\ width[w] \in Nat
    BY <1>7, <1>8 DEF QuotaTypes
  <2>5. QuotaOk(policies[w], usage[w], ceiling[w], width[w], Counting(w))
    BY <1>8 DEF QuotaInv
  <2>6. QuotaOk(limit, usage[w], c2, width[w], Counting(w)) /\ c2 \in {None} \cup Nat
    BY <1>3, <2>3, <2>4, <2>5, QuotaSet DEF c2
  <2>7. QED
    BY <2>3, <2>4, <2>6, QuotaLess
<1>9. QuotaTypes'
  BY <1>1, <1>3, <1>7, <1>8 DEF QuotaTypes
<1>10. \A t \in Slots : Busy(req'[t]) => Metered(req'[t].todo, req'[t].counting)
  BY <1>5 DEF Follows
<1>11. \A v \in Workspaces \ {w} :
         /\ policies'[v] = policies[v] /\ usage'[v] = usage[v] /\ ceiling'[v] = ceiling[v] /\ width'[v] = width[v]
         /\ Counters(v)' \subseteq Counters(v)
  BY <1>1, <1>6, <1>7 DEF QuotaTypes
<1>12. w \in Workspaces => QuotaOk(policies'[w], usage'[w], ceiling'[w], width'[w], Counting(w)')
  <2>1. w \in Workspaces => policies'[w] = limit /\ ceiling'[w] = c2 /\ usage'[w] = usage[w] /\ width'[w] = width[w]
    BY <1>1, <1>7 DEF QuotaTypes
  <2>2. QED
    BY <1>8, <2>1
<1>13. QED
  BY <1>9, <1>10, <1>11, <1>12, QuotaHere

\* The day is one of the days.
LEMMA DayIs == ASSUME IndInv PROVE Day \in Days
BY DEF IndInv, StateOk, Day, Days

\* A message asks for the quota of its workspace.
LEMMA QuotaEnforced == ASSUME IndInv, QuotaInv, NEW s \in Slots, enforceRunQuota(s) PROVE QuotaInv'
<1>0. PICK w : w = req[s].ws
  OBVIOUS
<1> DEFINE q == req[s]
           u == usage[w]
           v == getCurrentUsage(u, Day)
           new == u = None \/ u.day # Day
           before == IF u = None \/ u.day # Day THEN 0 ELSE width[w]
           c2 == IF u = None \/ u.day # Day THEN policies[w] ELSE ceiling[w]
           n == Counting(w)
           wide2 == IF checkRunCreation(policies[w], v) THEN LargerOf(before, n + 1) ELSE LargerOf(before, n)
           k == [q EXCEPT !.counting = TRUE]
           p == IF checkRunCreation(policies[w], v) THEN Advance(k) ELSE Refuse(q, 429)
<1>1. At(s, "quota") /\ req' = [req EXCEPT ![s] = p] /\ policies' = policies
      /\ usage' = [usage EXCEPT ![w] = v] /\ width' = [width EXCEPT ![w] = wide2]
      /\ ceiling' = IF new THEN [ceiling EXCEPT ![w] = policies[w]] ELSE ceiling
  BY <1>0 DEF enforceRunQuota, RollOver, Become
<1>2. q \in Requests /\ q.todo # << >> /\ q.todo[1].do = "quota" /\ q.todo \in Seq(Instructions)
      /\ q.counting \in BOOLEAN
  BY <1>1, AtIs DEF Requests
<1>3. Metered(q.todo, q.counting)
  BY <1>1 DEF QuotaInv, At
<1>4. ~q.counting /\ Metered(Tail(q.todo), TRUE)
  BY <1>2, <1>3, MeteredTail DEF IsTurn
<1>5. Full(k) /\ k.todo = q.todo /\ k.counting = TRUE /\ k.ws = q.ws
  BY <1>2, RequestFull DEF Full
<1> HIDE DEF k
<1>6. Advance(k).todo = Tail(q.todo) /\ Advance(k).counting = TRUE /\ Advance(k).ws = q.ws
  BY <1>5 DEF Full, Advance
<1>7. Refuse(q, 429).todo = <<[do |-> "audit", code |-> 429]>> /\ Refuse(q, 429).counting = q.counting
  BY <1>2, RequestFull DEF Full, Refuse
<1>8. Metered(Refuse(q, 429).todo, FALSE)
  <2>1. 429 \in Nat
    OBVIOUS
  <2>2. Stopped(Refuse(q, 429).todo)
    BY <1>7, <2>1 DEF Stopped
  <2>3. QED
    BY <2>2, MeteredStopped
<1>9. /\ Metered(p.todo, p.counting) /\ (p.counting => p.ws = q.ws)
      /\ ~checkRunCreation(policies[w], v) => ~p.counting
  <2>1. CASE checkRunCreation(policies[w], v)
    <3>1. p = Advance(k)
      BY <2>1
    <3> HIDE DEF p
    <3>2. QED
      BY <1>4, <1>6, <2>1, <3>1
  <2>2. CASE ~checkRunCreation(policies[w], v)
    <3>1. p = Refuse(q, 429)
      BY <2>2
    <3>2. p.counting = FALSE
      BY <1>2, <1>4, <1>7, <3>1
    <3> HIDE DEF p
    <3>3. QED
      BY <1>8, <3>1, <3>2
  <2>3. QED
    BY <2>1, <2>2
<1> HIDE DEF p
<1>10. /\ \A t \in Slots : Busy(req'[t]) => Metered(req'[t].todo, req'[t].counting)
       /\ \A x : x # w => Counters(x)' \subseteq Counters(x)
       /\ \A x : Counters(x)' \subseteq Counters(x) \cup {s}
          /\ (~p.counting => Counters(x)' \subseteq Counters(x) \ {s})
       /\ \A x : Counters(x) \subseteq Slots /\ Counters(x)' \subseteq Slots
       /\ \A x : Counting(x) = Cardinality(Counters(x)) /\ Counting(x)' = Cardinality(Counters(x)')
  BY <1>0, <1>1, <1>9, CountersAfter
<1>11. n \in Nat /\ Counting(w)' \in Nat /\ Counting(w)' <= n + 1
       /\ (~checkRunCreation(policies[w], v) => Counting(w)' <= n)
  <2>1. Cardinality(Counters(w)) \in Nat /\ Cardinality(Counters(w)') \in Nat
    BY <1>10, CountIs
  <2>2. Cardinality(Counters(w)') <= Cardinality(Counters(w)) + 1
    BY <1>10, CountIs
  <2>3. ~p.counting => Cardinality(Counters(w)') <= Cardinality(Counters(w))
    <3>1. ~p.counting => Counters(w)' \subseteq Counters(w)
      BY <1>10
    <3>2. QED
      BY <1>10, <3>1, CountIs
  <2>4. QED
    BY <1>9, <1>10, <2>1, <2>2, <2>3
<1>12. QuotaTypes /\ Day \in Days
  BY DayIs DEF QuotaInv
<1>13. ASSUME w \in Workspaces
       PROVE  QuotaOk(policies[w], v, c2, wide2, Counting(w)') /\ c2 \in {None} \cup Nat /\ wide2 \in Nat
              /\ v \in Usages
  <2>1. policies[w] \in {None} \cup Nat /\ u \in {None} \cup Usages /\ ceiling[w] \in {None} \cup Nat
        /\ width[w] \in Nat
    BY <1>12, <1>13 DEF QuotaTypes
  <2>2. QuotaOk(policies[w], u, ceiling[w], width[w], n)
    BY <1>13 DEF QuotaInv
  <2>3. \/ checkRunCreation(policies[w], v) /\ wide2 = LargerOf(before, n + 1) /\ Counting(w)' <= n + 1
        \/ ~checkRunCreation(policies[w], v) /\ wide2 = LargerOf(before, n) /\ Counting(w)' <= n
    BY <1>11
  <2>4. v = getCurrentUsage(u, Day) /\ c2 = (IF u = None \/ u.day # Day THEN policies[w] ELSE ceiling[w])
        /\ before = (IF u = None \/ u.day # Day THEN 0 ELSE width[w])
    OBVIOUS
  <2>5. v \in Usages
    BY <1>12, <2>1, UsageIs
  <2> HIDE DEF u, v, c2, before, n, wide2
  <2>6. Asked(policies[w], u, ceiling[w], width[w], n, Counting(w)', Day, v, c2, before, wide2)
    BY <1>11, <1>12, <2>1, <2>2, <2>3, <2>4 DEF Asked
  <2>7. QED
    BY <2>5, <2>6, QuotaAsked
<1>14. w \in Workspaces => policies'[w] = policies[w] /\ ceiling'[w] = c2 /\ usage'[w] = v /\ width'[w] = wide2
  <2> HIDE DEF v, wide2
  <2>1. QED
    BY <1>1, <1>12 DEF QuotaTypes
<1>15. QuotaTypes'
  <2>1. CASE w \in Workspaces
    <3>1. ceiling' \in [Workspaces -> {None} \cup Nat]
      BY <1>1, <1>12, <2>1 DEF QuotaTypes
    <3> HIDE DEF v, wide2, new
    <3>2. QED
      BY <1>1, <1>12, <1>13, <2>1, <3>1 DEF QuotaTypes
  <2>2. CASE w \notin Workspaces
    <3>1. ceiling' \in [Workspaces -> {None} \cup Nat]
      BY <1>1, <1>12, <2>2 DEF QuotaTypes
    <3> HIDE DEF v, wide2, new
    <3>2. QED
      BY <1>1, <1>12, <2>2, <3>1 DEF QuotaTypes
  <2>3. QED
    BY <2>1, <2>2
<1>16. \A x \in Workspaces \ {w} :
         /\ policies'[x] = policies[x] /\ usage'[x] = usage[x] /\ ceiling'[x] = ceiling[x] /\ width'[x] = width[x]
         /\ Counters(x)' \subseteq Counters(x)
  <2> HIDE DEF v, wide2, new
  <2>1. QED
    BY <1>1, <1>10, <1>12 DEF QuotaTypes
<1>17. w \in Workspaces => QuotaOk(policies'[w], usage'[w], ceiling'[w], width'[w], Counting(w)')
  BY <1>13, <1>14
<1>18. QED
  BY <1>10, <1>15, <1>16, <1>17, QuotaHere

\* A run is counted.
LEMMA QuotaCount == ASSUME IndInv, QuotaInv, NEW s \in Slots, CountRun(s) PROVE QuotaInv'
<1>0. PICK w : w = req[s].ws
  OBVIOUS
<1> DEFINE q == req[s]
           u == usage[w]
           v == recordRunCreated(getCurrentUsage(u, Day))
           new == u = None \/ u.day # Day
           n == Counting(w)
           c2 == IF u = None \/ u.day # Day THEN policies[w] ELSE ceiling[w]
           wide2 == IF u = None \/ u.day # Day THEN n ELSE width[w]
           k == [q EXCEPT !.counting = FALSE]
           a == IF q.op.stream THEN 202 ELSE 201
           p == [Advance(k) EXCEPT !.answer = a]
<1>1. At(s, "count") /\ req' = [req EXCEPT ![s] = p] /\ policies' = policies /\ usage' = [usage EXCEPT ![w] = v]
      /\ ceiling' = (IF new THEN [ceiling EXCEPT ![w] = policies[w]] ELSE ceiling)
      /\ width' = (IF new THEN [width EXCEPT ![w] = n] ELSE width)
  BY <1>0 DEF CountRun, Become
<1>2. q \in Requests /\ q.todo # << >> /\ q.todo[1].do = "count" /\ q.todo \in Seq(Instructions)
      /\ q.counting \in BOOLEAN
      /\ Busy(q)
  BY <1>1, AtIs DEF Requests, At
<1>3. Metered(q.todo, q.counting)
  BY <1>2 DEF QuotaInv
<1>4. q.counting /\ Metered(Tail(q.todo), FALSE)
  BY <1>2, <1>3, MeteredTail
<1>5. Full(k) /\ k.todo = q.todo /\ k.counting = FALSE
  BY <1>2, RequestFull DEF Full
<1> HIDE DEF k, a
<1>6. Full(Advance(k)) /\ Advance(k).todo = Tail(q.todo) /\ Advance(k).counting = FALSE
  BY <1>5 DEF Full, Advance
<1>7. p.todo = Tail(q.todo) /\ p.counting = FALSE
  BY <1>6 DEF Full
<1> HIDE DEF p
<1>9. Metered(p.todo, p.counting) /\ ~p.counting
  BY <1>4, <1>7
<1>10. /\ \A t \in Slots : Busy(req'[t]) => Metered(req'[t].todo, req'[t].counting)
       /\ \A x : Counters(x)' \subseteq Counters(x) \ {s}
       /\ \A x : Counters(x) \subseteq Slots /\ Counters(x)' \subseteq Slots
       /\ \A x : Counting(x) = Cardinality(Counters(x)) /\ Counting(x)' = Cardinality(Counters(x)')
  BY <1>1, <1>9, CountersAfter
<1>8. s \in Counters(w)
  BY <1>0, <1>2, <1>4 DEF Counters
<1>11. n \in Nat /\ Counting(w)' \in Nat /\ Counting(w)' + 1 <= n
  BY <1>8, <1>10, CountIs
<1>12. QuotaTypes /\ Day \in Days
  BY DayIs DEF QuotaInv
<1>13. ASSUME w \in Workspaces
       PROVE  QuotaOk(policies[w], v, c2, wide2, Counting(w)') /\ v \in Usages /\ c2 \in {None} \cup Nat
              /\ wide2 \in Nat
  <2>1. policies[w] \in {None} \cup Nat /\ u \in {None} \cup Usages /\ ceiling[w] \in {None} \cup Nat
        /\ width[w] \in Nat
    BY <1>12, <1>13 DEF QuotaTypes
  <2>2. QuotaOk(policies[w], u, ceiling[w], width[w], n)
    BY <1>13 DEF QuotaInv
  <2>3. v = recordRunCreated(getCurrentUsage(u, Day))
        /\ c2 = (IF u = None \/ u.day # Day THEN policies[w] ELSE ceiling[w])
        /\ wide2 = (IF u = None \/ u.day # Day THEN n ELSE width[w])
    OBVIOUS
  <2> HIDE DEF u, v, c2, n, wide2
  <2>4. Counted(policies[w], u, ceiling[w], width[w], n, Counting(w)', Day, v, c2, wide2)
    BY <1>11, <1>12, <2>1, <2>2, <2>3 DEF Counted
  <2>5. QED
    BY <2>4, QuotaCounted
<1>14. w \in Workspaces => policies'[w] = policies[w] /\ ceiling'[w] = c2 /\ usage'[w] = v /\ width'[w] = wide2
  <2> HIDE DEF v, n
  <2>1. QED
    BY <1>1, <1>12 DEF QuotaTypes
<1>15. QuotaTypes'
  <2>0. policies' \in [Workspaces -> {None} \cup Nat] /\ ceiling' \in [Workspaces -> {None} \cup Nat]
    <3> HIDE DEF new
    <3>1. QED
      BY <1>1, <1>12 DEF QuotaTypes
  <2>1. CASE w \in Workspaces
    <3>1. v \in Usages
      BY <1>13, <2>1
    <3> HIDE DEF v, new, n
    <3>2. usage' \in [Workspaces -> {None} \cup Usages] /\ width' \in [Workspaces -> Nat]
      BY <1>1, <1>11, <1>12, <2>1, <3>1 DEF QuotaTypes
    <3>3. QED
      BY <2>0, <3>2 DEF QuotaTypes
  <2>2. CASE w \notin Workspaces
    <3> HIDE DEF v, new, n
    <3>1. usage' \in [Workspaces -> {None} \cup Usages] /\ width' \in [Workspaces -> Nat]
      BY <1>1, <1>12, <2>2 DEF QuotaTypes
    <3>2. QED
      BY <2>0, <3>1 DEF QuotaTypes
  <2>3. QED
    BY <2>1, <2>2
<1>16. \A x \in Workspaces \ {w} :
         /\ policies'[x] = policies[x] /\ usage'[x] = usage[x] /\ ceiling'[x] = ceiling[x] /\ width'[x] = width[x]
         /\ Counters(x)' \subseteq Counters(x)
  <2> HIDE DEF v, n, new
  <2>1. QED
    BY <1>1, <1>10, <1>12 DEF QuotaTypes
<1>17. w \in Workspaces => QuotaOk(policies'[w], usage'[w], ceiling'[w], width'[w], Counting(w)')
  BY <1>13, <1>14
<1>18. QED
  BY <1>10, <1>15, <1>16, <1>17, QuotaHere

\* The server starts with no quota, nothing counted and no request.
LEMMA QuotaFirst == Init => QuotaInv
<1> SUFFICES ASSUME Init PROVE QuotaInv
  OBVIOUS
<1>1. /\ policies = [w \in Workspaces |-> None] /\ usage = [w \in Workspaces |-> None]
      /\ ceiling = [w \in Workspaces |-> None] /\ width = [w \in Workspaces |-> 0] /\ req = [s \in Slots |-> Idle]
  BY DEF Init
<1>2. QuotaTypes
  BY <1>1 DEF QuotaTypes
<1>3. \A s \in Slots : ~Busy(req[s])
  BY <1>1, SlotIs
<1>4. \A w \in Workspaces : QuotaOk(policies[w], usage[w], ceiling[w], width[w], Counting(w))
  BY <1>1 DEF QuotaOk
<1>5. QED
  BY <1>2, <1>3, <1>4 DEF QuotaInv

\* A restart forgets the quotas, what was counted and every request.
LEMMA QuotaRestart == ASSUME Restart PROVE QuotaInv'
<1>1. /\ policies' = [w \in Workspaces |-> None] /\ usage' = [w \in Workspaces |-> None]
      /\ ceiling' = [w \in Workspaces |-> None] /\ width' = [w \in Workspaces |-> 0] /\ req' = [s \in Slots |-> Idle]
  BY DEF Restart
<1>2. QuotaTypes'
  BY <1>1 DEF QuotaTypes
<1>3. \A s \in Slots : ~Busy(req'[s])
  BY <1>1, SlotIs
<1>4. \A w \in Workspaces : QuotaOk(policies'[w], usage'[w], ceiling'[w], width'[w], Counting(w)')
  BY <1>1 DEF QuotaOk
<1>5. QED
  BY <1>2, <1>3, <1>4 DEF QuotaInv, Busy

\* Approvals and the clock: no request and no quota is touched.
LEMMA QuotaCalm ==
  ASSUME QuotaInv,
         \/ \E r \in Runs : presentApprovalRequest(r) \/ createApproval(r) \/ waitForDecision(r) \/ waitTimesOut(r)
         \/ Tick \/ UNCHANGED vars
  PROVE  QuotaInv'
<1>1. UNCHANGED <<policies, usage, ceiling, width, req>>
  BY DEF presentApprovalRequest, createApproval, waitForDecision, waitTimesOut, Tick, vars, quotas
<1>2. \A s \in Slots : Follows(req[s], req'[s])
  BY <1>1 DEF QuotaInv, Follows
<1>3. UNCHANGED quotas
  BY <1>1 DEF quotas
<1>4. QED
  BY <1>2, <1>3, QuotaQuiet

\* Every step keeps what is counted within what the quota explains.
LEMMA QuotaKept == IndInv /\ QuotaInv /\ [Next]_vars => QuotaInv'
<1> SUFFICES ASSUME IndInv, QuotaInv, [Next]_vars PROVE QuotaInv'
  OBVIOUS
<1>1. ASSUME NEW s \in Slots, Step(s) PROVE QuotaInv'
  BY <1>1, QuotaPassed, QuotaChanged, QuotaTold, QuotaPolicy, QuotaEnforced, QuotaCount DEF Step
<1>2. ASSUME NEW s \in Slots,
             AuditRequest(s) \/ LimiterFails(s) \/ \E ok \in BOOLEAN : CreateRun(s, ok) \/ FinishRun(s, ok)
      PROVE  QuotaInv'
  BY <1>2, QuotaPassed
<1>3. ASSUME NEW s \in Slots, NEW op \in Mixes[mix].ops, Issue(s, op) PROVE QuotaInv'
  BY <1>3, QuotaIssue
<1>4. QED
  BY <1>1, <1>2, <1>3, QuotaCalm, QuotaRestart DEF Next

\* The quota is passed by no more than the messages that were under way together.
LEMMA QuotaBound == QuotaInv => QuotaOvershoot
<1> SUFFICES ASSUME QuotaInv, NEW w \in Workspaces, usage[w] # None, ceiling[w] # None
             PROVE  usage[w].runsToday - ceiling[w] <= (IF ceiling[w] = 0 THEN width[w] ELSE width[w] - 1)
  BY DEF QuotaOvershoot
<1>1. ceiling[w] \in Nat /\ width[w] \in Nat /\ usage[w] \in Usages
  BY DEF QuotaInv, QuotaTypes
<1>2. usage[w].runsToday \in Nat
  BY <1>1 DEF Usages
<1>3. Counting(w) \in Nat
  <2>1. Counting(w) = Cardinality(Counters(w)) /\ Counters(w) \subseteq Slots
    BY DEF Counting, Counters
  <2>2. QED
    BY <2>1, CountIs
<1>4. usage[w].runsToday + Counting(w) <= ceiling[w] + (IF ceiling[w] = 0 THEN width[w] ELSE width[w] - 1)
  BY DEF QuotaInv, QuotaOk
<1>5. QED
  BY <1>1, <1>2, <1>3, <1>4

\* Neither the limiter of requests nor the quota of runs is passed by more than its window, or the
\* messages under way together, explain (rateLimiter.ts, quotas.ts).
THEOREM LimitsCorrect == Spec => []LimitsHold
<1>1. Init => RateInv /\ QuotaInv
  BY RateEmpty, QuotaFirst DEF Init
<1>2. IndInv /\ RateInv /\ [Next]_vars => RateInv'
  BY RateKept
<1>3. IndInv /\ RateInv /\ QuotaInv => LimitsHold
  BY RateBound, QuotaBound DEF LimitsHold
<1>4. QED
  BY <1>1, <1>2, <1>3, InvAlways, QuotaKept, PTL DEF Spec

=============================================================================
