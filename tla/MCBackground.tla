---------------------------- MODULE MCBackground ----------------------------
(***************************************************************************)
(* Instances of Background.                                                *)
(***************************************************************************)
EXTENDS Background, TLC

\* Code index: a tree on disk, the edits to it and the scans.
P(dir, stem, infix, ext) == [dir |-> dir, stem |-> stem, infix |-> infix, ext |-> ext]
A == P(<<"src">>, "a", "", "ts")
B == P(<<"src">>, "b", "", "ts")
T == P(<<"src">>, "a", "test", "ts")
X == P(<<"src", "lib">>, "index", "", "ts")
E == P(<<>>, ".env", "", "")
D == P(<<"docs">>, "notes", "", "md")
MCPaths == {A, B, T, X, E, D}
Decl(do, name, exported, row) == [do |-> do, name |-> name, exported |-> exported, line |-> row]
Imp(do, spec, to, row) == [do |-> do, spec |-> spec, to |-> to, line |-> row]
RelA == Imp("staticImport", "relative", [A EXCEPT !.ext = "js"], 1)
RelB == Imp("staticImport", "relative", [B EXCEPT !.ext = ""], 1)
RelLib == Imp("exportFrom", "relative", P(<<"src">>, "lib", "", ""), 2)
Zod == Imp("requireCall", "bare", "zod", 3)
Alias == Imp("dynamicImport", "alias", "@/x", 4)
F == Decl("function", "f", TRUE, 5)
K == Decl("class", Absent, TRUE, 6)
I == Decl("interface", "Shape", FALSE, 7)

F0(bytes) == [bytes |-> bytes, stat |-> 0, symlink |-> FALSE, large |-> FALSE, head |-> "text"]
On(f) == [p \in MCPaths |-> IF p \in DOMAIN f THEN f[p] ELSE Absent]
W(path, text, quiet) == [path |-> path, text |-> text, quiet |-> quiet, ignore |-> Absent]
Base == [store |-> "memory", fast |-> FALSE, faulty |-> FALSE, edits |-> 0, writes |-> {}, graphs |-> FALSE, disks |-> {},
         capabilities |-> {}, tools |-> {}, rules |-> {NoRules}, scans |-> ("s1" :> 2) @@ ("s2" :> 0)]
ScanDisks == {On((A :> F0({F})) @@ (X :> F0({})) @@ (E :> F0({})))}
ScanWrites == {W(A, {K}, FALSE), W(X, Absent, FALSE)}
Ign == [path |-> X, text |-> {}, quiet |-> FALSE, ignore |-> [paths |-> {}, dirs |-> {<<"src", "lib">>}]]
Mem == [Base EXCEPT !.disks = ScanDisks, !.writes = ScanWrites \cup {Ign}, !.edits = 2, !.scans = ("s1" :> 2) @@ ("s2" :> 1)]
Sql == [Mem EXCEPT !.store = "sqlite", !.fast = TRUE, !.writes = {W(A, {F}, FALSE), W(A, {K}, TRUE), W(X, Absent, FALSE)}]
Flt == [Base EXCEPT !.store = "sqlite", !.disks = ScanDisks, !.faulty = TRUE, !.rules = {NoRules, Ign.ignore}, !.edits = 1, !.writes = {W(A, {K}, FALSE)}]
GraphDisks == {On((A :> F0(a)) @@ (B :> F0(b)) @@ (T :> F0(t)) @@ (X :> F0(x)) @@ (D :> F0({}))) :
     a \in {{F, RelB}, {K, RelLib, I}, {F, RelB, RelLib}}, b \in {{RelLib, Zod}, {Alias, RelA}}, t \in {{}, {RelA}, {RelB}}, x \in {{F}, {RelA, K}}}
Cap == [id |-> "edit", admission |-> "production", tools |-> {"simulator.echo", "gone"}, cases |-> {"case1"}]
Gr == [Base EXCEPT !.disks = GraphDisks, !.graphs = TRUE, !.capabilities = {Cap}, !.tools = {"simulator.echo"}, !.edits = 1, !.scans = ("s1" :> 1) @@ ("s2" :> 0), !.writes = {W(A, {I, Zod}, FALSE)}]
NoTree == [Base EXCEPT !.disks = {On((A :> F0({F})))}, !.scans = ("s1" :> 0) @@ ("s2" :> 0)]
MCTrees == [none |-> NoTree, mem |-> Mem, sql |-> Sql, flt |-> Flt, gr |-> Gr]

\* Conversations: calls of two clients on each dialect.
Do(do, id, ws, parent, text) == [do |-> do, id |-> id, ws |-> ws, parent |-> parent, text |-> text]
MCOps == {Do("createConversation", Nothing, "w1", Nothing, ""), Do("createConversation", Nothing, "w1", 1, ""),
   Do("updateConversation", 1, "w2", Nothing, ""), Do("updateConversation", 1, Nothing, 2, ""), Do("deleteConversation", 1, Nothing, Nothing, ""),
   Do("createMessage", 1, Nothing, Nothing, "a"), Do("updateMessage", 1, Nothing, Nothing, ""), Do("deleteMessage", 1, Nothing, Nothing, ""),
   Do("searchConversations", Nothing, "w1", Nothing, "a"), Do("getConversationLineage", 2, Nothing, Nothing, "")}
MCStores == [none |-> [dialect |-> "memory", crash |-> FALSE, calls |-> 0, ops |-> {}],
             mem |-> [dialect |-> "memory", crash |-> FALSE, calls |-> 4, ops |-> MCOps],
             lite |-> [dialect |-> "sqlite", crash |-> TRUE, calls |-> 4, ops |-> MCOps],
             tidb |-> [dialect |-> "mysql", crash |-> FALSE, calls |-> 3, ops |-> MCOps]]

\* Memory: what is stored, who asks, and what triggers a reflection.
Say(words, topics, informative) == [words |-> words, topics |-> topics, informative |-> informative, redacted |-> "same"]
Sayings == [never |-> Say({"never"}, {"deploy"}, TRUE), always |-> Say({"always"}, {"deploy"}, TRUE),
      ok |-> Say({}, {}, FALSE), summary |-> Say({}, {}, TRUE)]
MCTexts == [t \in DOMAIN Sayings |-> [Sayings[t] EXCEPT !.redacted = t]]
Stored(text, access, note) == [text |-> text, access |-> access, note |-> note]
Note(text, note) == [op |-> "note", text |-> text, note |-> note, layer |-> "any"]
Use(op) == [op |-> op, text |-> "ok", note |-> "no", layer |-> "episodic"]
MCMemories == [
  none |-> [kind |-> "local", limit |-> 1, stored |-> <<>>, asks |-> <<>>, triggers |-> <<>>],
  local |-> [kind |-> "local", limit |-> 2, stored |-> <<Stored("never", 1, "source")>>,
     asks |-> [w1 |-> Note("always", "source"), w2 |-> Use("delete")], triggers |-> [h1 |-> "idle", h2 |-> "run-completed"]],
  plain |-> [kind |-> "local", limit |-> 1, stored |-> <<Stored("never", 1, "tag")>>,
     asks |-> [w1 |-> Use("update"), w2 |-> Note("always", "tag"), w3 |-> Use("browse")], triggers |-> <<>>],
  sql |-> [kind |-> "sql", limit |-> 1, stored |-> <<Stored("never", 3, "tag"), Stored("always", 1, "source")>>,
     asks |-> [w1 |-> Note("ok", "source"), w2 |-> Use("update")], triggers |-> <<>>],
  mem0 |-> [kind |-> "mem0", limit |-> 2, stored |-> <<Stored("never", 1, "source"), Stored("always", 1, "source")>>,
     asks |-> <<>>, triggers |-> [h1 |-> "idle", h2 |-> "run-completed"]],
  edited |-> [kind |-> "mem0", limit |-> 2, stored |-> <<Stored("never", 1, "source"), Stored("always", 1, "source")>>,
     asks |-> [w1 |-> Use("update")], triggers |-> [h1 |-> "run-completed", h2 |-> "idle"]],
  chroma |-> [kind |-> "chroma", limit |-> 1, stored |-> <<Stored("never", 3, "tag"), Stored("always", 1, "source")>>,
     asks |-> [w1 |-> Note("ok", "source"), w2 |-> Use("browse")], triggers |-> [h1 |-> "run-failed"]],
  stub |-> [kind |-> "stub", limit |-> 1, stored |-> <<>>, asks |-> [w1 |-> Note("ok", "source"), w2 |-> Use("browse")], triggers |-> [h1 |-> "idle"]]
 ]

\* Skills, truth items and materials.
File(root, skill, at, rel, doc) == [root |-> root, skill |-> skill, at |-> at, rel |-> rel, doc |-> doc]
MCFiles == <<File("bundled", "s1", 1, 0, TRUE), File("user", "s1", 2, 0, TRUE), File("user", "s2", 2, 0, TRUE),
             File("user", "s1", 2, 1, FALSE), File("bundled", "s1", 1, 1, FALSE), File("user", "s3", 3, 0, TRUE)>>
MCDocs == [good |-> [valid |-> TRUE, tags |-> {"t"}, terms |-> {"x"}, chars |-> 4],
           like |-> [valid |-> TRUE, tags |-> {}, terms |-> {"y"}, chars |-> 4],
           bad |-> [valid |-> FALSE, tags |-> {}, terms |-> {}, chars |-> 2]]
Material(name, chars) == [name |-> name, chars |-> chars]
Truth(id, kind, status, source, tags, terms, cites) ==
  [id |-> id, kind |-> kind, status |-> status, source |-> source, title |-> {id}, tags |-> tags, terms |-> terms, cites |-> cites, created |-> 0, updated |-> 0]
NoShelf == [serve |-> FALSE, boots |-> FALSE, packs |-> FALSE, edited |-> {}, start |-> <<>>, tags |-> {}, items |-> {}, subjects |-> {}, queries |-> {},
   approved |-> {}, materials |-> <<>>, threshold |-> 5, budget |-> [inline |-> 6, handles |-> 1, skill |-> 6]]
MCShelves == [
  none |-> NoShelf,
  edits |-> [NoShelf EXCEPT !.serve = TRUE, !.edited = 2..6, !.start = <<"good", "like">>, !.tags = {{}, {"t"}}],
  packs |-> [NoShelf EXCEPT !.packs = TRUE, !.boots = TRUE, !.edited = {3}, !.start = <<"good", "like", "good">>,
     !.items = {Truth("d1", "doc", "TRUSTED", "file", {"x"}, {"y"}, "wellFormed"), Truth("d1", "doc", "REJECTED", "web", {}, {"x"}, "malformed"),
                Truth("d2", "doc", "UNVERIFIED", "web", {"stale"}, {"x", "y"}, "malformed")},
     !.subjects = {"none", "refused"}, !.queries = {{"x"}, {"x", "d2"}},
     !.approved = {"s1", "s2"}, !.materials = <<Material("m1", 4), Material("m2", 4), Material("m3", 9)>>],
  roomy |-> [NoShelf EXCEPT !.packs = TRUE, !.queries = {{}}, !.materials = <<Material("m1", 2), Material("m2", 4), Material("m3", 9)>>, !.budget.handles = 2]
 ]

\* Tasks, check-ins and workflow adapters.
Ask(op, n) == [op |-> op, n |-> n]
NoPipe == [asks |-> {}, about |-> "plain", proactive |-> FALSE, conversation |-> TRUE, checks |-> {}, adapters |-> {}, network |-> FALSE,
           config |-> [linear |-> "complete", make |-> "complete"]]
Controls == {Ask("create", 1), Ask("advance", 1), Ask("advance", 2), Ask("pause", 1), Ask("abort", 1), Ask("retry", 1), Ask("approve", 1)}
MCPipelines == [
   none |-> NoPipe,
   plain |-> [NoPipe EXCEPT !.asks = Controls \ {Ask("advance", 2)}],
   broken |-> [NoPipe EXCEPT !.asks = Controls \ {Ask("pause", 1), Ask("retry", 1), Ask("advance", 2)}, !.about = "broken"],
   permanent |-> [NoPipe EXCEPT !.asks = {Ask("create", 1), Ask("advance", 1), Ask("advance", 2)}, !.about = "permanent"],
   checks |-> [NoPipe EXCEPT !.proactive = TRUE, !.checks = {"c1", "c2"}],
   empty |-> [NoPipe EXCEPT !.proactive = TRUE, !.checks = {"c1"}, !.conversation = FALSE],
   wired |-> [NoPipe EXCEPT !.adapters = {"linear", "make"}, !.network = TRUE],
   dark |-> [NoPipe EXCEPT !.adapters = {"linear", "make"}, !.config.make = "missing"]
 ]

\* Messages by what the patterns count in them, and what a model answers.
Msg == [words : {3, 10, 28}, longRunning : 0..2, code : {0, 2}, research : 0..1, plan : 0..1, noEdit : 0..1, editElsewhere : 0..1,
        direct : 0..1, ambiguous : 0..1, verb : {"none", "delete"}, greeting : {FALSE}]
Blank == [words |-> 0, longRunning |-> 0, code |-> 0, research |-> 0, plan |-> 0, noEdit |-> 0, editElsewhere |-> 0,
          direct |-> 0, ambiguous |-> 0, verb |-> "none", greeting |-> FALSE]
Some(words, verb) == [Blank EXCEPT !.words = words, !.verb = verb]
Draft(route, confidence, complexity, flags) ==
  [kind |-> "draft", route |-> route, confidence |-> confidence, complexity |-> complexity, riskFlags |-> flags]
Bad == {[kind |-> "error"], [kind |-> "noJson"]}
NoInbox == [messages |-> {Blank}, answers |-> {}, spent |-> 0, maxCalls |-> 3, approvalAbove |-> 3, plans |-> {}, known |-> {}, reviews |-> {},
            executes |-> FALSE, deep |-> FALSE, drafts |-> {}, gate |-> [gated |-> FALSE, external |-> TRUE, flagship |-> TRUE]]
Tasks == {[PlanTask(id, deps, risk, approval) EXCEPT !.checks = checks, !.refs = refs] :
   id \in {"t1", "t2"}, deps \in {{}, {"t1"}, {"gone"}}, risk \in {"low", "high"}, approval \in BOOLEAN, checks \in {1}, refs \in {{}}}
   \cup {[PlanTask("t1", {}, "low", FALSE) EXCEPT !.checks = 0], [PlanTask("t1", {}, "low", FALSE) EXCEPT !.refs = {"lib.ts"}, !.words = {"write"}]}
Plans == {[words |-> {}, tasks |-> tasks, dependencies |-> deps, checks |-> 3, riskLevel |-> risk, approvalGates |-> gates, refs |-> {}] :
   tasks \in {<<>>} \cup {<<t>> : t \in Tasks} \cup {<<t, u>> : t \in {x \in Tasks : x.id = "t1" /\ x.dependencies = {}}, u \in Tasks},
   deps \in {{}, {[from |-> "t1", to |-> "t2"]}}, risk \in {"low", "high"},
   gates \in {{}, {Gate("approval", TRUE, {})}, {Gate("approval", TRUE, {"t1"})}, {Gate("approval", FALSE, {}), Gate("checkpoint", TRUE, {"t2"})}}}
Deeper == {[p EXCEPT !.tasks = <<[p.tasks[1] EXCEPT !.write = w]>>] : p \in {x \in Plans : Len(x.tasks) = 1}, w \in {"src", "unsafe"}}
   \cup {[p EXCEPT !.tasks = <<p.tasks[1], p.tasks[2], [p.tasks[2] EXCEPT !.id = "t3", !.write = "src"]>>] : p \in {x \in Plans : Len(x.tasks) = 2 /\ x.riskLevel = "low"}}
   \cup {[p EXCEPT !.riskLevel = "destructive", !.checks = 1] : p \in {x \in Plans : x.riskLevel = "high" /\ Len(x.tasks) = 2}}
Reviews == {[verdict |-> v, findings |-> f] : v \in {"SOUND", "BLOCKED"}, f \in {{}, {Finding("INFO", "style", "plan")}, {Finding("BLOCKER", "style", "plan")}}}
Drafts == Bad \cup {[kind |-> "draft", citations |-> {}], [kind |-> "draft", citations |-> {"node"}]}
MCInboxes == [
  none |-> NoInbox,
  open |-> [NoInbox EXCEPT !.messages = {m \in Msg : m.words > 3 \/ m.longRunning + m.code <= 2} \cup {Blank, [Blank EXCEPT !.words = 1, !.greeting = TRUE]},
     !.answers = Bad \cup {Draft("CODE_EDIT", 60, "high", {}), Draft("DIRECT_ANSWER", 90, "low", {"custom"})}],
  tight |-> [NoInbox EXCEPT !.messages = {[Some(10, "deploy") EXCEPT !.code = 2], [Some(28, "deployment") EXCEPT !.longRunning = 1], Some(10, "write"), Some(20, "truncate"), Some(20, "migrate")},
     !.answers = Bad, !.spent = 1, !.approvalAbove = 2],
  spent |-> [NoInbox EXCEPT !.messages = {[Some(10, "none") EXCEPT !.noEdit = 1, !.editElsewhere = 1]}, !.spent = 3],
  plans |-> [NoInbox EXCEPT !.messages = {[Some(20, "delete") EXCEPT !.code = 2]}, !.plans = Plans, !.reviews = Reviews],
  deep |-> [NoInbox EXCEPT !.messages = {[Some(20, "none") EXCEPT !.code = 2]}, !.deep = TRUE,
     !.plans = Deeper],
  answer |-> [NoInbox EXCEPT !.messages = {[Some(20, "none") EXCEPT !.code = 2], Some(20, "none")}, !.reviews = Reviews, !.executes = TRUE, !.drafts = Drafts],
  gated |-> [NoInbox EXCEPT !.messages = {[Some(20, "none") EXCEPT !.code = 2], Some(20, "none")}, !.reviews = Reviews, !.executes = TRUE, !.drafts = Drafts, !.gate.gated = TRUE]
 ]
=============================================================================
