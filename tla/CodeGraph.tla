----------------------------- MODULE CodeGraph -----------------------------
(***************************************************************************)
(* The Cartographer's pure half: which files of a repository are indexed   *)
(* and as what (ignorePolicy.ts, fileClassifier.ts), what their imports    *)
(* and tests resolve to (importExtractor.ts, testLinker.ts), the graph     *)
(* built from an inventory (graphBuilder.ts and the capability adapters),  *)
(* and the queries on it (queryService.ts).                                *)
(*                                                                         *)
(* A path is its directory (a sequence of segments), stem, infix ("test",  *)
(* "generated", "config" or "") and extension.  A source text is a set of  *)
(* statements: declarations, and imports whose specifier is already joined *)
(* with the directory of the importing file.  A node's id is its kind of   *)
(* id with its key, as the makeXId functions build it.                     *)
(***************************************************************************)
EXTENDS Naturals, Sequences, FiniteSets, SequencesExt

CONSTANT Absent   \* undefined

BUILT_IN_SEGMENTS == {".git", "node_modules", "dist"}
TEST_SEGMENTS == {"tests"}
FIXTURE_SEGMENTS == {"fixtures"}
ASSET_EXTENSIONS == {"png"}
TsOrJs == {"ts", "tsx", "js"}
SUPPORTED_EXTS == <<"ts", "tsx", "js">>

Segments(p) == Range(p.dir)
Under(p, dir) == IsPrefix(dir, p.dir)

isBuiltInPath(p) == Segments(p) \cap BUILT_IN_SEGMENTS # {} \/ p.stem = ".DS_Store"
isEnvBasename(p) == p.stem = ".env" /\ p.ext # "example"
isLockfile(p) == p.stem = "package-lock"
isGeneratedPath(p) == p.infix = "generated" \/ "generated" \in Segments(p)

(* Rules are the directories and files that .gitignore and .rectorignore name. *)
matchesMatcher(rules, p) == p \in rules.paths \/ \E d \in rules.dirs : Under(p, d)

shouldIgnoreFile(rules, p, file) ==
    \/ file.symlink
    \/ isBuiltInPath(p)
    \/ isEnvBasename(p)
    \/ matchesMatcher(rules, p)
    \/ file.large
    \/ file.head = "binary"
    \/ ~isLockfile(p) /\ (isGeneratedPath(p) \/ file.head = "generated")

isConfigFile(p) == p.stem = "package" \/ p.infix = "config" \/ (p.ext = "yml" /\ Len(p.dir) <= 1 /\ "docs" \notin Segments(p))
isDocFile(p) == p.ext = "md" \/ p.stem = "README" \/ "docs" \in Segments(p)

(* The first rule that matches; a file is classified by its path alone. *)
classifyFile(p) ==
    IF isLockfile(p) THEN "lockfile"
    ELSE IF p.ext \in ASSET_EXTENSIONS THEN "asset"
    ELSE IF isGeneratedPath(p) THEN "generated"
    ELSE IF p.infix = "test" \/ Segments(p) \cap TEST_SEGMENTS # {} THEN "test"
    ELSE IF Segments(p) \cap FIXTURE_SEGMENTS # {} THEN "fixture"
    ELSE IF isConfigFile(p) THEN "config"
    ELSE IF isDocFile(p) THEN "doc"
    ELSE IF p.ext \in TsOrJs THEN "source"
    ELSE IF "vendor" \in Segments(p) THEN "vendor"
    ELSE "unknown"

buildFileNode(p, file) == [path |-> p, hash |-> file.bytes, stat |-> file.stat, kind |-> classifyFile(p)]

(***************************************************************************)
(* Imports.                                                                *)
(***************************************************************************)
FirstOf(candidates, indexed) ==
    LET found == SelectSeq(candidates, LAMBDA p : p \in indexed)
    IN  IF found = <<>> THEN Absent ELSE found[1]

firstIndexedPathWithExtensions(base) ==
    IF base.ext = "" THEN [i \in 1..Len(SUPPORTED_EXTS) |-> [base EXCEPT !.ext = SUPPORTED_EXTS[i]]] ELSE <<>>
firstIndexedIndexEntry(base) ==
    IF base.ext # "" THEN <<>>
    ELSE [i \in 1..Len(SUPPORTED_EXTS) |->
            [dir |-> Append(base.dir, base.stem), stem |-> "index", infix |-> "", ext |-> SUPPORTED_EXTS[i]]]

probeIndexedBaseAndExtensions(indexed, base) ==
    FirstOf(<<base>> \o firstIndexedPathWithExtensions(base) \o firstIndexedIndexEntry(base), indexed)

probeJsSpecifierToSource(indexed, base) ==
    IF base.ext = "js" THEN probeIndexedBaseAndExtensions(indexed, [base EXCEPT !.ext = ""]) ELSE Absent

resolveRelative(indexed, base) ==
    LET js == probeJsSpecifierToSource(indexed, base)
    IN  IF js # Absent THEN js ELSE probeIndexedBaseAndExtensions(indexed, base)

(* A bare specifier is a package; an alias or a missing file stays unresolved. *)
resolveTarget(s, indexed) ==
    CASE s.spec = "relative" ->
            LET file == resolveRelative(indexed, s.to)
            IN  IF file = Absent THEN [kind |-> "unresolved", to |-> "not_found"] ELSE [kind |-> "file", to |-> file]
      [] s.spec = "alias" -> [kind |-> "unresolved", to |-> "not_configured"]
      [] OTHER -> [kind |-> "package", to |-> s.to]

ImportStatements == {"staticImport", "dynamicImport", "exportFrom", "requireCall"}
extractImports(text, indexed) ==
    {[kind |-> s.do, spec |-> <<s.spec, s.to>>, target |-> resolveTarget(s, indexed)] :
        s \in {st \in text : st.do \in ImportStatements}}

(* An unnamed declaration is "default" for functions and classes and nothing for the others. *)
extractTsSymbols(text) ==
    {[kind |-> s.do, name |-> IF s.name = Absent THEN "default" ELSE s.name, exported |-> s.exported, line |-> s.line] :
        s \in {st \in text : st.do \in {"function", "class", "interface", "variable"}
                             /\ (st.name # Absent \/ st.do \in {"function", "class"})}}
    \cup {[kind |-> "export", name |-> "* from", exported |-> TRUE, line |-> s.line] :
            s \in {st \in text : st.do = "exportFrom"}}

(***************************************************************************)
(* Tests: those that import the file, or else the only one named for it.   *)
(***************************************************************************)
isTestFileCandidate(p) == p.infix = "test"
collectTestCandidates(indexed) == {p \in indexed : isTestFileCandidate(p)}

findImportLinkedTests(target, indexed, sources) ==
    {[test |-> c, relation |-> "import"] :
        c \in {t \in collectTestCandidates(indexed) :
                 /\ sources[t] # Absent
                 /\ \E i \in extractImports(sources[t], indexed) : i.target = [kind |-> "file", to |-> target]}}

matchesBasenameConvention(target, c) == c.stem = target.stem /\ target.infix = "" /\ c.ext \in TsOrJs
countIndexedSourcesWithStem(target, indexed) ==
    Cardinality({p \in indexed : ~isTestFileCandidate(p) /\ [p EXCEPT !.ext = "", !.dir = <<>>] =
                                                              [target EXCEPT !.ext = "", !.dir = <<>>]})

findBasenameFallback(target, indexed) ==
    LET named == {c \in collectTestCandidates(indexed) : matchesBasenameConvention(target, c)}
    IN  IF countIndexedSourcesWithStem(target, indexed) = 1 /\ Cardinality(named) = 1
        THEN {[test |-> c, relation |-> "basename"] : c \in named}
        ELSE {}

findTests(target, indexed, sources) ==
    LET imported == findImportLinkedTests(target, indexed, sources)
    IN  IF imported # {} THEN imported ELSE findBasenameFallback(target, indexed)

(***************************************************************************)
(* The graph.                                                              *)
(***************************************************************************)
Node(id, kind, path, name) == [id |-> id, kind |-> kind, path |-> path, name |-> name]
Edge(kind, from, to, key, relation) ==
    [id |-> <<kind, from, key>>, kind |-> kind, from |-> from, to |-> to, relation |-> relation]

ProjectId == <<"project">>
PackageId(name) == <<"package", name>>
DirectoryId(dir) == <<"dir", dir>>
FileId(p) == <<"file", p>>
SymbolId(p, s) == <<"symbol", p, s.exported, s.name, s.line>>

collectAncestorDirectories(files) ==
    UNION {{SubSeq(f.path.dir, 1, n) : n \in 1..Len(f.path.dir)} : f \in files}

fileKindToGraphKind(kind) ==
    CASE kind = "test" -> "Test" [] kind = "doc" -> "Doc" [] kind = "config" -> "Config" [] OTHER -> "File"
symbolKindToNodeKind(kind) ==
    CASE kind = "function" -> "Function" [] kind = "class" -> "Class" [] kind = "interface" -> "Interface" [] OTHER -> "Symbol"

emitBaselineInventoryNodes(files) ==
    {Node(ProjectId, "Project", Absent, Absent), Node(PackageId("."), "Package", Absent, Absent)}
    \cup {Node(DirectoryId(d), "Directory", Absent, Absent) : d \in collectAncestorDirectories(files)}
    \cup {Node(FileId(f.path), fileKindToGraphKind(f.kind), f.path, Absent) : f \in files}

ParentId(dir) == IF dir = <<>> THEN ProjectId ELSE DirectoryId(dir)
emitBaselineContainsEdges(files) ==
    {Edge("CONTAINS", ProjectId, PackageId("."), PackageId("."), Absent)}
    \cup {Edge("CONTAINS", ParentId(Front(d)), DirectoryId(d), DirectoryId(d), Absent) : d \in collectAncestorDirectories(files)}
    \cup {Edge("CONTAINS", ParentId(f.path.dir), FileId(f.path), FileId(f.path), Absent) : f \in files}

isStructuralSourceFile(f) == f.kind = "source" /\ f.path.ext \in TsOrJs
Structural(files, sources) == {f \in files : isStructuralSourceFile(f) /\ sources[f.path] # Absent}

emitSymbolNodes(f, sources) ==
    {Node(SymbolId(f.path, s), symbolKindToNodeKind(s.kind), f.path, s.name) : s \in extractTsSymbols(sources[f.path])}
emitSymbolEdges(f, sources) ==
    LET symbols == extractTsSymbols(sources[f.path])
        To(kind, s) == Edge(kind, FileId(f.path), SymbolId(f.path, s), SymbolId(f.path, s), Absent)
    IN  {To("DEFINES", s) : s \in symbols} \cup {To("EXPORTS", s) : s \in {t \in symbols : t.exported}}

Imports(f, indexed, sources) == {i \in extractImports(sources[f.path], indexed) : i.target.kind # "unresolved"}
resolveImportTargetNodeId(i) == IF i.target.kind = "file" THEN FileId(i.target.to) ELSE PackageId(i.target.to)
ensureBarePackageNodes(f, indexed, sources) ==
    {Node(resolveImportTargetNodeId(i), "Package", Absent, Absent) :
        i \in {j \in Imports(f, indexed, sources) : j.target.kind = "package"}}

(* An IMPORTS edge is keyed by the specifier, the others by the target. *)
emitImportAndExportEdges(f, indexed, sources) ==
    UNION {LET to == resolveImportTargetNodeId(i)
           IN  {Edge("IMPORTS", FileId(f.path), to, i.spec, Absent), Edge("DEPENDS_ON", FileId(f.path), to, to, Absent)}
               \cup (IF i.kind = "exportFrom" THEN {Edge("EXPORTS", FileId(f.path), to, to, Absent)} ELSE {}) :
           i \in Imports(f, indexed, sources)}

emitTestEdges(files, sources) ==
    LET indexed == {f.path : f \in files}
    IN  UNION {{Edge("TESTS", FileId(l.test), FileId(f.path), FileId(f.path), l.relation) :
                    l \in {k \in findTests(f.path, indexed, sources) :
                             \E t \in files : t.path = k.test /\ t.kind = "test"}} :
               f \in Structural(files, sources)}

(* The first of the nodes with an id is kept. *)
MergeById(base, more) == base \cup {x \in more : ~\E b \in base : b.id = x.id}

buildGraphSnapshot(files, sources) ==
    LET indexed == {f.path : f \in files}
        parsed  == Structural(files, sources)
    IN  [nodes |-> MergeById(emitBaselineInventoryNodes(files),
                       UNION {emitSymbolNodes(f, sources) \cup ensureBarePackageNodes(f, indexed, sources) : f \in parsed}),
         edges |-> MergeById(emitBaselineContainsEdges(files),
                       UNION {emitSymbolEdges(f, sources) \cup emitImportAndExportEdges(f, indexed, sources) : f \in parsed}
                       \cup emitTestEdges(files, sources))]

(***************************************************************************)
(* Tools, capabilities and evaluation cases as nodes.                      *)
(***************************************************************************)
getDefaultToolProductionAdmission(tool) == IF tool = "simulator.echo" THEN "test_only" ELSE "production"
buildToolGraph(tools) == {Node(<<"tool", t>>, "Tool", Absent, t) : t \in tools}
buildEvalSuiteGraph(cases) == {Node(<<"evalcase", c>>, "RunTrace", Absent, c) : c \in cases}

\* A capability that wraps a tool outside production is quarantined.
applyProductionCapabilityGuardrails(c) ==
    IF c.admission = "production" /\ \E t \in c.tools : getDefaultToolProductionAdmission(t) # "production"
    THEN "quarantined" ELSE c.admission
buildCapabilityGraph(capabilities) ==
    [nodes |-> {Node(<<"capability", c.id>>, "Capability", Absent, applyProductionCapabilityGuardrails(c)) : c \in capabilities},
     edges |-> UNION {{Edge("WRAPPED_BY", <<"capability", c.id>>, <<"tool", t>>, <<"tool", t>>, Absent) : t \in c.tools}
                      \cup {Edge("VALIDATED_BY", <<"capability", c.id>>, <<"evalcase", e>>, <<"evalcase", e>>, Absent) : e \in c.cases} :
                      c \in capabilities}]

(***************************************************************************)
(* Queries.  An answer is its status and what it lists.                    *)
(***************************************************************************)
FileLike == {"File", "Test", "Doc", "Config"}
SymbolKinds == {"Symbol", "Function", "Class", "Interface"}
isImportOrDependsOn(e) == e.kind \in {"IMPORTS", "DEPENDS_ON"}
Answer(status, found) == [status |-> status, found |-> found]

FileNodes(g, path) == {n \in g.nodes : n.kind \in FileLike /\ n.path = path}
SymbolsNamed(g, name) == {n \in g.nodes : n.kind \in SymbolKinds /\ n.name = name}
SymbolsIn(g, path) == {n \in g.nodes : n.kind \in SymbolKinds /\ n.path = path}
ContainingFiles(g, n) == IF n.kind \in SymbolKinds THEN FileNodes(g, n.path) ELSE {}

(* A path that is absolute or leaves the repository is refused. *)
validateQueryPath(path) == path.dir = <<>> \/ path.dir[1] \notin {"/", ".."}

resolveTargetToNodes(g, t) ==
    CASE t.by = "file" -> IF ~validateQueryPath(t.path) THEN Answer("invalid_input", {})
                          ELSE LET found == FileNodes(g, t.path) IN Answer(IF found = {} THEN "not_found" ELSE "ok", found)
      [] t.by = "name" -> LET found == SymbolsNamed(g, t.name) IN Answer(IF found = {} THEN "not_found" ELSE "ok", found)
      [] OTHER -> Answer("invalid_input", {})

getFile(g, path) ==
    IF ~validateQueryPath(path) THEN Answer("invalid_input", {})
    ELSE LET file == FileNodes(g, path)
         IN  IF file = {} THEN Answer("not_found", {})
             ELSE Answer("ok", file \cup SymbolsIn(g, path) \cup {e \in g.edges : e.from = FileId(path) /\ isImportOrDependsOn(e)})

getSymbol(g, name) == resolveTargetToNodes(g, [by |-> IF name = Absent THEN "nothing" ELSE "name", name |-> name])

(* The edges of the targets, and for a symbol the edges of its file. *)
LinkedEdges(g, t, end) ==
    LET targets == resolveTargetToNodes(g, t)
        ids     == {n.id : n \in targets.found \cup UNION {ContainingFiles(g, n) : n \in targets.found}}
    IN  Answer(targets.status, {e \in g.edges : isImportOrDependsOn(e) /\ e[end] \in ids})
getDependencies(g, t) == LinkedEdges(g, t, "from")
getDependents(g, t) == LinkedEdges(g, t, "to")

addContextForPathHint(g, path) ==
    LET outs == {e \in g.edges : FileNodes(g, path) # {} /\ e.from = FileId(path)}
    IN  FileNodes(g, path) \cup (IF FileNodes(g, path) = {} THEN {} ELSE SymbolsIn(g, path))
        \cup {n \in g.nodes : \E e \in outs : e.to = n.id} \cup outs
addContextForSymbolHint(g, name) ==
    SymbolsNamed(g, name) \cup UNION {ContainingFiles(g, n) : n \in SymbolsNamed(g, name)}
getRelevantContext(g, paths, names) ==
    IF \E p \in paths : ~validateQueryPath(p) THEN Answer("invalid_input", {})
    ELSE Answer("ok", UNION {addContextForPathHint(g, p) : p \in paths} \cup UNION {addContextForSymbolHint(g, n) : n \in names})

TestsOf(g, id) ==
    {n.path : n \in {m \in g.nodes : \E e \in g.edges : e.kind = "TESTS" /\ e.to = id /\ e.from = m.id}}

\* One turn of the loop: the file at the head of the queue, its tests, and the files that depend on it.
visitNext(g, w) ==
    IF w.queue = <<>> THEN w
    ELSE LET here    == Head(w.queue)
             ids     == {n.id : n \in FileNodes(g, here)}
             callers == {n \in g.nodes : n.path # Absent
                                         /\ \E e \in g.edges : isImportOrDependsOn(e) /\ e.to \in ids /\ e.from = n.id}
         IN  [queue    |-> Tail(w.queue) \o SetToSeq({n.path : n \in callers} \ w.impacted),
              impacted |-> w.impacted \cup {n.path : n \in callers},
              tests    |-> w.tests \cup UNION {TestsOf(g, id) : id \in ids \cup {n.id : n \in callers}}]

computeStructuralImpactSets(g, changed) ==
    LET turns == Cardinality(changed) + Cardinality(g.nodes)
        walk[k \in 0..turns] ==
            IF k = 0 THEN [queue |-> SetToSeq(changed), impacted |-> changed, tests |-> {}]
            ELSE visitNext(g, walk[k - 1])
    IN  walk[turns]

getImpact(g, changed) ==
    IF \E p \in changed : ~validateQueryPath(p) THEN Answer("invalid_input", {})
    ELSE Answer("ok", computeStructuralImpactSets(g, changed).impacted)

\* The tests the graph links, or else those the linker finds in the texts.
findTestsQuery(g, path, indexed, sources) ==
    IF ~validateQueryPath(path) THEN Answer("invalid_input", {})
    ELSE LET linked == UNION {TestsOf(g, n.id) : n \in FileNodes(g, path)}
         IN  Answer("ok", IF linked # {} THEN linked ELSE {l.test : l \in findTests(path, indexed, sources)})

checkArchitecture(g, changed) ==
    LET rules == {n \in g.nodes : n.kind = "Rule"}
    IN  IF \E p \in changed : ~validateQueryPath(p) THEN Answer("invalid_input", {})
        ELSE Answer(IF rules = {} THEN "not_configured" ELSE "ok", rules)
listCapabilities(g) ==
    LET found == {n \in g.nodes : n.kind = "Capability"} IN Answer(IF found = {} THEN "not_configured" ELSE "ok", found)
getCapability(g, id) ==
    LET found == {n \in listCapabilities(g).found : n.id = <<"capability", id>>}
    IN  Answer(IF found # {} THEN "ok"
               ELSE IF listCapabilities(g).status = "ok" THEN "not_found" ELSE "not_configured", found)
=============================================================================
