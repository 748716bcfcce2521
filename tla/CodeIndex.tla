----------------------------- MODULE CodeIndex -----------------------------
(***************************************************************************)
(* The Cartographer's state: incremental scans of a repository that other  *)
(* programs write to (incrementalIndex.ts, repoScanner.ts), the inventory  *)
(* store in memory or in SQLite, the graph store, and a query service      *)
(* loaded from it.  A scan reads the prior inventory, walks the directory  *)
(* tree, hashes, persists and reports, with awaits in between.             *)
(***************************************************************************)
EXTENDS CodeGraph

CONSTANTS
    Paths,      \* the paths a file may have
    Scanners,   \* the callers of scanChangedFiles
    Trees       \* the situations explored, among them how many scans each caller runs

VARIABLES
    tree,       \* the name of the situation
    disk,       \* path |-> the file there, or Absent
    rules,      \* what the ignore files name
    edits,      \* writes made so far
    files,      \* the inventory: a set of file nodes
    snapshots,  \* the ids of the snapshots, in order
    scanErrors, \* snapshot id and path of every recorded error
    tx,         \* what an open SQLite transaction began with, or Absent
    scans,      \* scanner |-> its scan
    graphs,     \* snapshot id |-> the graph stored for it
    service     \* the query service

indexVars == <<tree, disk, rules, edits, files, snapshots, scanErrors, tx, scans, graphs, service>>
Tree == Trees[tree]
Inventory == [files |-> files, snapshots |-> snapshots, scanErrors |-> scanErrors]

Present == {p \in Paths : disk[p] # Absent}
Sources == [p \in Paths |-> IF disk[p] = Absent THEN Absent ELSE disk[p].bytes]

(***************************************************************************)
(* A scan.  Its entry keeps what it has read so far and what happened      *)
(* meanwhile: "alone" is that nobody else wrote to the disk or scanned.    *)
(***************************************************************************)
NoScan == [at |-> "idle", runs |-> 0, prior |-> {}, included |-> {}, ignored |-> {}, found |-> {}, changed |-> {},
           deleted |-> {}, errors |-> {}, alone |-> FALSE]
Disturbed(s) == [i \in Scanners |-> IF i = s THEN scans[s] ELSE [scans[i] EXCEPT !.alone = FALSE]]

BeginScan(s) ==
    /\ scans[s].at \in {"idle", "done", "failed"}
    /\ scans[s].runs < Tree.scans[s]
    /\ scans' = [Disturbed(s) EXCEPT ![s] =
                    [NoScan EXCEPT !.at = "walk", !.runs = scans[s].runs + 1, !.prior = files,
                                   !.alone = \A i \in Scanners \ {s} : scans[i].at \in {"idle", "done", "failed"}]]
    /\ UNCHANGED <<tree, disk, rules, edits, files, snapshots, scanErrors, tx, graphs, service>>

IgnoreFile == [dir |-> <<>>, stem |-> ".gitignore", infix |-> "", ext |-> ""]
\* What cannot be read: a file, or a directory, whose error stands for everything under it.
Unreadable(bad) == {p \in Paths : p \in bad.paths \/ \E d \in bad.dirs : Under(p, d)}
Faults == {[paths |-> {}, dirs |-> {}]} \cup {[paths |-> {p}, dirs |-> {}] : p \in Present}
          \cup {[paths |-> {IgnoreFile}, dirs |-> {}]}
          \cup {[paths |-> {}, dirs |-> {d}] : d \in UNION {{SubSeq(p.dir, 1, n) : n \in 1..Len(p.dir)} : p \in Present}}
FaultsNow == IF Tree.faulty THEN Faults ELSE {[paths |-> {}, dirs |-> {}]}

\* Ignore files that cannot be read ignore nothing, and the error says so.
NoRules == [paths |-> {}, dirs |-> {}]
readIgnoreConfig(bad) == IF IgnoreFile \in bad.paths THEN NoRules ELSE rules

walkRepository(s) ==
    \E bad \in FaultsNow :
        LET seen    == Present \ Unreadable(bad)
            ignored == {p \in seen : shouldIgnoreFile(readIgnoreConfig(bad), p, disk[p])}
        IN  /\ scans[s].at = "walk"
            /\ scans' = [scans EXCEPT ![s].at = "hash", ![s].included = {[path |-> p, stat |-> disk[p].stat] : p \in seen \ ignored},
                                      ![s].ignored = ignored, ![s].errors = (Present \cap Unreadable(bad)) \cup (bad.paths \cap {IgnoreFile})]
            /\ UNCHANGED <<tree, disk, rules, edits, files, snapshots, scanErrors, tx, graphs, service>>

\* The repository root is gone or cannot be listed: the scan fails.
assertRootDirectory(s) ==
    /\ scans[s].at = "walk" /\ Tree.faulty
    /\ scans' = [scans EXCEPT ![s].at = "failed"]
    /\ UNCHANGED <<tree, disk, rules, edits, files, snapshots, scanErrors, tx, graphs, service>>

PriorOf(scan, p) == {f \in scan.prior : f.path = p}
fastUnchanged(scan, e) == Tree.fast /\ \E f \in PriorOf(scan, e.path) : f.stat = e.stat

(* An entry is the prior one, a new one hashed now, or none when it cannot be read. *)
buildHashedFile(scan, e) ==
    IF fastUnchanged(scan, e) THEN PriorOf(scan, e.path)
    ELSE IF disk[e.path] = Absent THEN {}
    ELSE {[buildFileNode(e.path, disk[e.path]) EXCEPT !.stat = e.stat]}

\* A way to get this wrong: a file that was not found this time keeps its entry.
removedWhenIgnored(scan) == {f.path : f \in scan.prior} \cap scan.ignored

\* Entries that are ignored now or were not met by the walk.
removedInventoryPaths(scan) ==
    {f.path : f \in {g \in scan.prior : g.path \in scan.ignored \/ ~\E e \in scan.included : e.path = g.path}}

diffCurrentFiles(s) ==
    /\ scans[s].at = "hash"
    /\ \E bad \in (IF Tree.faulty THEN {{}} \cup {{e.path} : e \in scans[s].included} ELSE {{}}) :
        LET scan  == scans[s]
            found == UNION {IF e.path \in bad /\ ~fastUnchanged(scan, e) THEN {} ELSE buildHashedFile(scan, e) : e \in scan.included}
        IN  scans' = [scans EXCEPT ![s].at = "snapshot", ![s].found = found,
                         ![s].changed = {f.path : f \in {g \in found : ~\E q \in PriorOf(scan, g.path) : q.hash = g.hash}},
                         ![s].deleted = removedInventoryPaths(scan),
                         ![s].errors = @ \cup {e.path : e \in {x \in scan.included : ~\E f \in found : f.path = x.path}}]
    /\ UNCHANGED <<tree, disk, rules, edits, files, snapshots, scanErrors, tx, graphs, service>>

(***************************************************************************)
(* Persisting.  SQLite runs the four calls in one transaction; a second    *)
(* BEGIN on the driver, or the id of a snapshot that is already there, is  *)
(* an error, and the error fails the scan.                                 *)
(***************************************************************************)
SnapshotId(scan) == {<<f.path, f.hash>> : f \in scan.found}
sqlite == Tree.store = "sqlite"

persistScanResult(s) ==
    LET id      == SnapshotId(scans[s])
        refused == sqlite /\ (tx # Absent \/ id \in Range(snapshots))
    IN  /\ scans[s].at = "snapshot"
        /\ snapshots' = IF refused THEN snapshots ELSE Append(snapshots, id)
        /\ tx' = IF sqlite /\ ~refused THEN Inventory ELSE tx
        /\ scans' = [scans EXCEPT ![s].at = IF refused THEN "failed" ELSE "errors"]
        /\ UNCHANGED <<tree, disk, rules, edits, files, scanErrors, graphs, service>>

recordErrors(s) ==
    /\ scans[s].at = "errors"
    /\ scanErrors' = scanErrors \cup {<<SnapshotId(scans[s]), p>> : p \in scans[s].errors}
    /\ scans' = [scans EXCEPT ![s].at = "upsert"]
    /\ UNCHANGED <<tree, disk, rules, edits, files, snapshots, tx, graphs, service>>

upsertFiles(s) ==
    /\ scans[s].at = "upsert"
    /\ files' = {f \in files : ~\E g \in scans[s].found : g.path = f.path} \cup scans[s].found
    /\ scans' = [scans EXCEPT ![s].at = "remove"]
    /\ UNCHANGED <<tree, disk, rules, edits, snapshots, scanErrors, tx, graphs, service>>

\* The last call fails once in a while; only SQLite takes the others back.
StoreFails(s) ==
    /\ scans[s].at \in {"errors", "upsert", "remove"} /\ Tree.faulty /\ sqlite
    /\ files' = tx.files /\ snapshots' = tx.snapshots /\ scanErrors' = tx.scanErrors
    /\ tx' = Absent
    /\ scans' = [scans EXCEPT ![s].at = "failed"]
    /\ UNCHANGED <<tree, disk, rules, edits, graphs, service>>

removeFiles(s) ==
    /\ scans[s].at = "remove"
    /\ files' = {f \in files : f.path \notin scans[s].deleted}
    /\ tx' = IF sqlite THEN Absent ELSE tx
    /\ scans' = [Disturbed(s) EXCEPT ![s].at = "emit"]
    /\ UNCHANGED <<tree, disk, rules, edits, snapshots, scanErrors, graphs, service>>

\* Events go out after the inventory is stored; an emitter's errors reach the caller only.
emitOutputEvents(s) ==
    /\ scans[s].at = "emit"
    /\ scans' = [scans EXCEPT ![s] = [NoScan EXCEPT !.at = "done", !.runs = scans[s].runs, !.found = scans[s].found, !.alone = scans[s].alone]]
    /\ UNCHANGED <<tree, disk, rules, edits, files, snapshots, scanErrors, tx, graphs, service>>

(***************************************************************************)
(* Everybody else: the repository changes, a graph is built and stored for *)
(* a scan, a query service reads its nodes and then its edges.             *)
(***************************************************************************)
Edit ==
    /\ edits < Tree.edits
    /\ \E w \in Tree.writes :
          /\ disk' = [disk EXCEPT ![w.path] =
                        IF w.text = Absent THEN Absent
                        ELSE [bytes |-> w.text, symlink |-> FALSE, large |-> FALSE, head |-> "text",
                              stat |-> IF w.quiet /\ @ # Absent THEN @.stat ELSE edits + 1]]
          /\ rules' = IF w.ignore = Absent THEN rules ELSE w.ignore
    /\ edits' = edits + 1
    /\ scans' = [i \in Scanners |-> [scans[i] EXCEPT !.alone = FALSE]]
    /\ UNCHANGED <<tree, files, snapshots, scanErrors, tx, graphs, service>>

putGraphSnapshot(s) ==
    /\ scans[s].at = "done" /\ Tree.graphs
    /\ LET id    == SnapshotId(scans[s])
           built == buildGraphSnapshot(scans[s].found, Sources)
           caps  == buildCapabilityGraph(Tree.capabilities)
       IN  graphs' = [i \in DOMAIN graphs \cup {id} |->
                        IF i # id THEN graphs[i]
                        ELSE [nodes |-> built.nodes \cup caps.nodes \cup buildToolGraph(Tree.tools)
                                        \cup buildEvalSuiteGraph(UNION {c.cases : c \in Tree.capabilities}),
                              edges |-> built.edges \cup caps.edges]]
    /\ graphs' # graphs
    /\ service' = IF service.at # "half" THEN service ELSE [service EXCEPT !.replaced = @ \/ service.id = SnapshotId(scans[s])]
    /\ UNCHANGED <<tree, disk, rules, edits, files, snapshots, scanErrors, tx, scans>>

NoService == [at |-> "none", id |-> Absent, nodes |-> {}, edges |-> {}, replaced |-> FALSE]
fromStore ==
    \/ /\ service.at = "none"
       /\ \E id \in DOMAIN graphs : service' = [NoService EXCEPT !.at = "half", !.id = id, !.nodes = graphs[id].nodes]
       /\ UNCHANGED <<tree, disk, rules, edits, files, snapshots, scanErrors, tx, scans, graphs>>
    \/ /\ service.at = "half"
       /\ service' = [service EXCEPT !.at = "open", !.edges = graphs[service.id].edges]
       /\ UNCHANGED <<tree, disk, rules, edits, files, snapshots, scanErrors, tx, scans, graphs>>

IndexInit ==
    /\ tree \in DOMAIN Trees
    /\ disk \in Tree.disks
    /\ rules \in Tree.rules
    /\ edits = 0
    /\ files = {} /\ snapshots = <<>> /\ scanErrors = {} /\ tx = Absent
    /\ scans = [s \in Scanners |-> NoScan]
    /\ graphs = <<>>
    /\ service = NoService

IndexNext ==
    \/ \E s \in Scanners :
          \/ BeginScan(s) \/ walkRepository(s) \/ assertRootDirectory(s) \/ diffCurrentFiles(s)
          \/ persistScanResult(s) \/ recordErrors(s) \/ upsertFiles(s) \/ removeFiles(s)
          \/ StoreFails(s) \/ emitOutputEvents(s) \/ putGraphSnapshot(s)
    \/ Edit
    \/ fromStore

(***************************************************************************)
(* Properties.                                                             *)
(***************************************************************************)

(* The inventory agrees with the disk after a scan that was alone: the
   files that are to be indexed are there with their present contents and
   nothing else is, save for the files whose errors the snapshot records
   and, with the fast precheck, files rewritten within the same size and
   time of modification. *)
InventoryAgrees ==
    \A s \in Scanners :
        scans[s].at = "done" /\ scans[s].alone =>
            LET due     == {p \in Present : ~shouldIgnoreFile(rules, p, disk[p])}
                excused == {p \in Paths \cup {IgnoreFile} : <<SnapshotId(scans[s]), p>> \in scanErrors}
            IN  IgnoreFile \in excused \/
                /\ \A p \in due \ excused : \E f \in files :
                      f.path = p /\ (f.hash = disk[p].bytes \/ (Tree.fast /\ f.stat = disk[p].stat))
                /\ \A f \in files : f.path \in due \cup excused
                /\ \A f, g \in files : f.path = g.path => f = g

(* The answers of an open query service agree with each other and with the
   graph: the impact of a change is exactly the files from which the changed
   one is reached along imports; dependents are dependencies read backwards;
   the context of a file and of its symbols holds what the file's own query
   lists; no test is found that the impact of the file does not report; and
   every edge joins two nodes.  A graph that was replaced between the reading
   of its nodes and of its edges is excused, and so is the edge from a
   capability to a tool that is not registered. *)
AnswersAgree ==
    service.at = "open" /\ ~service.replaced =>
        LET g == [nodes |-> service.nodes, edges |-> service.edges]
            indexed == {n.path : n \in {m \in g.nodes : m.kind \in FileLike}}
            names   == {n.name : n \in {m \in g.nodes : m.kind \in SymbolKinds}}
            File(p) == [by |-> "file", path |-> p]
            Uses(p, q) == \E e \in getDependencies(g, File(p)).found : e.to = FileId(q)
            closed(S) == \A p \in indexed, q \in S : Uses(p, q) => p \in S
            closure(c) == CHOOSE S \in SUBSET indexed : /\ c \in S /\ closed(S)
                              /\ \A T \in SUBSET indexed : c \in T /\ closed(T) => S \subseteq T
            Is(id) == \E n \in g.nodes : n.id = id
        IN  /\ \A e \in g.edges : Is(e.from) /\ (Is(e.to) \/ e.kind = "WRAPPED_BY")
            /\ \A p \in indexed :
                  /\ getImpact(g, {p}).found = closure(p)
                  /\ \A q \in indexed : Uses(p, q) <=> \E e \in getDependents(g, File(q)).found : e.from = FileId(p)
                  /\ getFile(g, p).found \subseteq getRelevantContext(g, {p}, {}).found
                  /\ findTestsQuery(g, p, {}, Sources).found \subseteq computeStructuralImpactSets(g, {p}).tests
            /\ \A n \in names :
                  /\ getSymbol(g, n).found \subseteq getRelevantContext(g, {}, {n}).found
                  /\ getDependencies(g, [by |-> "name", name |-> n]).status = "ok"
            /\ \A c \in Tree.capabilities : getCapability(g, c.id).found \subseteq listCapabilities(g).found
            /\ checkArchitecture(g, indexed).status = "not_configured"

\* What the cartographer knows is right: the stored inventory agrees with the disk (incrementalIndex.ts,
\* sqliteInventoryStore.ts), and the answers of its query service agree with the graph (queryService.ts).
CartographerAgrees == InventoryAgrees /\ AnswersAgree
=============================================================================
