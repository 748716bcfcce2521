----------------------------- MODULE Knowledge -----------------------------
(***************************************************************************)
(* What a run may know beyond its conversation: the skills on disk behind  *)
(* a cache keyed by a signature (memory/skillsCatalog.ts), the truth       *)
(* library they are copied into at boot (memory/truthLibrary.ts), and the  *)
(* context pack put together from both within a budget                     *)
(* (orchestration/contextBuilder.ts).                                      *)
(***************************************************************************)
EXTENDS Naturals, Integers, Sequences, FiniteSets, SequencesExt

CONSTANTS
    Missing,        \* no file, no cache entry, no item
    MaxScanDepth,   \* directories below a root that are scanned
    MaxEdits,       \* edits of the skill files explored
    SkillFiles,     \* file |-> its root, skill, depth of the skill, depth below it, and whether it is the SKILL.md
    Docs,           \* text |-> whether its front matter is valid, its tags, terms and length
    Shelves         \* the situations explored

VARIABLES
    shelf,      \* the name of the situation
    skillDisk,  \* file |-> text, size and time of modification
    dirTimes,   \* directory |-> time of modification
    unseen,     \* files rewritten with the same size and time
    clock,
    catalog,    \* root |-> the cached signature and manifests
    library,    \* id |-> truth item
    artifacts,  \* artifacts stored
    pack        \* the last context pack built

knowVars == <<shelf, skillDisk, dirTimes, unseen, clock, catalog, library, artifacts, pack>>
Shelf == Shelves[shelf]
Roots == {SkillFiles[f].root : f \in DOMAIN SkillFiles}
DirOf(f) == <<SkillFiles[f].root, SkillFiles[f].skill, SkillFiles[f].at + SkillFiles[f].rel>>
OnShelf == {f \in DOMAIN SkillFiles : skillDisk[f] # Missing}
InRoot(root) == {f \in OnShelf : SkillFiles[f].root = root}

(***************************************************************************)
(* The catalogue.                                                          *)
(***************************************************************************)
SignatureTo(root, depth) ==
    [files |-> {<<f, skillDisk[f].at, skillDisk[f].size>> : f \in {f \in InRoot(root) : DirOf(f)[3] <= depth}},
     dirs |-> {<<d, dirTimes[d]>> : d \in {d \in DOMAIN dirTimes : d[1] = root /\ d[3] <= depth + 1}}]
\* A way to get this wrong: the signature covers one level less than the scan.
signatureOneShort(root) == SignatureTo(root, MaxScanDepth - 1)
computeSignature(root) == SignatureTo(root, MaxScanDepth)

collectSkillDirs(root) == {f \in InRoot(root) : SkillFiles[f].doc /\ SkillFiles[f].at <= MaxScanDepth}
collectFiles(doc) ==
    {[file |-> g, size |-> skillDisk[g].size] :
        g \in {g \in InRoot(SkillFiles[doc].root) : SkillFiles[g].skill = SkillFiles[doc].skill /\ SkillFiles[g].rel <= MaxScanDepth}}
\* A document without valid front matter is no skill.
parseSkillDocument(f) == Docs[skillDisk[f].text].valid
readManifest(f) == [id |-> SkillFiles[f].skill, doc |-> f, front |-> skillDisk[f].text, files |-> collectFiles(f),
                    bundled |-> SkillFiles[f].root = "bundled"]
FreshScan(root) == {readManifest(f) : f \in {f \in collectSkillDirs(root) : parseSkillDocument(f)}}
scanRoot(root) ==
    IF catalog[root] # Missing /\ catalog[root].signature = computeSignature(root) THEN catalog[root]
    ELSE [signature |-> computeSignature(root), manifests |-> FreshScan(root)]
\* A skill of the user takes the place of a bundled one with the same id.
listSkills(tags, bundledOnly) ==
    LET bundled == scanRoot("bundled").manifests
        own == IF bundledOnly THEN {} ELSE scanRoot("user").manifests IN
    {m \in own \cup {b \in bundled : \A u \in own : u.id # b.id} : tags \subseteq Docs[m.front].tags}
Scanned(bundledOnly) ==
    catalog' = [root \in Roots |-> IF bundledOnly /\ root # "bundled" THEN catalog[root] ELSE scanRoot(root)]

ServeSkills(tags, bundledOnly) ==
    /\ Shelf.serve
    /\ Scanned(bundledOnly)
    /\ UNCHANGED <<shelf, skillDisk, dirTimes, unseen, clock, library, artifacts, pack>>

WriteSkillFile(f, text) ==
    /\ clock < MaxEdits /\ f \in Shelf.edited
    /\ clock' = clock + 1
    /\ skillDisk' = [skillDisk EXCEPT ![f] = [text |-> text, size |-> Docs[text].chars, at |-> clock + 1]]
    /\ dirTimes' = IF skillDisk[f] = Missing THEN [dirTimes EXCEPT ![DirOf(f)] = clock + 1] ELSE dirTimes
    /\ UNCHANGED <<shelf, unseen, catalog, library, artifacts, pack>>
\* An edit that keeps both size and time, as a restored backup or a second write within the clock's tick.
RewriteQuietly(f, text) ==
    /\ clock < MaxEdits /\ f \in Shelf.edited
    /\ skillDisk[f] # Missing /\ Docs[text].chars = skillDisk[f].size /\ text # skillDisk[f].text
    /\ clock' = clock + 1
    /\ skillDisk' = [skillDisk EXCEPT ![f].text = text]
    /\ unseen' = unseen \cup {f}
    /\ UNCHANGED <<shelf, dirTimes, catalog, library, artifacts, pack>>
RemoveSkillFile(f) ==
    /\ clock < MaxEdits /\ f \in Shelf.edited /\ skillDisk[f] # Missing
    /\ clock' = clock + 1
    /\ skillDisk' = [skillDisk EXCEPT ![f] = Missing]
    /\ dirTimes' = [dirTimes EXCEPT ![DirOf(f)] = clock + 1]
    /\ UNCHANGED <<shelf, unseen, catalog, library, artifacts, pack>>

(***************************************************************************)
(* The truth library.                                                      *)
(***************************************************************************)
validateCitation(c) == c # "malformed"
validateProvenance(item) == validateCitation(item.cites)
skillToTruthItem(m, body) ==
    [id |-> m.id, kind |-> "skill", status |-> "TRUSTED", source |-> "file", title |-> {m.id}, tags |-> Docs[m.front].tags \cup {"skill", m.id},
     terms |-> Docs[body].terms, cites |-> "wellFormed", created |-> clock, updated |-> clock]
upsert(held, item) == [held EXCEPT ![item.id] = [item EXCEPT !.created = IF held[item.id] = Missing THEN item.created ELSE held[item.id].created]]
\* Only at boot, and nothing is ever removed: a skill deleted later stays in the library as it was.
syncSkillsToTruthLibrary ==
    /\ Shelf.boots /\ library = [id \in DOMAIN library |-> Missing]
    /\ Scanned(FALSE)
    /\ library' = FoldSet(LAMBDA m, held : upsert(held, skillToTruthItem(m, skillDisk[m.doc].text)), library, listSkills({}, FALSE))
    /\ UNCHANGED <<shelf, skillDisk, dirTimes, unseen, clock, artifacts, pack>>
\* Mutations go through when there is no subject, when authentication is off, or with the permission.
checkMutate(subject) == subject \in {"none", "local", "permitted"}
authorizingTruthLibrary(subject, item) ==
    /\ item \in Shelf.items /\ library[item.id] # item
    /\ library' = IF checkMutate(subject) THEN upsert(library, item) ELSE library
    /\ UNCHANGED <<shelf, skillDisk, dirTimes, unseen, clock, catalog, artifacts, pack>>

One(condition, n) == IF condition THEN n ELSE 0
truthProvenanceBoost(item) ==
    One(item.status = "TRUSTED", 3) + One(item.source \in {"file", "manual", "system"}, 1)
    + One(validateCitation(item.cites), IF item.status = "TRUSTED" THEN 3 ELSE 1)
truthStalePenalty(item) == One({"stale", "deprecated"} \cap item.tags # {}, 3) + One("stale" \in item.title, 2) + One(~validateProvenance(item), 2)
scoreItem(item, query) ==
    LET hits(t) == One(t \in item.title, 8) + One(t \in item.tags, 5) + One(t \in item.terms, 1)
        matched == {t \in query : hits(t) > 0}
        score == One(query = item.title, 20) + One(\E t \in item.tags : query = {t}, 14) + MapThenSumSet(hits, matched)
                 + One(matched = query, 3) + truthProvenanceBoost(item) - truthStalePenalty(item) - One(item.status = "REJECTED", 1) IN
    IF matched = {} \/ score < 0 THEN 0 ELSE score
matchesFilters(item, kind) == item.status # "REJECTED" /\ item.kind = kind
compareSearchResults(query, i, j) ==
    LET rank(item) == <<scoreItem(item, query), IF item.status = "TRUSTED" THEN 1 ELSE 0, item.updated>>
        a == rank(library[i])
        b == rank(library[j]) IN
    a[1] > b[1] \/ (a[1] = b[1] /\ (a[2] > b[2] \/ (a[2] = b[2] /\ a[3] > b[3])))
searchTruthLibrary(query, kind) ==
    LET found == {i \in DOMAIN library : /\ library[i] # Missing /\ matchesFilters(library[i], kind)
                                         /\ query = {} \/ scoreItem(library[i], query) > 0} IN
    SetToSortSeq(found, LAMBDA i, j : compareSearchResults(query, i, j))

(***************************************************************************)
(* The context pack.                                                       *)
(***************************************************************************)
ContextBudget == Shelf.budget
textOf(item) == item.title \cup item.terms \cup item.tags
statusBoost(status) == CASE status = "TRUSTED" -> 4 [] status = "STALE" -> -5 [] status = "REJECTED" -> -12 [] OTHER -> 0
contextProvenanceBoost(source) == One(source \in {"user", "manual", "file", "system", "user-note"}, 2)
rankTruthResults(order, query, limit) ==
    LET score(i) == scoreItem(library[i], query) + 5 * Cardinality(query \cap textOf(library[i])) + statusBoost(library[i].status)
                    + contextProvenanceBoost(library[i].source)
        ranked == SortSeq(order, LAMBDA i, j : score(i) > score(j) \/ (score(i) = score(j) /\ library[i].updated > library[j].updated)) IN
    SubSeq(ranked, 1, IF Len(ranked) < limit THEN Len(ranked) ELSE limit)

\* A small material is carried inline, a large one becomes an artifact and a handle to it.
createContextMaterial(m) == IF m.chars <= Shelf.threshold THEN "inline" ELSE "handle"
EmptyPack == [inline |-> <<>>, chars |-> 0, handles |-> <<>>, skills |-> <<>>, skillChars |-> 0, docs |-> <<>>]
\* What no longer fits inline becomes a handle while there is room for handles, and is left out after that.
boundContextMaterials(materials) ==
    FoldLeft(LAMBDA p, m :
        IF createContextMaterial(m) = "inline" /\ p.chars + m.chars <= ContextBudget.inline
            THEN [p EXCEPT !.inline = Append(@, m.name), !.chars = @ + m.chars]
        ELSE IF Len(p.handles) < ContextBudget.handles THEN [p EXCEPT !.handles = Append(@, m.name)] ELSE p,
        EmptyPack, materials)
\* The last skill that fits is cut to what is left; later ones are left out.
appendApprovedSkillContextToPack(p, ids) ==
    FoldLeft(LAMBDA q, m :
        LET room == ContextBudget.skill - q.skillChars
            chars == Docs[m.front].chars IN
        IF room <= 0 THEN q ELSE [q EXCEPT !.skills = Append(@, m.id), !.skillChars = @ + (IF chars > room THEN room ELSE chars)],
        p, ids)
Approved == SetToSortSeq({m \in listSkills({}, FALSE) : m.id \in Shelf.approved}, LAMBDA a, b : a.doc < b.doc)

\* Artifacts: those of the large materials first, then those of the materials that did not fit.
buildContextPack(query) ==
    LET bounded == boundContextMaterials(Shelf.materials) IN
    /\ Shelf.packs
    /\ Scanned(FALSE)
    /\ artifacts' = artifacts \cup ToSet(bounded.handles)
                     \cup {Shelf.materials[n].name : n \in {n \in DOMAIN Shelf.materials : createContextMaterial(Shelf.materials[n]) = "handle"}}
    /\ pack' = [appendApprovedSkillContextToPack(bounded, Approved) EXCEPT
                    !.docs = rankTruthResults(searchTruthLibrary(query, "doc"), query, ContextBudget.handles)]
    /\ UNCHANGED <<shelf, skillDisk, dirTimes, unseen, clock, library>>
\* An artifact that cannot be stored ends the build; the ones stored before it stay.
buildContextPackFails ==
    /\ Shelf.packs /\ \E n \in DOMAIN Shelf.materials : createContextMaterial(Shelf.materials[n]) = "handle"
    /\ \E n \in DOMAIN Shelf.materials :
        artifacts' = artifacts \cup {Shelf.materials[k].name : k \in {k \in 1..(n - 1) : createContextMaterial(Shelf.materials[k]) = "handle"}}
    /\ UNCHANGED <<shelf, skillDisk, dirTimes, unseen, clock, catalog, library, pack>>

KnowInit ==
    /\ shelf \in DOMAIN Shelves
    /\ skillDisk = [f \in DOMAIN SkillFiles |-> IF f \in DOMAIN Shelf.start
                        THEN [text |-> Shelf.start[f], size |-> Docs[Shelf.start[f]].chars, at |-> 0] ELSE Missing]
    /\ dirTimes = [d \in {DirOf(f) : f \in DOMAIN SkillFiles} |-> 0]
    /\ unseen = {} /\ clock = 0
    /\ catalog = [root \in Roots |-> Missing]
    /\ library = [id \in {SkillFiles[f].skill : f \in DOMAIN SkillFiles} \cup {item.id : item \in Shelf.items} |-> Missing]
    /\ artifacts = {} /\ pack = EmptyPack

KnowNext ==
    \/ \E tags \in Shelf.tags, bundledOnly \in BOOLEAN : ServeSkills(tags, bundledOnly)
    \/ \E f \in Shelf.edited : RemoveSkillFile(f) \/ \E text \in DOMAIN Docs : WriteSkillFile(f, text) \/ RewriteQuietly(f, text)
    \/ syncSkillsToTruthLibrary
    \/ \E subject \in Shelf.subjects, item \in Shelf.items : authorizingTruthLibrary(subject, item)
    \/ \E query \in Shelf.queries : buildContextPack(query)
    \/ buildContextPackFails

(***************************************************************************)
(* The skills served are the ones on disk: a cached scan whose signature   *)
(* still holds has exactly the skills, front matter and file sizes of a    *)
(* fresh scan.  Left out are the files the signature cannot see: those in  *)
(* directories below the scanned depth, which the lists of a skill's files *)
(* reach, and edits that keep both the size and the time.                  *)
(***************************************************************************)
Visible(m) ==
    [id |-> m.id, front |-> IF m.doc \in unseen THEN "any" ELSE m.front,
     files |-> {g \in m.files : DirOf(g.file)[3] <= MaxScanDepth}]
CatalogIsCurrent ==
    \A root \in Roots :
        catalog[root] # Missing /\ catalog[root].signature = computeSignature(root)
            => {Visible(m) : m \in {m \in catalog[root].manifests : m.doc \notin unseen}}
               = {Visible(m) : m \in {m \in FreshScan(root) : m.doc \notin unseen}}

(***************************************************************************)
(* A pack stays within the budget of its inline texts, of its handles and  *)
(* of its skills, every handle has its artifact, and what is not carried   *)
(* was left out only when the handles were used up.                        *)
(***************************************************************************)
PackWithinBudget ==
    /\ pack.chars <= ContextBudget.inline /\ pack.skillChars <= ContextBudget.skill
    /\ Len(pack.handles) <= ContextBudget.handles /\ ToSet(pack.handles) \subseteq artifacts
    /\ pack # EmptyPack /\ Len(pack.handles) < ContextBudget.handles
        => Len(pack.inline) + Len(pack.handles) = Len(Shelf.materials)

\* What a plan is given to read is current and fits: the skills served are those on disk (skillsCatalog.ts), and
\* the pack keeps its budgets and loses nothing silently (contextBuilder.ts).
ContextIsSound == CatalogIsCurrent /\ PackWithinBudget
=============================================================================
