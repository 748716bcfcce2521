---------------------------- MODULE MemoryStore ----------------------------
(***************************************************************************)
(* Agent memory: the providers behind one interface (memory/provider.ts,   *)
(* chromaMemoryAdapter.ts, mem0Adapter.ts, tidbMemoryAdapter.ts and the    *)
(* stores' own memory methods), the notes route that writes and prunes,    *)
(* and the background reflection that reads notes, detects contradictions  *)
(* and asks a model for a lesson (backgroundHooks.ts, ponderSwarm.ts).     *)
(***************************************************************************)
EXTENDS Naturals, Sequences, FiniteSets, SequencesExt

CONSTANTS
    Gone,       \* no entry
    MaxMems,    \* ids the model hands out
    MaxDays,    \* days the clock counts
    Texts,      \* text |-> its words and topics, whether it is informative, and what redaction leaves
    Memories    \* the situations explored

VARIABLES
    memo,       \* the name of the situation
    mem,        \* id |-> entry, or Gone
    day,        \* the clock
    handed,     \* the last id handed out
    jobs,       \* writer or hook |-> what it has under way
    ready,      \* the external client was constructed (getCollection, getClient)
    reflecting, \* runningReflection
    policy      \* PonderTriggerPolicy: times of the runs in the window, and of the last

memVars == <<memo, mem, day, handed, jobs, ready, reflecting, policy>>
Memory == Memories[memo]
External == Memory.kind \in {"chroma", "mem0"}
Held == {i \in 1..MaxMems : mem[i] # Gone}

(***************************************************************************)
(* Entries.                                                                *)
(***************************************************************************)
Entry(layer, content, access, note) ==
    [layer |-> layer, content |-> content, at |-> day, last |-> day, access |-> access, note |-> note, tag |-> "none", hash |-> Gone]
Text(e) == Texts[e.content[Len(e.content)]]
isUserNote(e) == e.note # "no"
isInformative(e) == Text(e).informative

\* sanitizeMemoryFields: what is written is redacted; a second time changes nothing.
sanitizeMemoryFields(e) == [e EXCEPT !.content = [i \in DOMAIN e.content |-> Texts[e.content[i]].redacted]]
\* What comes back from Chroma is parsed from the document; from Mem0 it is put together from flat metadata.
entryFromDocument(e) == sanitizeMemoryFields(e)
metadataToMemoryFields(e) == sanitizeMemoryFields(e)
Returned(e) == CASE Memory.kind = "chroma" -> entryFromDocument(e)
                 [] Memory.kind = "mem0" -> metadataToMemoryFields(e)
                 [] OTHER -> e

compareMemorySearchResults(i, j) ==
    \/ mem[i].last > mem[j].last
    \/ mem[i].last = mem[j].last
       /\ \/ mem[i].access > mem[j].access
          \/ mem[i].access = mem[j].access
             /\ (mem[i].at > mem[j].at \/ (mem[i].at = mem[j].at /\ i < j))

Least(a, b) == IF a < b THEN a ELSE b
memoryPruneScore(e) ==
    (IF day - e.at > 100 THEN 0 ELSE 100 - (day - e.at)) + Least(3 * e.access, 50) + (IF isUserNote(e) THEN 30 ELSE 0)
compareMemoryPruneCandidates(i, j) ==
    LET si == memoryPruneScore(mem[i])
        sj == memoryPruneScore(mem[j]) IN
    si < sj \/ (si = sj /\ (mem[i].at < mem[j].at \/ (mem[i].at = mem[j].at /\ i < j)))

InLayer(layer) == {i \in Held : layer = "any" \/ mem[i].layer = layer}
\* Mem0 sorts what it lists by relevance; the others keep the order of insertion.
listMemoryEntries(layer) ==
    IF Memory.kind = "mem0" THEN SetToSortSeq(InLayer(layer), compareMemorySearchResults) ELSE SetToSortSeq(InLayer(layer), LAMBDA i, j : i < j)
\* Without a query: Chroma answers in its own order, the others by relevance.
searchMemory(layer, limit) ==
    LET order == IF Memory.kind = "chroma" THEN listMemoryEntries(layer)
                 ELSE SetToSortSeq(InLayer(layer), compareMemorySearchResults) IN
    SubSeq(order, 1, Least(Len(order), limit))
pruneCandidates(layer, max) ==
    LET order == SetToSortSeq(InLayer(layer), compareMemoryPruneCandidates) IN
    [n \in 1..(IF Len(order) > max THEN Len(order) - max ELSE 0) |-> [id |-> order[n], entry |-> mem[order[n]]]]

(***************************************************************************)
(* Contradictions and the ponder policy.                                   *)
(***************************************************************************)
Conflict(a, b) ==
    LET wa == Text(a).words
        wb == Text(b).words IN
    IF ("never" \in wa /\ "always" \in wb) \/ ("always" \in wa /\ "never" \in wb) THEN "never-always"
    ELSE IF (("enable" \in wa /\ "disable" \in wb) \/ ("disable" \in wa /\ "enable" \in wb))
            /\ Text(a).topics \cap Text(b).topics # {} THEN "enable-disable"
    ELSE "none"
contradictionSignal(kind, l, r) ==
    [hash |-> <<kind, l.id, r.id, l.entry.content, r.entry.content>>, content |-> l.entry.content]
\* The pairs in the order of the list: the ids of a signal are in that order, and so is its hash.
detectContradictions(entries) ==
    LET notes == SelectSeq(entries, LAMBDA e : isUserNote(e.entry) /\ isInformative(e.entry))
        pairs == {p \in (DOMAIN notes) \X (DOMAIN notes) : p[1] < p[2] /\ Conflict(notes[p[1]].entry, notes[p[2]].entry) # "none"} IN
    {contradictionSignal(Conflict(notes[p[1]].entry, notes[p[2]].entry), notes[p[1]], notes[p[2]]) : p \in pairs}
Known(entries, tag) == {entries[n].entry.hash : n \in {n \in DOMAIN entries : entries[n].entry.layer = "core" /\ entries[n].entry.tag = tag}}

MaxRunsPerWindow == 1
MinNewEntries == 2
\* A day is longer than the window of an hour, so a run on an earlier day no longer counts.
pruneWindow(p) == [p EXCEPT !.runs = SelectSeq(@, LAMBDA t : t = day)]
newInformativeEntries(p, entries) ==
    {n \in DOMAIN entries : isInformative(entries[n].entry) /\ (p.last = 0 \/ entries[n].entry.at > p.last)}
shouldRun(p, trigger, episodic, signals) ==
    /\ Len(pruneWindow(p).runs) < MaxRunsPerWindow
    /\ trigger # "run-failed"
    /\ signals # {} \/ Cardinality(newInformativeEntries(p, episodic)) >= MinNewEntries
recordRun(p) == [runs |-> Append(pruneWindow(p).runs, day), last |-> day]
\* The lesson a model draws: nothing when there is nothing to reflect on, or when the same lesson is there already.
runPonderSwarm(episodic, entries, lesson) ==
    LET recent == {n \in DOMAIN episodic : isInformative(episodic[n].entry)} IN
    IF recent = {} \/ ~Texts[lesson].informative
       \/ \E n \in DOMAIN entries : entries[n].entry.tag = "ponder-lesson" /\ entries[n].entry.content = <<lesson>>
        THEN {} ELSE {lesson}

(***************************************************************************)
(* What a call to the provider may answer.  The stores' own memory always  *)
(* answers; a driver may fail; an external service may also do what it was *)
(* asked and not be heard, and Mem0 may answer an add with nothing stored. *)
(***************************************************************************)
Answers == CASE Memory.kind = "local" -> {"ok"}
             [] Memory.kind = "sql" -> {"ok", "failed"}
             [] Memory.kind = "chroma" -> {"ok", "failed", "unanswered"}
             [] Memory.kind = "mem0" -> {"ok", "failed", "unanswered", "empty"}
             [] OTHER -> {"failed"}
Heard(answer) == answer \in {"ok", "empty"}
Done(answer) == answer \in {"ok", "unanswered"}
\* The client is made on first use and kept; an initialisation that failed is tried again by the next call.
Connect(answer) == ready' = (ready \/ (External /\ answer # "failed"))

Largest(S) == CHOOSE i \in S \cup {0} : \A j \in S : j <= i
\* SQL takes the largest id held plus one; the others never hand an id out twice.
nextMemoryId == IF Memory.kind = "sql" THEN Largest(Held) + 1 ELSE handed + 1
createMemoryEntry(e, answer) ==
    /\ nextMemoryId <= MaxMems
    /\ handed' = nextMemoryId
    /\ mem' = IF Done(answer) THEN [mem EXCEPT ![nextMemoryId] = sanitizeMemoryFields(e)] ELSE mem
    /\ Connect(answer)
deleteMemoryEntry(i, answer) ==
    /\ mem' = IF Done(answer) THEN [mem EXCEPT ![i] = Gone] ELSE mem
    /\ Connect(answer)
    /\ UNCHANGED handed
ReadEntries(answer) == Connect(answer) /\ UNCHANGED <<mem, handed>>

At(j, pc) == jobs[j].pc = pc
Job(j, record) == jobs' = [jobs EXCEPT ![j] = record]
Reply(j, answer) == Job(j, [pc |-> "done", reply |-> answer])
Quiet == UNCHANGED <<memo, day, reflecting, policy>>

(***************************************************************************)
(* The notes route: store the note, then keep the layer within its limit.  *)
(* Each candidate is first written to the core layer as a summary when it  *)
(* was used, and then deleted; the first call that throws ends it all.     *)
(***************************************************************************)
CreateNote(w, answer) ==
    /\ At(w, "idle") /\ Memory.asks[w].op = "note" /\ answer \in Answers
    /\ createMemoryEntry(Entry("episodic", <<Memory.asks[w].text>>, 1, Memory.asks[w].note), answer)
    /\ IF Heard(answer) THEN Job(w, [pc |-> "prune"]) ELSE Reply(w, "400")
    /\ Quiet

pruneMemory(w, answer) ==
    LET todo == pruneCandidates("episodic", Memory.limit) IN
    /\ At(w, "prune") /\ answer \in Answers \ {"empty", "unanswered"}
    /\ ReadEntries(answer)
    /\ IF answer = "failed" THEN Reply(w, "400")
       ELSE IF todo = <<>> THEN Reply(w, "201")
       ELSE Job(w, [pc |-> "pruning", todo |-> todo, summarized |-> FALSE])
    /\ Quiet

PruneSummarize(w, answer) ==
    LET old == jobs[w].todo[1].entry IN
    /\ At(w, "pruning") /\ answer \in Answers
    /\ old.access > 2 /\ ~jobs[w].summarized
    /\ createMemoryEntry([Entry("core", <<"summary">> \o old.content, 0, IF old.note = "tag" THEN "tag" ELSE "no") EXCEPT !.tag = "auto-summary"], answer)
    /\ IF Heard(answer) THEN Job(w, [jobs[w] EXCEPT !.summarized = TRUE]) ELSE Reply(w, "400")
    /\ Quiet

PruneDelete(w, answer) ==
    LET first == jobs[w].todo[1] IN
    /\ At(w, "pruning") /\ answer \in Answers \ {"empty"}
    /\ first.entry.access <= 2 \/ jobs[w].summarized
    /\ deleteMemoryEntry(first.id, answer)
    /\ IF ~Heard(answer) THEN Reply(w, "400")
       ELSE IF Len(jobs[w].todo) = 1 THEN Reply(w, "201")
       ELSE Job(w, [pc |-> "pruning", todo |-> Tail(jobs[w].todo), summarized |-> FALSE])
    /\ Quiet

(***************************************************************************)
(* The provider's other operations.  An update reads the entry and writes  *)
(* it back with the patch: at once in memory, with calls in between for    *)
(* the others, and of an entry deleted meanwhile nothing is written.       *)
(***************************************************************************)
getMemoryEntry(w, i, answer) ==
    /\ At(w, "idle") /\ Memory.asks[w].op = "update" /\ Memory.kind # "local" /\ answer \in Answers \ {"empty", "unanswered"}
    /\ ReadEntries(answer)
    /\ IF answer = "failed" \/ mem[i] = Gone THEN Reply(w, "nothing")
       ELSE Job(w, [pc |-> "patch", id |-> i, entry |-> Returned(mem[i])])
    /\ Quiet

updateMemoryEntry(w, answer) ==
    LET i == jobs[w].id
        patched == [jobs[w].entry EXCEPT !.access = 3, !.last = day] IN
    /\ At(w, "patch") /\ answer \in Answers \ {"empty"}
    /\ mem' = IF Done(answer) /\ mem[i] # Gone THEN [mem EXCEPT ![i] = sanitizeMemoryFields(patched)] ELSE mem
    /\ Connect(answer)
    /\ Reply(w, IF Heard(answer) THEN "updated" ELSE "failed")
    /\ UNCHANGED handed
    /\ Quiet

updateAtOnce(w, i) ==
    /\ At(w, "idle") /\ Memory.asks[w].op = "update" /\ Memory.kind = "local"
    /\ mem' = IF mem[i] = Gone THEN mem ELSE [mem EXCEPT ![i].access = 3, ![i].last = day]
    /\ Reply(w, IF mem[i] = Gone THEN "nothing" ELSE "updated")
    /\ UNCHANGED <<handed, ready>>
    /\ Quiet

\* Chroma and Mem0 report a deletion whether or not there was an entry.
DeleteEntry(w, i, answer) ==
    /\ At(w, "idle") /\ Memory.asks[w].op = "delete" /\ answer \in Answers \ {"empty"}
    /\ deleteMemoryEntry(i, answer)
    /\ Reply(w, IF ~Heard(answer) THEN "failed" ELSE IF External \/ mem[i] # Gone THEN "deleted" ELSE "nothing")
    /\ Quiet

\* The memory browser: the newest entries of a layer.
listMemoryEntriesForApi(w, answer) ==
    LET newest == SetToSortSeq(InLayer(Memory.asks[w].layer), LAMBDA i, j : mem[i].at > mem[j].at \/ (mem[i].at = mem[j].at /\ i < j)) IN
    /\ At(w, "idle") /\ Memory.asks[w].op = "browse" /\ answer \in Answers \ {"empty", "unanswered"}
    /\ ReadEntries(answer)
    /\ Reply(w, IF answer = "failed" THEN "500" ELSE SubSeq(newest, 1, Least(Len(newest), Memory.limit)))
    /\ Quiet

(***************************************************************************)
(* The background reflection, one at a time: search, list, decide, ask for *)
(* a lesson, write it, write the contradictions that are not known yet.    *)
(* Whatever throws ends it, and the flag is always lowered.                *)
(***************************************************************************)
\* A way to get this wrong: nobody looks whether a reflection is under way.
runWithoutGuard(h) ==
    /\ At(h, "idle")
    /\ reflecting' = TRUE
    /\ Job(h, [pc |-> "search"])
    /\ UNCHANGED <<memo, mem, day, handed, ready, policy>>
runBackgroundReflection(h) ==
    /\ At(h, "idle")
    /\ reflecting' = TRUE
    /\ Job(h, IF reflecting THEN [pc |-> "done", reply |-> "dropped"] ELSE [pc |-> "search"])
    /\ UNCHANGED <<memo, mem, day, handed, ready, policy>>

Finally(h) == reflecting' = FALSE /\ Reply(h, "ended")
Snapshot(order) == [n \in DOMAIN order |-> [id |-> order[n], entry |-> Returned(mem[order[n]])]]

SearchEpisodic(h, answer) ==
    /\ At(h, "search") /\ answer \in Answers \ {"empty", "unanswered"}
    /\ ReadEntries(answer)
    /\ IF answer = "failed" THEN Finally(h)
       ELSE Job(h, [pc |-> "list", episodic |-> Snapshot(searchMemory("episodic", 10))]) /\ UNCHANGED reflecting
    /\ UNCHANGED <<memo, day, policy>>

ListAndDecide(h, answer) ==
    LET entries == Snapshot(listMemoryEntries("any"))
        signals == detectContradictions(entries)
        runs == shouldRun(policy, Memory.triggers[h], jobs[h].episodic, signals) IN
    /\ At(h, "list") /\ answer \in Answers \ {"empty", "unanswered"}
    /\ ReadEntries(answer)
    /\ policy' = IF answer = "failed" THEN policy ELSE pruneWindow(policy)
    /\ IF answer = "failed" THEN Finally(h)
       ELSE /\ Job(h, [pc |-> IF runs THEN "ponder" ELSE "signals", episodic |-> jobs[h].episodic,
                       entries |-> entries, lessons |-> {}, signals |-> signals])
            /\ UNCHANGED reflecting
    /\ UNCHANGED <<memo, day>>

\* A call that throws is not recorded in the window; an answer with no usable lesson is.
Ponder(h, lesson) ==
    LET lessons == runPonderSwarm(jobs[h].episodic, jobs[h].entries, lesson) IN
    /\ At(h, "ponder")
    /\ policy' = recordRun(policy)
    /\ Job(h, [jobs[h] EXCEPT !.pc = IF lessons = {} THEN "signals" ELSE "lesson", !.lessons = lessons])
    /\ UNCHANGED <<memo, mem, day, handed, ready, reflecting>>
PonderThrows(h) == At(h, "ponder") /\ Finally(h) /\ UNCHANGED <<memo, mem, day, handed, ready, policy>>

WriteLesson(h, answer) ==
    /\ At(h, "lesson") /\ answer \in Answers
    /\ \E lesson \in jobs[h].lessons :
        createMemoryEntry([Entry("core", <<lesson>>, 0, "no") EXCEPT !.tag = "ponder-lesson"], answer)
    /\ IF Heard(answer) THEN Job(h, [jobs[h] EXCEPT !.pc = "signals"]) /\ UNCHANGED reflecting ELSE Finally(h)
    /\ UNCHANGED <<memo, day, policy>>

NewSignals(h) == {s \in jobs[h].signals : s.hash \notin Known(jobs[h].entries, "subconscious-contradiction")}
writeContradictionSignals(h, answer) ==
    /\ At(h, "signals") /\ answer \in Answers
    /\ \E s \in NewSignals(h) :
        /\ createMemoryEntry([Entry("core", s.content, 0, "no") EXCEPT !.tag = "subconscious-contradiction", !.hash = s.hash], answer)
        /\ IF Heard(answer) THEN Job(h, [jobs[h] EXCEPT !.signals = @ \ {s}]) /\ UNCHANGED reflecting ELSE Finally(h)
    /\ UNCHANGED <<memo, day, policy>>
SignalsWritten(h) == At(h, "signals") /\ NewSignals(h) = {} /\ Finally(h) /\ UNCHANGED <<memo, mem, day, handed, ready, policy>>

NextDay == day < MaxDays /\ day' = day + 1 /\ UNCHANGED <<memo, mem, handed, jobs, ready, reflecting, policy>>

MemInit ==
    /\ memo \in DOMAIN Memories
    /\ day = 1
    /\ mem = [i \in 1..MaxMems |-> IF i \in DOMAIN Memory.stored
                                   THEN Entry("episodic", <<Memory.stored[i].text>>, Memory.stored[i].access, Memory.stored[i].note) ELSE Gone]
    /\ handed = Len(Memory.stored)
    /\ jobs = [j \in DOMAIN Memory.asks \cup DOMAIN Memory.triggers |-> [pc |-> "idle"]]
    /\ ready = FALSE /\ reflecting = FALSE
    /\ policy = [runs |-> <<>>, last |-> 0]

MemNext ==
    \/ \E w \in DOMAIN Memory.asks, answer \in Answers :
        \/ CreateNote(w, answer) \/ pruneMemory(w, answer) \/ PruneSummarize(w, answer) \/ PruneDelete(w, answer)
        \/ updateMemoryEntry(w, answer) \/ listMemoryEntriesForApi(w, answer)
        \/ \E i \in 1..MaxMems : getMemoryEntry(w, i, answer) \/ DeleteEntry(w, i, answer) \/ updateAtOnce(w, i)
    \/ \E h \in DOMAIN Memory.triggers :
        \/ runBackgroundReflection(h) \/ PonderThrows(h) \/ SignalsWritten(h)
        \/ \E lesson \in DOMAIN Texts : Ponder(h, lesson)
        \/ \E answer \in Answers : SearchEpisodic(h, answer) \/ ListAndDecide(h, answer) \/ WriteLesson(h, answer)
                                   \/ writeContradictionSignals(h, answer)
    \/ DOMAIN Memory.triggers # {} /\ NextDay

(***************************************************************************)
(* A contradiction between two notes is written to the core layer once,    *)
(* however many triggers overlap, whatever call fails or goes unheard, and *)
(* on whatever day the next reflection finds the same two notes again.     *)
(* What is known is known by its hash, and the hash holds the notes in the *)
(* order they are listed in.  That order stays the same except on Mem0,    *)
(* which lists by relevance: a note that is used between two reflections   *)
(* may change places with the other, and the contradiction is then written *)
(* a second time, once for each order of the two.                          *)
(***************************************************************************)
NotesOf(hash) == {<<hash[2], hash[4]>>, <<hash[3], hash[5]>>}
SignalsOnce ==
    \A i, j \in {i \in Held : mem[i].tag = "subconscious-contradiction"} :
        NotesOf(mem[i].hash) = NotesOf(mem[j].hash) =>
            i = j \/ (Memory.kind = "mem0" /\ mem[i].hash # mem[j].hash)
=============================================================================
