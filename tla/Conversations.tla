--------------------------- MODULE Conversations ---------------------------
(***************************************************************************)
(* Conversations and messages in the two stores (inMemoryRectorStore.ts,   *)
(* sqlRectorStore.ts), the lineage of conversations (lineage.ts) and the   *)
(* search over their messages (sessionSearch.ts, the messages_fts table).  *)
(* Every method is asynchronous: what one await separates, the calls of    *)
(* the others may come between.                                            *)
(***************************************************************************)
EXTENDS Naturals, Sequences, FiniteSets, SequencesExt

CONSTANTS
    Nothing,    \* no row, no parent, no answer
    MaxIds,     \* ids the model hands out per table
    MaxDepth,   \* MAX_CONVERSATION_LINEAGE_DEPTH
    Clients,    \* the callers of the store
    Stores      \* the situations explored

VARIABLES
    shop,       \* the name of the situation
    convs,      \* id |-> the row of a conversation, or Nothing
    msgs,       \* id |-> the row of a message, or Nothing
    counters,   \* the counters of the store in memory
    fts,        \* the rows of messages_fts
    calls,      \* client |-> the call it has under way
    made,       \* calls begun so far
    gone,       \* ids of conversations that were deleted at some time
    mixed       \* two calls overlapped, or the process died inside one

convVars == <<shop, convs, msgs, counters, fts, calls, made, gone, mixed>>
Store == Stores[shop]
Sqlite == Store.dialect = "sqlite"
Ids == 1..MaxIds
NoCall == [at |-> "idle", op |-> Nothing, id |-> Nothing, read |-> Nothing, walk |-> Nothing, seen |-> {}, todo |-> <<>>,
           answer |-> Nothing]

Used(rows) == {i \in Ids : rows[i] # Nothing}
Top(S) == IF S = {} THEN 0 ELSE CHOOSE m \in S : \A n \in S : n <= m
\* The store in memory counts; the SQL store takes the highest id still there, so an id can come back.
nextId(rows, counter) == (IF Store.dialect = "memory" THEN counter ELSE Top(Used(rows))) + 1
listMessages(c) == SetToSortSeq({m \in Used(msgs) : msgs[m].conv = c}, <)
redactedIndexContent(text) == IF text = "" THEN "[EMPTY]" ELSE text

(***************************************************************************)
(* Lineage.                                                                *)
(***************************************************************************)
\* One turn of the loop of validateParentConversation: the conversation looked at is read anew.
validateStep(c, child, ws) ==
    LET row == convs[c.walk] IN
    IF row = Nothing \/ row.ws # ws \/ c.walk = child \/ c.walk \in c.seen \/ Cardinality(c.seen) + 1 >= MaxDepth
        THEN [c EXCEPT !.at = "done", !.answer = "refused"]
    ELSE IF row.parent = Nothing THEN [c EXCEPT !.at = "write", !.walk = Nothing]
    ELSE [c EXCEPT !.walk = row.parent, !.seen = c.seen \cup {c.walk}]

lineageStep(c) ==
    LET row == convs[c.walk] IN
    IF row = Nothing THEN [c EXCEPT !.at = "done", !.answer = IF c.seen = {} THEN c.todo ELSE "refused"]
    ELSE IF c.walk \in c.seen \/ Len(c.todo) + 1 > MaxDepth THEN [c EXCEPT !.at = "done", !.answer = "refused"]
    ELSE IF row.parent = Nothing THEN [c EXCEPT !.at = "done", !.answer = <<c.walk>> \o c.todo]
    ELSE [c EXCEPT !.walk = row.parent, !.seen = c.seen \cup {c.walk}, !.todo = <<c.walk>> \o c.todo]

(***************************************************************************)
(* The search index, which only SQLite keeps.                              *)
(***************************************************************************)
Unindexed(m) == {r \in fts : r.msg # m}
\* After the await: what was read of the conversation decides, whatever it is by now.
indexMessageForSearch(m, row, conv) ==
    IF ~Sqlite THEN fts
    ELSE Unindexed(m) \cup (IF conv = Nothing THEN {}
                            ELSE {[msg |-> m, conv |-> row.conv, ws |-> conv.ws, text |-> redactedIndexContent(row.text)]})
deleteMessageFromSearch(m) == IF Sqlite THEN Unindexed(m) ELSE fts
deleteConversationFromSearch(c) == IF Sqlite THEN {r \in fts : r.conv # c} ELSE fts

(***************************************************************************)
(* Calls.                                                                  *)
(***************************************************************************)
Busy == {k \in Clients : calls[k].at \notin {"idle", "done"}}
Goes(k, c) == calls' = [calls EXCEPT ![k] = c]
Settles(k, c, answer) == Goes(k, [c EXCEPT !.at = "done", !.answer = answer])
FirstStep == [createConversation |-> "pick", updateConversation |-> "read", deleteConversation |-> "write",
              createMessage |-> "write", updateMessage |-> "read", deleteMessage |-> "write",
              searchConversations |-> "read", getConversationLineage |-> "walk"]

Begin(k, op) ==
    /\ calls[k].at \in {"idle", "done"} /\ made < Store.calls
    /\ op.do = "createMessage" => convs[op.id] # Nothing    \* every caller has read the conversation
    /\ Goes(k, [NoCall EXCEPT !.at = FirstStep[op.do], !.op = op, !.id = op.id,
                              !.walk = IF op.do = "getConversationLineage" THEN op.id ELSE Nothing])
    /\ made' = made + 1 /\ mixed' = (mixed \/ Busy # {})
    /\ UNCHANGED <<shop, convs, msgs, counters, fts, gone>>

\* createConversation picks the id first; with a parent, the row is written only after the walk.
PickConversation(k) ==
    LET c == calls[k] IN
    /\ c.at = "pick"
    /\ nextId(convs, counters.conv) \in Ids
    /\ Goes(k, [c EXCEPT !.id = nextId(convs, counters.conv), !.walk = c.op.parent,
                         !.at = IF c.op.parent = Nothing THEN "write" ELSE "validate"])
    /\ UNCHANGED <<shop, convs, msgs, counters, fts, made, gone, mixed>>

Validate(k) ==
    LET c == calls[k] IN
    /\ c.at = "validate"
    /\ Goes(k, validateStep(c, c.id, IF c.op.ws = Nothing THEN c.read.ws ELSE c.op.ws))
    /\ UNCHANGED <<shop, convs, msgs, counters, fts, made, gone, mixed>>

WalkLineage(k) ==
    /\ calls[k].at = "walk"
    /\ Goes(k, lineageStep(calls[k]))
    /\ UNCHANGED <<shop, convs, msgs, counters, fts, made, gone, mixed>>

\* In memory a second row under the same id replaces the first; in SQL the primary key refuses it.
WriteConversation(k) ==
    LET c == calls[k]
        taken == Store.dialect # "memory" /\ convs[c.id] # Nothing IN
    /\ c.at = "write" /\ c.op.do = "createConversation"
    /\ convs' = IF taken THEN convs
                ELSE [convs EXCEPT ![c.id] = [ws |-> c.op.ws, parent |-> c.op.parent]]
    /\ counters' = [counters EXCEPT !.conv = @ + 1]
    /\ Settles(k, c, IF taken THEN "refused" ELSE c.id)
    /\ UNCHANGED <<shop, msgs, fts, made, gone, mixed>>

ReadConversation(k) ==
    LET c == calls[k]
        row == convs[c.id]
        parent == IF c.op.parent # Nothing \/ row = Nothing THEN c.op.parent ELSE row.parent IN
    /\ c.at = "read" /\ c.op.do = "updateConversation"
    /\ IF row = Nothing THEN Settles(k, c, Nothing)
       ELSE Goes(k, [c EXCEPT !.read = row, !.walk = parent, !.at = IF parent = Nothing THEN "write" ELSE "validate"])
    /\ UNCHANGED <<shop, convs, msgs, counters, fts, made, gone, mixed>>

updateConversation(c) ==
    [ws |-> IF c.op.ws = Nothing THEN c.read.ws ELSE c.op.ws,
     parent |-> IF c.op.parent = Nothing THEN c.read.parent ELSE c.op.parent]
\* A conversation that moved to another workspace has its messages indexed again.
Rows(ms) == [i \in 1..Len(ms) |-> [msg |-> ms[i], row |-> msgs[ms[i]]]]
\* A way to get this wrong: a conversation that moved is not indexed again.
reindexNever(c, row) == <<>>
reindexConversationMessages(c, row) == IF Sqlite /\ row.ws # c.read.ws THEN Rows(listMessages(c.id)) ELSE <<>>

WriteConversationPatch(k) ==
    LET c == calls[k]
        row == updateConversation(c)
        todo == reindexConversationMessages(c, row) IN
    /\ c.at = "write" /\ c.op.do = "updateConversation"
    /\ convs' = IF Store.dialect # "memory" /\ convs[c.id] = Nothing THEN convs ELSE [convs EXCEPT ![c.id] = row]
    /\ IF todo = <<>> THEN Settles(k, c, c.id) ELSE Goes(k, [c EXCEPT !.at = "listed", !.todo = todo])
    /\ UNCHANGED <<shop, msgs, counters, fts, made, gone, mixed>>

\* The messages of a deleted conversation stay; only their index rows go.
DeleteConversation(k) ==
    LET c == calls[k] IN
    /\ c.at = "write" /\ c.op.do = "deleteConversation"
    /\ convs' = [convs EXCEPT ![c.id] = Nothing]
    /\ gone' = IF convs[c.id] = Nothing THEN gone ELSE gone \cup {c.id}
    /\ fts' = IF convs[c.id] = Nothing THEN fts ELSE deleteConversationFromSearch(c.id)
    /\ Settles(k, c, convs[c.id] # Nothing)
    /\ UNCHANGED <<shop, msgs, counters, made, mixed>>

Indexing(c, m, row) == IF Sqlite THEN [c EXCEPT !.at = "index", !.id = m, !.todo = <<[msg |-> m, row |-> row]>>,
                                                !.read = convs[row.conv]]
                       ELSE [c EXCEPT !.at = "done", !.id = m, !.answer = m]

CreateMessage(k) ==
    LET c == calls[k]
        m == nextId(msgs, counters.msg)
        row == [conv |-> c.op.id, text |-> c.op.text] IN
    /\ c.at = "write" /\ c.op.do = "createMessage" /\ m \in Ids
    /\ msgs' = [msgs EXCEPT ![m] = row]
    /\ counters' = [counters EXCEPT !.msg = @ + 1]
    /\ Goes(k, Indexing(c, m, row))
    /\ UNCHANGED <<shop, convs, fts, made, gone, mixed>>

ReadMessage(k) ==
    LET c == calls[k] IN
    /\ c.at = "read" /\ c.op.do = "updateMessage"
    /\ IF msgs[c.id] = Nothing THEN Settles(k, c, Nothing) ELSE Goes(k, [c EXCEPT !.at = "write", !.read = msgs[c.id]])
    /\ UNCHANGED <<shop, convs, msgs, counters, fts, made, gone, mixed>>

\* UPDATE of a row that is gone changes nothing, and the index is written all the same.
WriteMessagePatch(k) ==
    LET c == calls[k]
        row == [c.read EXCEPT !.text = c.op.text] IN
    /\ c.at = "write" /\ c.op.do = "updateMessage"
    /\ msgs' = IF msgs[c.id] = Nothing THEN msgs ELSE [msgs EXCEPT ![c.id] = row]
    /\ Goes(k, Indexing(c, c.id, row))
    /\ UNCHANGED <<shop, convs, counters, fts, made, gone, mixed>>

DeleteMessage(k) ==
    LET c == calls[k] IN
    /\ c.at = "write" /\ c.op.do = "deleteMessage"
    /\ msgs' = [msgs EXCEPT ![c.id] = Nothing]
    /\ fts' = IF msgs[c.id] = Nothing THEN fts ELSE deleteMessageFromSearch(c.id)
    /\ Settles(k, c, msgs[c.id] # Nothing)
    /\ UNCHANGED <<shop, convs, counters, made, gone, mixed>>

IndexRead(k) ==
    LET c == calls[k] IN
    /\ c.at = "listed"
    /\ Goes(k, [c EXCEPT !.at = "index", !.read = convs[Head(c.todo).row.conv]])
    /\ UNCHANGED <<shop, convs, msgs, counters, fts, made, gone, mixed>>

IndexWrite(k) ==
    LET c == calls[k] IN
    /\ c.at = "index"
    /\ fts' = indexMessageForSearch(Head(c.todo).msg, Head(c.todo).row, c.read)
    /\ IF Len(c.todo) = 1 THEN Settles(k, c, c.id) ELSE Goes(k, [c EXCEPT !.at = "listed", !.todo = Tail(c.todo)])
    /\ UNCHANGED <<shop, convs, msgs, counters, made, gone, mixed>>

(***************************************************************************)
(* Search.  SQLite asks the index and then reads the conversation and the  *)
(* message of every row; the other stores look through the messages.       *)
(***************************************************************************)
Matches(text, q) == q = "" \/ text = q
toFts5Query(ws, q) == {r \in fts : r.ws = ws /\ Matches(r.text, q)}
keywordSearchConversations(ws, q) ==
    {[msg |-> m, conv |-> msgs[m].conv, ws |-> ws, text |-> redactedIndexContent(msgs[m].text)] :
        m \in {m \in Used(msgs) : convs[msgs[m].conv] # Nothing /\ convs[msgs[m].conv].ws = ws
                                   /\ Matches(redactedIndexContent(msgs[m].text), q)}}

AskIndex(k) ==
    LET c == calls[k] IN
    /\ c.at = "read" /\ c.op.do = "searchConversations"
    /\ IF Sqlite /\ c.op.text # "" THEN Goes(k, [c EXCEPT !.at = "hits", !.read = toFts5Query(c.op.ws, c.op.text), !.answer = {}])
       ELSE Settles(k, c, keywordSearchConversations(c.op.ws, c.op.text))
    /\ UNCHANGED <<shop, convs, msgs, counters, fts, made, gone, mixed>>

\* A row whose conversation is gone or moved, or whose message is gone, is left out; the text is the index's.
BuildHit(k) ==
    LET c == calls[k] IN
    /\ c.at = "hits"
    /\ \/ c.read = {} /\ Settles(k, c, c.answer)
       \/ \E r \in c.read :
            Goes(k, [c EXCEPT !.read = @ \ {r}, !.answer = @ \cup
                        IF convs[r.conv] # Nothing /\ convs[r.conv].ws = c.op.ws /\ msgs[r.msg] # Nothing THEN {r} ELSE {}])
    /\ UNCHANGED <<shop, convs, msgs, counters, fts, made, gone, mixed>>

\* The process dies: SQLite keeps what was written, the store in memory keeps nothing.
StoreCrash ==
    /\ Store.crash /\ Busy # {}
    /\ calls' = [k \in Clients |-> NoCall]
    /\ mixed' = TRUE
    /\ IF Store.dialect = "memory"
       THEN /\ convs' = [i \in Ids |-> Nothing] /\ msgs' = [i \in Ids |-> Nothing]
            /\ counters' = [conv |-> 0, msg |-> 0]
       ELSE UNCHANGED <<convs, msgs, counters>>
    /\ UNCHANGED <<shop, fts, made, gone>>

ConvInit ==
    /\ shop \in DOMAIN Stores
    /\ convs = [i \in Ids |-> Nothing] /\ msgs = [i \in Ids |-> Nothing]
    /\ counters = [conv |-> 0, msg |-> 0]
    /\ fts = {} /\ calls = [k \in Clients |-> NoCall]
    /\ made = 0 /\ gone = {} /\ mixed = FALSE

CallStep(k) ==
    \/ PickConversation(k) \/ Validate(k) \/ WalkLineage(k) \/ WriteConversation(k) \/ ReadConversation(k)
    \/ WriteConversationPatch(k) \/ DeleteConversation(k) \/ CreateMessage(k) \/ ReadMessage(k) \/ WriteMessagePatch(k)
    \/ DeleteMessage(k) \/ IndexRead(k) \/ IndexWrite(k) \/ AskIndex(k) \/ BuildHit(k)
ConvNext == StoreCrash \/ \E k \in Clients : CallStep(k) \/ \E op \in Store.ops : Begin(k, op)

(***************************************************************************)
(* Properties.                                                             *)
(***************************************************************************)
\* As long as calls came one after the other, SQLite's search index holds exactly the messages of the conversations there
\* are, each under its conversation's present workspace with its present text: creating, editing and deleting messages
\* and moving a conversation all keep messages_fts in step (sqlRectorStore.ts: indexMessageForSearch,
\* reindexConversationMessages).  Conversations under a reused id are excepted: they inherit unindexed messages.
SearchIndexAgrees ==
    (Sqlite /\ Busy = {} /\ ~mixed) =>
        {r \in fts : r.conv \notin gone}
            = {r \in UNION {keywordSearchConversations(convs[c].ws, "") : c \in Used(convs)} : r.conv \notin gone}
=============================================================================
