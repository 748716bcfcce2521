------------------------------ MODULE ClientChat ------------------------------
(***************************************************************************)
(* The chat of the browser client (public/app.js): the open conversation,  *)
(* the messages shown, the one live run with its stream or its polling,    *)
(* the approval panel and the search.                                      *)
(*                                                                         *)
(* Handlers run one at a time but await the server in between.  A handler  *)
(* that goes on after an answer finds the page as later clicks left it:    *)
(* most do not look whether their conversation is still open.              *)
(* The n-th message sent gives run n.                                      *)
(***************************************************************************)
EXTENDS Integers, Sequences, FiniteSets

CONSTANTS
    None,
    Conversations,      \* ids the server gives, 1 .. n, in this order
    Queries,            \* what may be typed into the search
    Sessions,           \* by name: what the user does and what the browser can do
    EventsPerRun,       \* events of a run
    MaxFinds            \* attempts of findAssistantMessage

\* Conversations are numbered in the order they are made, messages and their runs in the
\* order they are sent.
ASSUME SessionsAssumption ==
    /\ None \notin Nat /\ Conversations \subseteq Nat
    /\ \A s \in DOMAIN Sessions : Sessions[s].sends \in Nat /\ Sessions[s].known \subseteq Conversations

VARIABLES
    session,
    open,           \* state.conversationId
    known,          \* conversations that exist
    shown,          \* the messages on the page, with the conversation or send they came from
    opening,        \* GETs of conversations under way
    crumb,          \* the conversation of the lineage breadcrumb
    lineages,       \* GETs of lineages under way
    sends,          \* the sendMessage calls
    sendDisabled,
    live,           \* liveRun
    sources, polls, \* runs with an EventSource, with an interval; the ones liveRun forgot included
    polling,        \* runs whose poll awaits its answer
    delivered,      \* frames of the stream that were handled
    trace, cost,    \* the runs whose trace and cost are shown, None for empty panels
    runs,           \* at the server
    asked,          \* interrupts, steers and decisions under way
    approval,
    search, searches,
    clicks,         \* user actions so far
    mixed           \* history: an answer was, or may be, overtaken by a later click

page == <<open, shown, crumb, trace, cost>>
stream == <<live, sources, polls, polling, delivered>>
searching == <<search, searches>>
chatVars == <<session, page, known, opening, lineages, sends, sendDisabled, stream, runs, asked, approval,
              searching, clicks, mixed>>

Can == Sessions[session]
SendIds == 1 .. Can.sends
Closed == [run |-> None, events |-> {}, cost |-> None, source |-> None, poll |-> None, closed |-> TRUE,
           interrupt |-> FALSE, steer |-> FALSE]
NoApproval == [run |-> None, inFlight |-> FALSE]

ChatInit ==
    /\ session \in DOMAIN Sessions
    /\ known = Sessions[session].known
    /\ open = None /\ shown = {} /\ opening = {} /\ crumb = None /\ lineages = {}
    /\ sends = [n \in 1 .. Sessions[session].sends |-> [stage |-> "none", conv |-> None, finds |-> 0, from |-> n]]
    /\ sendDisabled = FALSE
    /\ live = Closed /\ sources = {} /\ polls = {} /\ polling = {}
    /\ delivered = [n \in 1 .. Sessions[session].sends |-> 0]
    /\ trace = None /\ cost = None
    /\ runs = [n \in 1 .. Sessions[session].sends |-> [events |-> 0, ended |-> FALSE, answered |-> FALSE]]
    /\ asked = {} /\ approval = NoApproval
    /\ search = [query |-> "", hits |-> "", loading |-> FALSE, timer |-> FALSE, seq |-> 0] /\ searches = {}
    /\ clicks = [opens |-> 0, typed |-> 0, controls |-> 0] /\ mixed = FALSE

(***************************************************************************)
(* The live run.                                                           *)
(***************************************************************************)
beginLiveRun(r) == [Closed EXCEPT !.run = r, !.closed = FALSE]

\* Closes the source and the interval that liveRun holds; others it does not know.
teardownLiveRun ==
    /\ sources' = sources \ {live.source}
    /\ polls' = polls \ {live.poll}
    /\ live' = [live EXCEPT !.source = None, !.poll = None, !.closed = TRUE, !.interrupt = FALSE, !.steer = FALSE]

AwaitingAnswer(n) == sends[n].stage \in {"ensure", "post", "events", "find", "cost"}
Overtakes == opening # {} \/ polling # {} \/ \E n \in SendIds : AwaitingAnswer(n)

EventsOf(r, n) == {[run |-> r, at |-> i] : i \in 1 .. n}
\* In some sessions the last event of a run asks for a decision.
AsksApproval(r, n) == Can.approvals /\ n = EventsPerRun

\* applyLiveEvent, for the first n events of run r: nothing once the live run is closed.
Applied(l, r, n) == IF l.closed THEN l ELSE [l EXCEPT !.events = @ \cup EventsOf(r, n)]
presentApproval(l, r, n) ==
    IF ~l.closed /\ AsksApproval(r, n) /\ [run |-> r, at |-> n] \notin l.events
    THEN [run |-> r, inFlight |-> FALSE] ELSE approval

(***************************************************************************)
(* Conversations.                                                          *)
(***************************************************************************)
\* A way to get this wrong: the stream of the conversation that is left stays open.
resetTraceSilently == trace' = None /\ cost' = None /\ UNCHANGED <<live, sources, polls>>
resetTrace == trace' = None /\ cost' = None /\ teardownLiveRun

startNewConversation ==
    /\ clicks.opens < Can.opens /\ open # None
    /\ open' = None /\ shown' = {} /\ crumb' = None
    /\ resetTrace
    /\ clicks' = [clicks EXCEPT !.opens = @ + 1]
    /\ mixed' = (mixed \/ Overtakes)
    /\ UNCHANGED <<session, known, opening, lineages, sends, sendDisabled, polling, delivered, runs, asked, approval, searching>>

openConversation(c) ==
    /\ clicks.opens < Can.opens /\ c \in known
    /\ open' = c /\ opening' = opening \cup {c}
    /\ resetTrace
    /\ clicks' = [clicks EXCEPT !.opens = @ + 1]
    /\ mixed' = (mixed \/ Overtakes)
    /\ UNCHANGED <<session, known, shown, crumb, lineages, sends, sendDisabled, polling, delivered, runs, asked,
                   approval, searching>>

\* The answer replaces what is shown, whatever conversation is open by now; a failure is
\* only logged and the messages of the conversation before stay on the page.
ConversationAnswer(c, ok) ==
    /\ c \in opening
    /\ opening' = opening \ {c}
    /\ IF ok THEN /\ shown' = {[conv |-> c, send |-> 0, what |-> "history"]}
                  /\ crumb' = c /\ lineages' = lineages \cup {c}
                  /\ UNCHANGED mixed
       ELSE mixed' = TRUE /\ UNCHANGED <<shown, crumb, lineages>>
    /\ UNCHANGED <<session, open, known, sends, sendDisabled, stream, trace, cost, runs, asked, approval, searching, clicks>>

loadConversationLineage(c) ==
    /\ c \in lineages
    /\ lineages' = lineages \ {c}
    /\ crumb' = IF open = c THEN c ELSE crumb
    /\ UNCHANGED <<session, open, known, shown, opening, sends, sendDisabled, stream, trace, cost, runs, asked, approval,
                   searching, clicks, mixed>>

(***************************************************************************)
(* Sending.  The form is submitted with Enter too, which the disabled      *)
(* button does not prevent.                                                *)
(***************************************************************************)
Item(n, what) == [conv |-> None, send |-> n, what |-> what]
Without(items, n) == items \ {Item(n, "pending")}
Stage(n, stage) == [sends EXCEPT ![n].stage = stage]

sendMessage(n) ==
    /\ sends[n].stage = "none" /\ \A k \in 1 .. n - 1 : sends[k].stage # "none"
    /\ teardownLiveRun /\ cost' = None
    /\ sendDisabled' = TRUE
    /\ shown' = shown \cup {Item(n, "user"), Item(n, "pending")}
    /\ sends' = [sends EXCEPT ![n] = [stage |-> IF open = None THEN "ensure" ELSE "post", conv |-> open,
                                     finds |-> 0, from |-> n]]
    /\ mixed' = (mixed \/ Overtakes)
    /\ UNCHANGED <<session, open, known, crumb, opening, lineages, polling, delivered, trace, runs, asked, approval,
                   searching, clicks>>

\* The catch of sendMessage: the live run, whichever it is now, is torn down.
SendFails(n) ==
    /\ sends' = Stage(n, "failed")
    /\ sendDisabled' = FALSE
    /\ shown' = Without(shown, n) \cup {Item(n, "error")}
    /\ teardownLiveRun

ensureConversation(n, ok) ==
    /\ sends[n].stage = "ensure"
    /\ LET new == CHOOSE c \in Conversations \ known : \A d \in Conversations \ known : c <= d
       IN  IF ok /\ Conversations # known
           THEN /\ known' = known \cup {new} /\ open' = new
                /\ sends' = [sends EXCEPT ![n].stage = "post", ![n].conv = new]
                /\ UNCHANGED <<shown, sendDisabled, live, sources, polls>>
           ELSE SendFails(n) /\ UNCHANGED <<known, open>>
    /\ UNCHANGED <<session, crumb, opening, lineages, polling, delivered, trace, cost, runs, asked, approval, searching,
                   clicks, mixed>>

\* 202 with a run: it becomes the live one; a source that was live is forgotten, not closed.
PostAnswer(n, ok) ==
    /\ sends[n].stage = "post"
    /\ IF ok THEN /\ sends' = Stage(n, "stream")
                  /\ live' = [beginLiveRun(n) EXCEPT !.source = IF Can.eventSource THEN n ELSE None,
                                                     !.poll = IF Can.eventSource THEN None ELSE n]
                  /\ sources' = IF Can.eventSource THEN sources \cup {n} ELSE sources
                  /\ polls' = IF Can.eventSource THEN polls ELSE polls \cup {n}
                  /\ cost' = None
                  /\ UNCHANGED <<shown, sendDisabled>>
       ELSE SendFails(n) /\ UNCHANGED cost
    /\ UNCHANGED <<session, open, known, crumb, opening, lineages, polling, delivered, trace, runs, asked, approval,
                   searching, clicks, mixed>>

(***************************************************************************)
(* The server's side of a run: events, its end, the stored answer.         *)
(***************************************************************************)
ServerStep(n) ==
    /\ n \in SendIds /\ sends[n].stage \notin {"none", "ensure", "post", "failed"}
    /\ \/ runs[n].events < EventsPerRun /\ runs' = [runs EXCEPT ![n].events = @ + 1]
       \/ runs[n].events > 0 /\ ~runs[n].ended /\ runs' = [runs EXCEPT ![n].ended = TRUE]
       \/ runs[n].ended /\ ~runs[n].answered /\ runs' = [runs EXCEPT ![n].answered = TRUE]
    /\ UNCHANGED <<session, page, known, opening, lineages, sends, sendDisabled, stream, asked, approval, searching,
                   clicks, mixed>>

(***************************************************************************)
(* streamRun.                                                              *)
(***************************************************************************)
RunEventFrame(r) ==
    /\ r \in sources /\ delivered[r] < runs[r].events
    /\ delivered' = [delivered EXCEPT ![r] = @ + 1]
    /\ live' = Applied(live, r, delivered[r] + 1)
    /\ approval' = presentApproval(live, r, delivered[r] + 1)
    /\ trace' = IF live.closed THEN trace ELSE live.run
    /\ UNCHANGED <<session, open, shown, crumb, cost, known, opening, lineages, sends, sendDisabled, sources, polls,
                   polling, runs, asked, searching, clicks, mixed>>

applyCostFrame(r) ==
    /\ r \in sources /\ ~live.closed /\ delivered[r] > 0 /\ (cost # r \/ live.cost # r)
    /\ live' = [live EXCEPT !.cost = r]
    /\ cost' = r
    /\ UNCHANGED <<session, open, shown, crumb, trace, known, opening, lineages, sends, sendDisabled, sources, polls, polling,
                   delivered, runs, asked, approval, searching, clicks, mixed>>

\* A way to get this wrong: the stream is closed and its promise is not resolved.
finishForgets(r) == UNCHANGED sends /\ teardownLiveRun
finishTerminal(r) ==
    IF sends[r].stage = "stream" THEN sends' = Stage(r, "events") /\ teardownLiveRun
    ELSE UNCHANGED <<sends, live, sources, polls>>

DoneFrame(r) ==
    /\ r \in sources /\ runs[r].ended /\ delivered[r] = runs[r].events /\ sends[r].stage = "stream"
    /\ finishTerminal(r)
    /\ UNCHANGED <<session, page, known, opening, lineages, sendDisabled, polling, delivered, runs, asked, approval,
                   searching, clicks, mixed>>

\* onerror: the stream is closed and polling starts, unless some interval is live already.
SourceFails(r) ==
    /\ r \in sources /\ sends[r].stage = "stream" /\ Can.breaks
    /\ sources' = sources \ {r}
    /\ polls' = IF live.poll = None THEN polls \cup {r} ELSE polls
    /\ live' = [live EXCEPT !.source = None, !.poll = IF @ = None THEN r ELSE @]
    /\ UNCHANGED <<session, page, known, opening, lineages, sends, sendDisabled, polling, delivered, runs, asked, approval,
                   searching, clicks, mixed>>

PollTick(r) ==
    /\ r \in polls \ polling /\ ~live.closed /\ sends[r].stage = "stream"
    /\ polling' = polling \cup {r}
    /\ UNCHANGED <<session, page, known, opening, lineages, sends, sendDisabled, live, sources, polls, delivered, runs,
                   asked, approval, searching, clicks, mixed>>

\* The tick looked at liveRun before it asked; the answer ends the run even if it is closed by now.
PollAnswer(r, ok) ==
    /\ r \in polling
    /\ polling' = polling \ {r}
    /\ approval' = IF ok THEN presentApproval(live, r, runs[r].events) ELSE approval
    /\ trace' = IF ok /\ ~live.closed /\ runs[r].events > 0 THEN live.run ELSE trace
    /\ IF ok /\ runs[r].ended /\ sends[r].stage = "stream"
       THEN /\ sends' = Stage(r, "events")
            /\ sources' = sources \ {live.source} /\ polls' = polls \ {live.poll}
            /\ live' = [Applied(live, r, runs[r].events) EXCEPT !.source = None, !.poll = None, !.closed = TRUE,
                                                                !.interrupt = FALSE, !.steer = FALSE]
       ELSE /\ live' = IF ok THEN Applied(live, r, runs[r].events) ELSE live
            /\ UNCHANGED <<sends, sources, polls>>
    /\ UNCHANGED <<session, open, shown, crumb, cost, known, opening, lineages, sendDisabled, delivered, runs, asked,
                   searching, clicks, mixed>>

(***************************************************************************)
(* finalizeRun: the events, the assistant message, the cost, then the      *)
(* page, whatever conversation it shows by now.  What cannot be fetched is *)
(* taken from liveRun, of whichever run that holds the events and the cost *)
(* by then.                                                                *)
(***************************************************************************)
FinalEvents(n, ok) ==
    /\ sends[n].stage = "events"
    /\ sends' = [sends EXCEPT ![n].stage = "find", ![n].from = IF ok THEN n ELSE live.run]
    /\ UNCHANGED <<session, page, known, opening, lineages, sendDisabled, stream, runs, asked, approval, searching, clicks,
                   mixed>>

findAssistantMessage(n, ok) ==
    /\ sends[n].stage = "find"
    /\ IF (ok /\ runs[n].answered) \/ sends[n].finds + 1 = MaxFinds
       THEN /\ sends' = [sends EXCEPT ![n].stage = "cost", ![n].finds = IF ok /\ runs[n].answered THEN 0 ELSE MaxFinds]
            /\ shown' = Without(shown, n)
       ELSE sends' = [sends EXCEPT ![n].finds = @ + 1] /\ UNCHANGED shown
    /\ UNCHANGED <<session, open, crumb, trace, cost, known, opening, lineages, sendDisabled, stream, runs, asked, approval,
                   searching, clicks, mixed>>

finalizeRun(n, ok) ==
    /\ sends[n].stage = "cost"
    /\ cost' = CASE ok -> n
                 [] ~ok /\ live.cost # None -> live.cost
                 [] ~ok /\ live.cost = None -> cost
    /\ trace' = sends[n].from
    /\ shown' = shown \cup {Item(n, IF sends[n].finds = 0 THEN "answer" ELSE "no answer")}
    /\ sends' = Stage(n, "done")
    /\ sendDisabled' = FALSE
    /\ UNCHANGED <<session, open, crumb, known, opening, lineages, stream, runs, asked, approval, searching, clicks, mixed>>

(***************************************************************************)
(* Stop, steer and decide.  An answer changes liveRun and the panel as     *)
(* they are when it comes.                                                 *)
(***************************************************************************)
Ask(kind, r) == asked' = asked \cup {[kind |-> kind, run |-> r]}

requestRunInterrupt ==
    /\ clicks.controls < Can.controls /\ ~live.closed /\ ~live.interrupt
    /\ live' = [live EXCEPT !.interrupt = TRUE]
    /\ Ask("interrupt", live.run)
    /\ clicks' = [clicks EXCEPT !.controls = @ + 1]
    /\ UNCHANGED <<session, page, known, opening, lineages, sends, sendDisabled, sources, polls, polling, delivered, runs,
                   approval, searching, mixed>>

submitRunSteer ==
    /\ clicks.controls < Can.controls /\ ~live.closed /\ ~live.steer
    /\ live' = [live EXCEPT !.steer = TRUE]
    /\ Ask("steer", live.run)
    /\ clicks' = [clicks EXCEPT !.controls = @ + 1]
    /\ UNCHANGED <<session, page, known, opening, lineages, sends, sendDisabled, sources, polls, polling, delivered, runs,
                   approval, searching, mixed>>

submitApprovalDecision ==
    /\ clicks.controls < Can.controls /\ approval.run # None /\ ~approval.inFlight
    /\ approval' = [approval EXCEPT !.inFlight = TRUE]
    /\ Ask("decision", approval.run)
    /\ clicks' = [clicks EXCEPT !.controls = @ + 1]
    /\ UNCHANGED <<session, page, known, opening, lineages, sends, sendDisabled, stream, runs, searching, mixed>>

ControlAnswer(a, ok) ==
    /\ a \in asked /\ asked' = asked \ {a}
    /\ live' = CASE a.kind = "interrupt" /\ ~ok -> [live EXCEPT !.interrupt = FALSE]
                 [] a.kind = "steer" -> [live EXCEPT !.steer = FALSE]
                 [] OTHER -> live
    /\ approval' = IF a.kind # "decision" THEN approval
                   ELSE IF ok THEN NoApproval ELSE [approval EXCEPT !.inFlight = FALSE]
    /\ UNCHANGED <<session, page, known, opening, lineages, sends, sendDisabled, sources, polls, polling, delivered, runs,
                   searching, clicks, mixed>>

(***************************************************************************)
(* Search: a pause after the last key, then a numbered request.            *)
(***************************************************************************)
typeQuery(q) ==
    /\ clicks.typed < Can.typed /\ q # search.query
    /\ search' = [search EXCEPT !.query = q, !.hits = IF q = "" THEN "" ELSE @, !.loading = q # "", !.timer = q # ""]
    /\ clicks' = [clicks EXCEPT !.typed = @ + 1]
    /\ UNCHANGED <<session, page, known, opening, lineages, sends, sendDisabled, stream, runs, asked, approval, searches,
                   mixed>>

runConversationSearch ==
    /\ search.timer
    /\ search' = [search EXCEPT !.timer = FALSE, !.seq = @ + 1]
    /\ searches' = searches \cup {[seq |-> search.seq + 1, query |-> search.query]}
    /\ UNCHANGED <<session, page, known, opening, lineages, sends, sendDisabled, stream, runs, asked, approval, clicks, mixed>>

hitsAfter(s, ok) ==
    CASE ok /\ s.seq = search.seq /\ s.query = search.query -> s.query
      [] ~ok /\ s.seq = search.seq -> ""
      [] OTHER -> search.hits

SearchAnswer(s, ok) ==
    /\ s \in searches /\ searches' = searches \ {s}
    /\ search' = [search EXCEPT !.hits = hitsAfter(s, ok), !.loading = IF s.seq = search.seq THEN FALSE ELSE @]
    /\ UNCHANGED <<session, page, known, opening, lineages, sends, sendDisabled, stream, runs, asked, approval, clicks, mixed>>

UserStep ==
    \/ \E n \in SendIds : sendMessage(n)
    \/ startNewConversation \/ \E c \in Conversations : openConversation(c)
    \/ requestRunInterrupt \/ submitRunSteer \/ submitApprovalDecision
    \/ \E q \in Queries : typeQuery(q)

AnswerStep ==
    \/ \E ok \in BOOLEAN :
         \/ \E n \in SendIds : ensureConversation(n, ok) \/ PostAnswer(n, ok) \/ PollAnswer(n, ok)
                                 \/ FinalEvents(n, ok) \/ findAssistantMessage(n, ok) \/ finalizeRun(n, ok)
         \/ \E c \in Conversations : ConversationAnswer(c, ok)
         \/ \E a \in asked : ControlAnswer(a, ok)
         \/ \E s \in searches : SearchAnswer(s, ok)
    \/ \E n \in SendIds : ServerStep(n) \/ RunEventFrame(n) \/ applyCostFrame(n) \/ DoneFrame(n) \/ SourceFails(n) \/ PollTick(n)
    \/ \E c \in Conversations : loadConversationLineage(c)
    \/ runConversationSearch

ChatNext == UserStep \/ AnswerStep

\* Answers, frames and timers go on, every run goes on at the server, and a poll that is
\* repeated for ever gets through now and then; the user may do nothing.
MaxSends == 2
ChatFair ==
    /\ WF_chatVars(AnswerStep)
    /\ \A n \in 1 .. MaxSends : WF_chatVars(ServerStep(n)) /\ WF_chatVars(DoneFrame(n))
                                /\ SF_chatVars(PollAnswer(n, TRUE))
ChatSpec == ChatInit /\ [][ChatNext]_chatVars /\ ChatFair

(***************************************************************************)
(* Properties.                                                             *)
(***************************************************************************)
ConversationOf(i) == IF i.send = 0 THEN i.conv ELSE sends[i.send].conv

\* As long as no click overtakes a request that is under way (and no conversation failed to
\* load), everything on the page belongs to the open conversation: messages, breadcrumb,
\* trace, cost and the live run.  Leaving a conversation while its run streams is safe.
ShownBelongsToOpen ==
    (~mixed /\ opening = {}) =>
        /\ \A i \in shown : ConversationOf(i) \in {None, open}
        /\ crumb \in {None, open}
        /\ \A r \in {trace, cost} \ {None} : sends[r].conv = open
        /\ ~live.closed => sends[live.run].conv = open

\* A message that was sent gets its answer or its error and its call returns, unless the
\* user changed the conversation or sent another message meanwhile and so closed its stream:
\* that call waits for ever.
Left(n) ==
    /\ sends[n].stage = "stream" /\ (live.closed \/ live.run # n)
    /\ clicks.opens > 0 \/ \E k \in SendIds \ {n} : sends[k].stage # "none"
Settled(n) == n \in SendIds => sends[n].stage \in {"done", "failed"} \/ Left(n)
SendSettles == \A n \in 1 .. MaxSends : (n \in SendIds /\ sends[n].stage # "none") ~> Settled(n)
=============================================================================
