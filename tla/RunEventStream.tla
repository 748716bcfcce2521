---------------------------- MODULE RunEventStream ---------------------------
(***************************************************************************)
(* The server-sent event stream of a run (handleRunStream, the broker and  *)
(* withEventBroadcast in src/api/server.ts).  An event is first persisted, *)
(* and published to the subscribed streams one continuation later; the     *)
(* continuations of the store calls run in the order the calls were made,  *)
(* so events are published in the order they were persisted.  A stream     *)
(* subscribes, reads the persisted events, replays them, flushes what the  *)
(* broker delivered meanwhile, and then follows live.                      *)
(*                                                                         *)
(* An event is identified by its position in the persisted log, whose      *)
(* entries are the events' phases.  Transition events come from            *)
(* RunStateMachine; the other events of a run (tools, budget, interrupt    *)
(* requests) carry the phase their author read earlier, which is never a   *)
(* terminal one but may be stale.  Heartbeat and cost frames carry no      *)
(* event and are left out; the heartbeat timer is kept as a resource.      *)
(***************************************************************************)
EXTENDS RunPhases, Integers, SequencesExt

CONSTANTS
  Clients,     \* the streams that are opened on the run
  Targets,     \* the phases the run moves through
  MaxEvents    \* bound on the length of the persisted log

ASSUME StreamTargetsAssumption == Targets \subseteq RunPhase
ASSUME MaxEventsAssumption == MaxEvents \in Nat

VARIABLES
  phase,      \* the run's phase
  log,        \* the phases of the persisted events, oldest first
  published,  \* how many of them the broker has delivered
  pc,         \* where each handler stands: absent, reading, replay, finished
  closed,     \* has the handler torn its stream down?
  listening,  \* is its listener registered with the broker?
  timer,      \* is its heartbeat interval running?
  snapshot,   \* the length of the log when listEvents read it
  liveBuffer, \* events delivered while replaying
  emitted,    \* events written to the client, in order
  doneFrames  \* how many done frames were written

runVars == <<phase, log, published>>
streamVars == <<pc, closed, listening, timer, snapshot, liveBuffer, emitted, doneFrames>>
vars == <<phase, log, published, pc, closed, listening, timer, snapshot, liveBuffer,
          emitted, doneFrames>>

Terminal(e) == isTerminalRunPhase(log[e])

Init ==
  /\ phase = "CHAT_RECEIVED"
  /\ log = << >>
  /\ published = 0
  /\ pc = [c \in Clients |-> "absent"]
  /\ closed = [c \in Clients |-> FALSE]
  /\ listening = [c \in Clients |-> FALSE]
  /\ timer = [c \in Clients |-> FALSE]
  /\ snapshot = [c \in Clients |-> 0]
  /\ liveBuffer = [c \in Clients |-> << >>]
  /\ emitted = [c \in Clients |-> << >>]
  /\ doneFrames = [c \in Clients |-> 0]

(***************************************************************************)
(* Persisting.  A transition moves the run; any other event does not.      *)
(***************************************************************************)
PersistTransition ==
  /\ Len(log) < MaxEvents
  /\ \E toPhase \in Targets :
       /\ isAllowedRunPhaseTransition(phase, toPhase)
       /\ phase' = toPhase
       /\ log' = Append(log, toPhase)
  /\ UNCHANGED <<published, streamVars>>

PersistOther ==
  /\ Len(log) < MaxEvents
  /\ \E p \in Targets \ TerminalRunPhases : log' = Append(log, p)
  /\ UNCHANGED <<phase, published, streamVars>>

(***************************************************************************)
(* Ways to get this code wrong.                                            *)
(***************************************************************************)
Ended(sent) == sent # << >> /\ Terminal(Last(sent))

EmitTwice(sent, e) == ~Ended(sent)

ReplaySnapshotOnly(c) == [i \in 1..snapshot[c] |-> i]

StartTimerAlways(c) == timer[c] \/ pc[c] \in {"reading", "replay"}

(***************************************************************************)
(* emitEvent writes an event unless it was written before or a terminal    *)
(* event closed the stream.                                                *)
(***************************************************************************)
Writes(sent, e) == e \notin Range(sent) /\ ~Ended(sent)

emitEvent(e) == [sent \in Seq(Nat) |-> IF Writes(sent, e) THEN Append(sent, e) ELSE sent]

\* for (const event of batch) emitEvent(event)
EmitAll(c, batch) ==
  LET sent[i \in 0..Len(batch)] ==
        IF i = 0 THEN emitted[c] ELSE emitEvent(batch[i])[sent[i-1]]
  IN  sent[Len(batch)]

DoneFrames(sent) == Cardinality({i \in 1..Len(sent) : Terminal(sent[i])})

\* teardown lets go of a listener or a timer.
Released(held, ends) == held /\ ~ends

(***************************************************************************)
(* Publishing.  Every listener either buffers the event (while replaying)  *)
(* or writes it at once, with the done frame and the teardown if it is     *)
(* terminal.                                                               *)
(***************************************************************************)
Publish ==
  LET e == published + 1
      open == {c \in Clients : listening[c] /\ ~closed[c]}
      live == {c \in open : pc[c] = "finished"}
      sent == [c \in Clients |-> IF c \in live THEN emitEvent(e)[emitted[c]] ELSE emitted[c]]
      ends == [c \in Clients |-> c \in live /\ Ended(sent[c])]
  IN  /\ published < Len(log)
      /\ published' = e
      /\ liveBuffer' = [c \in Clients |-> IF c \in open \ live THEN Append(liveBuffer[c], e)
                                          ELSE liveBuffer[c]]
      /\ emitted' = sent
      /\ doneFrames' = [c \in Clients |-> DoneFrames(sent[c])]
      /\ closed' = [c \in Clients |-> closed[c] \/ ends[c]]
      /\ listening' = [c \in Clients |-> Released(listening[c], ends[c])]
      /\ timer' = [c \in Clients |-> Released(timer[c], ends[c])]
      /\ UNCHANGED <<phase, log, pc, snapshot>>

(***************************************************************************)
(* The handler: subscribe, read the snapshot, replay and flush.            *)
(***************************************************************************)
Subscribe(c) ==
  /\ pc[c] = "absent"
  /\ pc' = [pc EXCEPT ![c] = "reading"]
  /\ listening' = [listening EXCEPT ![c] = TRUE]
  /\ UNCHANGED <<runVars, closed, timer, snapshot, liveBuffer, emitted, doneFrames>>

ListEvents(c) ==
  /\ pc[c] = "reading"
  /\ pc' = [pc EXCEPT ![c] = "replay"]
  /\ snapshot' = [snapshot EXCEPT ![c] = Len(log)]
  /\ UNCHANGED <<runVars, closed, listening, timer, liveBuffer, emitted, doneFrames>>

\* The catch-up read fails: tear down without a frame.
ListEventsFails(c) ==
  /\ pc[c] = "reading"
  /\ pc' = [pc EXCEPT ![c] = "finished"]
  /\ closed' = [closed EXCEPT ![c] = TRUE]
  /\ listening' = [listening EXCEPT ![c] = FALSE]
  /\ UNCHANGED <<runVars, timer, snapshot, liveBuffer, emitted, doneFrames>>

\* The snapshot, then the buffered events; emitEvent skips the common ones.
CatchUp(c) == [i \in 1..snapshot[c] |-> i] \o liveBuffer[c]

\* The heartbeat starts only on a stream that is still open after the catch-up.
StartTimer(c) == timer[c] \/ (pc[c] = "replay" /\ ~closed[c] /\ ~Ended(EmitAll(c, CatchUp(c))))

Replay(c) ==
  LET sent == EmitAll(c, CatchUp(c))
  IN  /\ pc[c] = "replay" /\ ~closed[c]
      /\ pc' = [pc EXCEPT ![c] = "finished"]
      /\ emitted' = [emitted EXCEPT ![c] = sent]
      /\ liveBuffer' = [liveBuffer EXCEPT ![c] = << >>]
      /\ closed' = [closed EXCEPT ![c] = Ended(sent)]
      /\ doneFrames' = [doneFrames EXCEPT ![c] = DoneFrames(sent)]
      /\ listening' = [listening EXCEPT ![c] = Released(listening[c], Ended(sent))]
      /\ timer' = [timer EXCEPT ![c] = StartTimer(c)]
      /\ UNCHANGED <<runVars, snapshot>>

\* The client left while the read was in flight: nothing is written.
ReplayClosed(c) ==
  /\ pc[c] \in {"reading", "replay"} /\ closed[c]
  /\ pc' = [pc EXCEPT ![c] = "finished"]
  /\ timer' = [timer EXCEPT ![c] = StartTimer(c)]
  /\ UNCHANGED <<runVars, closed, listening, snapshot, liveBuffer, emitted, doneFrames>>

\* req.on("close"): the same teardown, without a done frame.
Disconnect(c) ==
  /\ pc[c] # "absent" /\ ~closed[c]
  /\ closed' = [closed EXCEPT ![c] = TRUE]
  /\ listening' = [listening EXCEPT ![c] = Released(@, TRUE)]
  /\ timer' = [timer EXCEPT ![c] = Released(@, TRUE)]
  /\ UNCHANGED <<runVars, pc, snapshot, liveBuffer, emitted, doneFrames>>

Continue(c) == ListEvents(c) \/ ListEventsFails(c) \/ Replay(c) \/ ReplayClosed(c)

Next == \/ PersistTransition
        \/ PersistOther
        \/ Publish
        \/ \E c \in Clients : Subscribe(c) \/ Continue(c) \/ Disconnect(c)

Spec == Init /\ [][Next]_vars

(***************************************************************************)
(* The event loop runs the pending publish and the handlers' pending       *)
(* continuations.  Runs, clients and connections owe nothing.              *)
(***************************************************************************)
Fairness == WF_vars(Publish) /\ \A c \in Clients : WF_vars(Continue(c))

FairSpec == Spec /\ Fairness
------------------------------------------------------------------------------
TypeOK ==
  /\ phase \in RunPhase
  /\ log \in Seq(RunPhase)
  /\ published \in 0..Len(log)
  /\ pc \in [Clients -> {"absent", "reading", "replay", "finished"}]
  /\ closed \in [Clients -> BOOLEAN]
  /\ listening \in [Clients -> BOOLEAN]
  /\ timer \in [Clients -> BOOLEAN]
  /\ snapshot \in [Clients -> 0..Len(log)]
  /\ \A c \in Clients : /\ liveBuffer[c] \in Seq(1..Len(log))
                        /\ emitted[c] \in Seq(1..Len(log))
  /\ doneFrames \in [Clients -> 0..1]

(***************************************************************************)
(* No event is dropped, doubled or reordered across the catch-up/live      *)
(* boundary (the claim of handleRunStream's comment): what a client has    *)
(* been sent is always a prefix of the persisted log.                      *)
(***************************************************************************)
EmittedIsPrefix ==
  \A c \in Clients : emitted[c] = [i \in 1..Len(emitted[c]) |-> i]

(***************************************************************************)
(* A stream that follows live is never behind the broker.                  *)
(***************************************************************************)
LiveIsCurrent ==
  \A c \in Clients : pc[c] = "finished" /\ ~closed[c] => Len(emitted[c]) >= published

(***************************************************************************)
(* Exactly one done frame, and it is the last thing written: a stream has  *)
(* a done frame iff the last event it wrote is terminal, and no earlier    *)
(* one is.                                                                 *)
(***************************************************************************)
DoneOnceAndLast ==
  \A c \in Clients :
    LET n == Len(emitted[c])
        ended == n > 0 /\ Terminal(emitted[c][n])
    IN  /\ doneFrames[c] = IF ended THEN 1 ELSE 0
        /\ ended => closed[c]
        /\ \A i \in 1..(n-1) : ~Terminal(emitted[c][i])

(***************************************************************************)
(* Teardown releases everything, whichever of done, disconnect and read    *)
(* failure came first, and even if the client left during the read.        *)
(***************************************************************************)
NothingLeaks == \A c \in Clients : closed[c] => ~listening[c] /\ ~timer[c]

(***************************************************************************)
(* What a client reads is the run's log: a prefix of it at any time, and   *)
(* all that was published once the stream follows live (handleRunStream).  *)
(***************************************************************************)
StreamIsFaithful == TypeOK /\ EmittedIsPrefix /\ LiveIsCurrent

(***************************************************************************)
(* However a stream ends, it ends once: one done frame, nothing after it,  *)
(* and neither listener nor timer left behind (its teardown).              *)
(***************************************************************************)
StreamEndsCleanly == DoneOnceAndLast /\ NothingLeaks

(***************************************************************************)
(* Once a terminal event is persisted, every stream that is open ends: the *)
(* client is never left waiting on a run that stopped.                     *)
(***************************************************************************)
OpenStreamsEnd ==
  \A c \in Clients :
    (pc[c] # "absent" /\ \E e \in 1..Len(log) : Terminal(e)) ~> closed[c]
==============================================================================
