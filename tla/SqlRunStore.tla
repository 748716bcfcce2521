----------------------------- MODULE SqlRunStore -----------------------------
(***************************************************************************)
(* transitionRun over the SQL store (src/store/sqlRectorStore.ts).  A run  *)
(* is a row: its JSON payload (`run', what getRun returns) and a version   *)
(* column.  commitRunTransition and updateRun first await their own getRun *)
(* and then write in one synchronous transaction.                          *)
(***************************************************************************)
EXTENDS TransitionCall

VARIABLES
  column,   \* the version column of the run's row
  current,  \* the run as commitRunTransition or updateRun re-read it
  overlap   \* history: some call has started while another was under way

sqlVars == <<run, events, pc, request, seen, attempt, base, column, current, overlap>>

(***************************************************************************)
(* Ways to get this code wrong.                                            *)
(***************************************************************************)
VersionNotIncremented(c) == seen[c].version

CommitWithoutEvent(c) ==
  /\ pc[c] = "update"
  /\ run' = Patched(current[c], c)
  /\ column' = seen[c].version + 1
  /\ Goto(c, "committed")
  /\ UNCHANGED <<events, request, seen, attempt, base, current, overlap>>

(***************************************************************************)
(* The store.                                                              *)
(***************************************************************************)
\* commitRunTransition's own `await this.getRun(runId)'.
CommitRead(c) ==
  /\ pc[c] = "commit"
  /\ ValidRequest(c)
  /\ current' = [current EXCEPT ![c] = run]
  /\ Goto(c, "update")
  /\ UNCHANGED <<run, events, request, seen, attempt, base, column, overlap>>

\* The version the UPDATE looks for is the one just re-read, ...
RowMatches(c) == column = current[c].version

\* ... the version it stores is one more than transitionRun saw.
NewVersion(c) == seen[c].version + 1

\* UPDATE runs SET payload, version = newVersion WHERE version = expectedVersion
ColumnAfterUpdate(c) == IF RowMatches(c) THEN NewVersion(c) ELSE column

\* SELECT id FROM runs WHERE version = newVersion: taken as `the row was updated'.
CheckRow(c) == ColumnAfterUpdate(c) = NewVersion(c)

CommitTransaction(c) ==
  /\ pc[c] = "update"
  /\ CheckRow(c)
  /\ column' = ColumnAfterUpdate(c)
  /\ run' = IF RowMatches(c) THEN Patched(current[c], c) ELSE run
  /\ events' = Append(events, TransitionEvent(c))
  /\ Goto(c, "committed")
  /\ UNCHANGED <<request, seen, attempt, base, current, overlap>>

RollbackTransaction(c) ==
  /\ pc[c] = "update"
  /\ ~CheckRow(c)
  /\ Conflict(c)
  /\ UNCHANGED <<column, current, overlap>>

\* updateRun's own `await this.getRun(id)'.
UpdateRead(c) ==
  /\ pc[c] = "addUsage"
  /\ current' = [current EXCEPT ![c] = run]
  /\ Goto(c, "updateRun")
  /\ UNCHANGED <<run, events, request, seen, attempt, base, column, overlap>>

\* updateRow: the whole payload is written back, the version column is not.
UpdateRow(c) ==
  /\ pc[c] = "updateRun"
  /\ run' = [current[c] EXCEPT !.usage = seen[c].usage + 1]
  /\ Goto(c, "idle")
  /\ UNCHANGED <<events, request, seen, attempt, base, column, current, overlap>>

SqlResume(c) ==
  \/ CommitRead(c)
  \/ CommitTransaction(c)
  \/ RollbackTransaction(c)
  \/ UpdateRead(c)
  \/ UpdateRow(c)
  \/ (GetRun(c) \/ Refuse(c)) /\ UNCHANGED <<column, current, overlap>>

SqlStart(c) ==
  /\ Call(c) \/ StartUsage(c)
  /\ overlap' = (overlap \/ \E d \in Callers : ~Free(d))
  /\ UNCHANGED <<column, current>>

SqlInit ==
  CallInit /\ column = 0 /\ current = [c \in Callers |-> NewRun] /\ overlap = FALSE

\* Callers interleave at every await.
SqlSpec == SqlInit /\ [][\E c \in Callers : SqlStart(c) \/ SqlResume(c)]_sqlVars

------------------------------------------------------------------------------
(***************************************************************************)
(* Run.version (src/store/schemas.ts) is `incremented on each transition': *)
(* the stored version counts the transition events of the run, in the      *)
(* payload and in the column the UPDATE compares.                          *)
(***************************************************************************)
VersionCountsTransitions == run.version = Len(events) /\ column = Len(events)

(***************************************************************************)
(* As long as no two calls overlapped, the SQL store keeps every promise   *)
(* of the in-memory one: log, version, phase and decision request agree.   *)
(* node:sqlite answers synchronously, so a handler that awaits nothing but *)
(* the store finishes before the event loop takes up the next request.     *)
(***************************************************************************)
ExactUntilOverlap ==
  ~overlap => RunIsConsistent /\ VersionCountsTransitions

(***************************************************************************)
(* Under any interleaving, as an asynchronous driver (TiDB) allows, the    *)
(* SQL store may lose transitions but invents none: the phase of the run   *)
(* is one some event led to, neither the payload's nor the column's        *)
(* version runs ahead of the event log, and every caller's answer is true  *)
(* of the log.                                                             *)
(***************************************************************************)
NothingInvented ==
  /\ run.phase = "CHAT_RECEIVED" \/ \E i \in 1..Len(events) : events[i].to = run.phase
  /\ run.version <= Len(events) /\ column <= Len(events)
  /\ TruthfulOutcome
==============================================================================
