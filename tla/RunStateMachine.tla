--------------------------- MODULE RunStateMachine ---------------------------
(***************************************************************************)
(* transitionRun over the in-memory store                                  *)
(* (src/store/inMemoryRectorStore.ts).  commitRunTransition runs without   *)
(* an await: its compare-and-swap on the version, the update of the run    *)
(* and the append of the event are one step.                               *)
(***************************************************************************)
EXTENDS TransitionCall

(***************************************************************************)
(* Ways to get this code wrong.                                            *)
(***************************************************************************)
VersionIgnored(c) == TRUE

WriteWholeSnapshot(c) ==
  /\ pc[c] = "addUsage"
  /\ run' = [seen[c] EXCEPT !.usage = @ + 1]
  /\ Goto(c, "idle")
  /\ UNCHANGED <<events, request, seen, attempt, base>>

(***************************************************************************)
(* The store.                                                              *)
(***************************************************************************)
VersionMatches(c) == run.version = seen[c].version

CommitRunTransition(c) ==
  /\ pc[c] = "commit"
  /\ ValidRequest(c)
  /\ VersionMatches(c)
  /\ run' = Patched(run, c)
  /\ events' = Append(events, TransitionEvent(c))
  /\ Goto(c, "committed")
  /\ UNCHANGED <<request, seen, attempt, base>>

ConcurrentTransition(c) ==
  /\ pc[c] = "commit"
  /\ ValidRequest(c)
  /\ ~VersionMatches(c)
  /\ Conflict(c)

\* updateRun merges the patch onto the run as it is now.
UpdateRun(c) ==
  /\ pc[c] = "addUsage"
  /\ run' = [run EXCEPT !.usage = seen[c].usage + 1]
  /\ Goto(c, "idle")
  /\ UNCHANGED <<events, request, seen, attempt, base>>

\* What the event loop does with a suspended caller.
Resume(c) == \/ GetRun(c)
             \/ Refuse(c)
             \/ CommitRunTransition(c)
             \/ ConcurrentTransition(c)
             \/ UpdateRun(c)

Next == \E c \in Callers : Call(c) \/ StartUsage(c) \/ Resume(c)

Init == CallInit

Spec == Init /\ [][Next]_callVars

(***************************************************************************)
(* A suspended caller is resumed: the promise it awaits is settled by a    *)
(* store that never blocks, and the event loop runs every continuation.    *)
(* Nothing obliges a caller to make another call.                          *)
(***************************************************************************)
Fairness == \A c \in Callers : WF_callVars(Resume(c))

FairSpec == Spec /\ Fairness
------------------------------------------------------------------------------
(***************************************************************************)
(* Every call of transitionRun and of addProviderUsageToRun returns,       *)
(* however the others interleave: the retry loop is bounded.               *)
(***************************************************************************)
CallsReturn == \A c \in Callers : pc[c] \in Suspended ~> Free(c)
==============================================================================
