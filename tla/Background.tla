----------------------------- MODULE Background -----------------------------
(***************************************************************************)
(* The parts that keep knowledge for the runs, side by side: the index of  *)
(* the code, the conversations and their search index, agent memory and    *)
(* its reflection, skills, truth library and context packs, the task       *)
(* pipeline, and the triage, plan, review and answer of a message.  They   *)
(* share no state, so a behaviour explores one of them while the others    *)
(* rest in the situation "none".                                           *)
(***************************************************************************)
EXTENDS CodeIndex, Conversations, MemoryStore, Knowledge, TaskPipeline, DeepPlanner

vars == <<indexVars, convVars, memVars, knowVars, pipeVars, triageVars, reviewVars>>

\* The part a behaviour explores: its situation is chosen among the named ones.
Explored(part, this, situations) == IF part = this THEN DOMAIN situations \ {"none"} ELSE {"none"}
Init ==
    /\ \E part \in {"index", "conversations", "memory", "knowledge", "pipeline", "triage"} :
          /\ tree \in Explored(part, "index", Trees)
          /\ shop \in Explored(part, "conversations", Stores)
          /\ memo \in Explored(part, "memory", Memories)
          /\ shelf \in Explored(part, "knowledge", Shelves)
          /\ line \in Explored(part, "pipeline", Pipelines)
          /\ inbox \in Explored(part, "triage", Inboxes)
    /\ IndexInit /\ ConvInit /\ MemInit /\ KnowInit /\ PipeInit /\ TriageInit /\ ReviewInit

Next ==
    \/ IndexNext /\ UNCHANGED <<convVars, memVars, knowVars, pipeVars, triageVars, reviewVars>>
    \/ ConvNext /\ UNCHANGED <<indexVars, memVars, knowVars, pipeVars, triageVars, reviewVars>>
    \/ MemNext /\ UNCHANGED <<indexVars, convVars, knowVars, pipeVars, triageVars, reviewVars>>
    \/ KnowNext /\ UNCHANGED <<indexVars, convVars, memVars, pipeVars, triageVars, reviewVars>>
    \/ PipeNext /\ UNCHANGED <<indexVars, convVars, memVars, knowVars, triageVars, reviewVars>>
    \/ TriageNext /\ UNCHANGED <<indexVars, convVars, memVars, knowVars, pipeVars, reviewVars>>
    \/ (ReviewNext \/ DeepNext) /\ UNCHANGED <<indexVars, convVars, memVars, knowVars, pipeVars>>

Spec == Init /\ [][Next]_vars
=============================================================================
