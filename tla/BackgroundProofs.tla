-------------------------- MODULE BackgroundProofs ---------------------------
(***************************************************************************)
(* Proofs about Background, for every set of situations: the task pipeline *)
(* under any number of overlapping requests.                               *)
(***************************************************************************)
EXTENDS Background, FiniteSetTheorems, SequenceTheorems, TLAPS

\* What happens to a task in the repository, and what may be recorded of it.
TaskStates == DOMAIN VALID_TRANSITIONS
Topics == {"task.state_transition", "subtask.completed", "validation.passed", "validation.failed", "healing.applied",
           "healing.failed", "synthesis.completed", "task.approved"}
Event == [topic : Topics, from : TaskStates \cup {"none"}, to : TaskStates \cup {"none"}]
SubtaskStates == {"completed", "pending", "failed"}
TaskRecord == [state : TaskStates, about : {Pipeline.about}, subtasks : Seq(SubtaskStates), passed : BOOLEAN,
               approved : BOOLEAN, events : Seq(Event)]

\* A log that tells one legal history, and the state it ends in.
PathTo(events, state) ==
  /\ events \in Seq(Event)
  /\ \A i \in Moves(events) :
       /\ events[i].from = StateAfter(events, i - 1)
       /\ events[i].from \notin TaskEnded
       /\ isValidTransition(events[i].from, events[i].to) \/ events[i].to \in {"PAUSED", "ABORTED"}
  /\ state = StateAfter(events, Len(events))

\* What Append does to a sequence, in the form the proofs below use.
LEMMA AppendFacts ==
  ASSUME NEW S, NEW e \in Seq(S), NEW a \in S
  PROVE  /\ Append(e, a) \in Seq(S) /\ Len(Append(e, a)) = Len(e) + 1 /\ Len(e) \in Nat
         /\ DOMAIN Append(e, a) = 1 .. Len(e) + 1 /\ DOMAIN e = 1 .. Len(e)
         /\ \A i \in 1 .. Len(e) : Append(e, a)[i] = e[i]
         /\ Append(e, a)[Len(e) + 1] = a
<1>1. Append(e, a) \in Seq(S) /\ Len(Append(e, a)) = Len(e) + 1 /\ Len(e) \in Nat /\ DOMAIN e = 1 .. Len(e)
  BY AppendProperties, LenProperties
<1>2. DOMAIN Append(e, a) = 1 .. Len(e) + 1
  BY <1>1, LenProperties
<1>3. QED
  BY <1>1, <1>2, AppendProperties

\* The one to three events a worker adds are added one by one.
LEMMA ConcatIsAppend ==
  ASSUME NEW S, NEW e \in Seq(S), NEW a \in S, NEW b \in S, NEW c \in S
  PROVE  /\ e \o <<a>> = Append(e, a)
         /\ e \o <<a, b>> = Append(Append(e, a), b)
         /\ e \o <<a, b, c>> = Append(Append(Append(e, a), b), c)
OBVIOUS

\* The largest element of a set of naturals is the one CHOOSE finds.
LEMMA TopOfNats ==
  ASSUME NEW B, NEW m \in B, B \subseteq Nat, \A j \in B : j <= m
  PROVE  (CHOOSE i \in B : \A j \in B : j <= i) = m
<1> DEFINE c == CHOOSE i \in B : \A j \in B : j <= i
<1>1. c \in B /\ \A j \in B : j <= c
  OBVIOUS
<1> HIDE DEF c
<1>2. c \in Nat /\ m \in Nat /\ c <= m /\ m <= c
  BY <1>1
<1>3. c = m
  BY <1>2
<1>4. QED
  BY <1>3 DEF c

\* A set of naturals that is not empty has a least element.
LEMMA NatLeast ==
  ASSUME NEW T \in SUBSET Nat, T # {}
  PROVE  \E m \in T : \A n \in T : m <= n
<1> DEFINE R == OpToRel(<, Nat)
<1>0. IsWellFoundedOn(R, Nat)
  BY NatLessThanWellFounded
<1> HIDE DEF R
<1>1. \E m \in T : \A n \in T : ~(<<n, m>> \in R)
  BY <1>0, WFMin
<1>2. ASSUME NEW m \in T, NEW n \in T, ~(<<n, m>> \in R)
      PROVE  m <= n
  <2>1. ~(n < m)
    BY <1>2 DEF OpToRel, R
  <2>2. QED
    BY <2>1
<1>3. QED
  BY <1>1, <1>2

\* What was recorded before an event is not changed by it.
LEMMA AfterAppend ==
  ASSUME NEW e \in Seq(Event), NEW a \in Event, NEW n \in 0 .. Len(e)
  PROVE  StateAfter(Append(e, a), n) = StateAfter(e, n)
<1> DEFINE f == Append(e, a)
           before(s) == {i \in Moves(s) : i <= n}
           last(B) == CHOOSE i \in B : \A j \in B : j <= i
<1>1. /\ DOMAIN f = 1 .. Len(e) + 1 /\ DOMAIN e = 1 .. Len(e) /\ Len(e) \in Nat
      /\ \A i \in 1 .. Len(e) : f[i] = e[i]
  BY AppendFacts
<1> HIDE DEF f
<1>2. before(f) = before(e)
  BY <1>1 DEF Moves
<1>3. StateAfter(f, n) = IF before(f) = {} THEN "INTAKE" ELSE f[last(before(f))].to
  BY DEF StateAfter
<1>4. StateAfter(e, n) = IF before(e) = {} THEN "INTAKE" ELSE e[last(before(e))].to
  BY DEF StateAfter
<1>5. before(e) # {} => last(before(e)) \in before(e)
  <2> SUFFICES ASSUME before(e) # {} PROVE last(before(e)) \in before(e)
    OBVIOUS
  <2> DEFINE B == before(e)
             C == {n - i : i \in B}
  <2>1. C \in SUBSET Nat /\ C # {}
    BY <1>1 DEF Moves
  <2>2. PICK c \in C : \A k \in C : c <= k
    BY <2>1, NatLeast
  <2>3. PICK i \in B : c = n - i
    BY <2>2
  <2>4. \A j \in B : j <= i
    <3> SUFFICES ASSUME NEW j \in B PROVE j <= i
      OBVIOUS
    <3>1. n - i <= n - j
      BY <2>2, <2>3
    <3>2. i \in Nat /\ j \in Nat /\ n \in Nat
      BY <1>1 DEF Moves
    <3>3. QED
      BY <3>1, <3>2
  <2>5. QED
    BY <2>3, <2>4
<1>6. before(e) # {} => f[last(before(e))] = e[last(before(e))]
  <2>1. \A i \in before(e) : f[i] = e[i]
    BY <1>1 DEF Moves
  <2> HIDE DEF before, last
  <2>2. QED
    BY <1>5, <2>1
<1> HIDE DEF before, last
<1>7. StateAfter(f, n) = StateAfter(e, n)
  BY <1>2, <1>3, <1>4, <1>6
<1>8. QED
  BY <1>7 DEF f

\* An event that is no move leaves the state where it was.
LEMMA TellKeeps ==
  ASSUME NEW e, NEW st, PathTo(e, st), NEW a \in Event, a.topic # "task.state_transition"
  PROVE  PathTo(Append(e, a), st)
<1> DEFINE f == Append(e, a)
<1>1. /\ f \in Seq(Event) /\ Len(f) = Len(e) + 1 /\ Len(e) \in Nat
      /\ DOMAIN f = 1 .. Len(e) + 1 /\ DOMAIN e = 1 .. Len(e)
      /\ \A i \in 1 .. Len(e) : f[i] = e[i]
      /\ f[Len(e) + 1] = a
  BY AppendFacts DEF PathTo
<1>2. \A n \in 0 .. Len(e) : StateAfter(f, n) = StateAfter(e, n)
  BY AfterAppend DEF PathTo
<1> HIDE DEF f
<1>3. Moves(f) = Moves(e)
  BY <1>1 DEF Moves
<1>4. {i \in Moves(f) : i <= Len(f)} = {i \in Moves(f) : i <= Len(e)}
  BY <1>1, <1>3 DEF Moves
<1>5. StateAfter(f, Len(f)) = StateAfter(f, Len(e))
  <2> DEFINE last(B) == CHOOSE i \in B : \A j \in B : j <= i
             before(n) == {i \in Moves(f) : i <= n}
  <2>1. \A n : StateAfter(f, n) = IF before(n) = {} THEN "INTAKE" ELSE f[last(before(n))].to
    BY DEF StateAfter
  <2>2. before(Len(f)) = before(Len(e))
    BY <1>4
  <2> HIDE DEF last, before
  <2>3. QED
    BY <2>1, <2>2
<1>6. Len(e) \in 0 .. Len(e) /\ \A i \in Moves(e) : i \in 1 .. Len(e) /\ i - 1 \in 0 .. Len(e)
  BY <1>1 DEF Moves
<1>7. PathTo(f, st)
  BY <1>1, <1>2, <1>3, <1>5, <1>6 DEF PathTo
<1>8. QED
  BY <1>7 DEF f

\* A move from the state the log ends in leads to its target.
LEMMA MoveKeeps ==
  ASSUME NEW e, NEW st \in TaskStates, PathTo(e, st), NEW to \in TaskStates, st \notin TaskEnded,
         isValidTransition(st, to) \/ to \in {"PAUSED", "ABORTED"}
  PROVE  PathTo(Append(e, Moved(st, to)), to)
<1> DEFINE a == Moved(st, to)
           f == Append(e, a)
<1>1. a \in Event /\ a.topic = "task.state_transition" /\ a.from = st /\ a.to = to
  BY DEF Moved, Event, Topics
<1> HIDE DEF a
<1>2. /\ f \in Seq(Event) /\ Len(f) = Len(e) + 1 /\ Len(e) \in Nat
      /\ DOMAIN f = 1 .. Len(e) + 1 /\ DOMAIN e = 1 .. Len(e)
      /\ \A i \in 1 .. Len(e) : f[i] = e[i]
      /\ f[Len(e) + 1] = a
  BY <1>1, AppendFacts DEF PathTo
<1>3. \A n \in 0 .. Len(e) : StateAfter(f, n) = StateAfter(e, n)
  BY <1>1, AfterAppend DEF PathTo
<1> HIDE DEF f
<1>4. Moves(f) = Moves(e) \cup {Len(e) + 1}
  BY <1>1, <1>2 DEF Moves
<1>5. StateAfter(f, Len(f)) = to
  <2> DEFINE B == {i \in Moves(f) : i <= Len(f)}
  <2>1. Len(f) \in B /\ B \subseteq Nat /\ B # {} /\ \A j \in B : j <= Len(f)
    BY <1>2, <1>4 DEF Moves
  <2> HIDE DEF B
  <2>2. (CHOOSE i \in B : \A j \in B : j <= i) = Len(f)
    BY <2>1, TopOfNats
  <2>3. StateAfter(f, Len(f)) = f[CHOOSE i \in B : \A j \in B : j <= i].to
    BY <2>1 DEF StateAfter, B
  <2>4. QED
    BY <1>1, <1>2, <2>2, <2>3
<1>6. ASSUME NEW i \in Moves(f)
      PROVE  /\ f[i].from = StateAfter(f, i - 1)
             /\ f[i].from \notin TaskEnded
             /\ isValidTransition(f[i].from, f[i].to) \/ f[i].to \in {"PAUSED", "ABORTED"}
  <2>1. CASE i \in Moves(e)
    <3>1. i \in 1 .. Len(e) /\ i - 1 \in 0 .. Len(e) /\ f[i] = e[i]
      BY <1>2, <2>1 DEF Moves
    <3>2. QED
      BY <1>3, <2>1, <3>1 DEF PathTo
  <2>2. CASE i = Len(e) + 1
    <3>1. f[i] = a /\ i - 1 = Len(e) /\ Len(e) \in 0 .. Len(e)
      BY <1>2, <2>2
    <3>2. StateAfter(f, i - 1) = st
      BY <1>3, <3>1 DEF PathTo
    <3>3. QED
      BY <1>1, <3>1, <3>2
  <2>3. QED
    BY <1>4, <2>1, <2>2
<1>7. PathTo(f, to)
  BY <1>2, <1>5, <1>6 DEF PathTo
<1>8. QED
  BY <1>7 DEF f, a

\* What a task may claim of itself.
Claims(t) ==
  /\ t.state \in {"VALIDATION", "HEALING", "SYNTHESIS", "HANDOFF"} =>
       \A n \in DOMAIN t.subtasks : t.subtasks[n] # "pending"
  /\ t.state \in {"SYNTHESIS", "HANDOFF"} =>
       t.passed /\ \A n \in DOMAIN t.subtasks : t.subtasks[n] = "completed"
  /\ t.approved => t.state = "HANDOFF"

GoodTask(t) == t \in TaskRecord /\ PathTo(t.events, t.state) /\ Claims(t)

\* A worker changes the state, the subtasks and the verdict, and adds to the log.
LEMMA WorkedIs ==
  ASSUME NEW t \in TaskRecord, NEW to \in TaskStates, NEW events, t.events \o events \in Seq(Event),
         NEW change, change.subtasks \in Seq(SubtaskStates), change.passed \in BOOLEAN
  PROVE  LET w == Worked(t, to, events, change)
         IN  /\ w \in TaskRecord /\ w.state = to /\ w.subtasks = change.subtasks /\ w.passed = change.passed
             /\ w.approved = t.approved /\ w.events = t.events \o events
BY DEF Worked, TaskRecord

\* What a worker makes of a good task is good.
LEMMA WorkedIsGood ==
  ASSUME NEW t, GoodTask(t), t.approved = FALSE, NEW to \in TaskStates, NEW events, NEW change,
         PathTo(t.events \o events, to), change.subtasks \in Seq(SubtaskStates), change.passed \in BOOLEAN,
         to \in {"VALIDATION", "HEALING", "SYNTHESIS", "HANDOFF"} =>
            \A n \in DOMAIN change.subtasks : change.subtasks[n] # "pending",
         to \in {"SYNTHESIS", "HANDOFF"} =>
            change.passed /\ \A n \in DOMAIN change.subtasks : change.subtasks[n] = "completed"
  PROVE  GoodTask(Worked(t, to, events, change))
<1> DEFINE w == Worked(t, to, events, change)
<1>1. t.events \o events \in Seq(Event) /\ t \in TaskRecord
  BY DEF GoodTask, PathTo
<1>2. /\ w \in TaskRecord /\ w.state = to /\ w.subtasks = change.subtasks /\ w.passed = change.passed
      /\ w.approved = FALSE /\ w.events = t.events \o events
  BY <1>1, WorkedIs
<1> HIDE DEF w
<1>3. GoodTask(w)
  BY <1>2 DEF GoodTask, Claims
<1>4. QED
  BY <1>3 DEF w

\* The subtasks a worker leaves.
LEMMA SubtaskFacts ==
  /\ \A d : executeSLM(d) \in {"completed", "failed"}
  /\ \A s \in Seq(SubtaskStates) : \A d : reexecHealed(s, d) \in Seq(SubtaskStates)
  /\ createSubtasks(2) \in Seq(SubtaskStates) /\ createSubtasks(3) \in Seq(SubtaskStates)
<1>1. \A d : executeSLM(d) \in {"completed", "failed"}
  BY DEF executeSLM
<1>2. ASSUME NEW s \in Seq(SubtaskStates), NEW d PROVE reexecHealed(s, d) \in Seq(SubtaskStates)
  <2>1. Len(s) \in Nat /\ DOMAIN s = 1 .. Len(s) /\ s \in [1 .. Len(s) -> SubtaskStates]
    BY LenProperties
  <2>2. reexecHealed(s, d) \in [1 .. Len(s) -> SubtaskStates]
    BY <1>1, <2>1 DEF reexecHealed, SubtaskStates
  <2>3. QED
    BY <2>1, <2>2, SeqDef
<1>3. ASSUME NEW n \in Nat PROVE createSubtasks(n) \in Seq(SubtaskStates)
  <2>1. createSubtasks(n) \in [1 .. n -> SubtaskStates]
    BY DEF createSubtasks, SubtaskStates
  <2>2. QED
    BY <2>1, SeqDef
<1>4. QED
  BY <1>1, <1>2, <1>3

\* One step of the pipeline keeps a good task good, whichever worker it is.
LEMMA AdvanceIsGood ==
  ASSUME NEW t, GoodTask(t) PROVE GoodTask(advancePipeline(t))
<1>1. /\ t.state \in TaskStates /\ t.events \in Seq(Event) /\ t.subtasks \in Seq(SubtaskStates)
         /\ t.passed \in BOOLEAN
      /\ t.approved \in BOOLEAN /\ PathTo(t.events, t.state)
  BY DEF GoodTask, TaskRecord
<1>2. \A x \in Topics \ {"task.state_transition"} : Told(x) \in Event /\ Told(x).topic # "task.state_transition"
  BY DEF Told, Event
<1>3. \A from, to \in TaskStates : Moved(from, to) \in Event
  BY DEF Moved, Event, Topics
<1>4. /\ {"INTAKE", "PLAN", "FANOUT", "VALIDATION", "HEALING", "SYNTHESIS", "HANDOFF", "ABORTED"} \subseteq TaskStates
      /\ isValidTransition("INTAKE", "PLAN") /\ isValidTransition("PLAN", "FANOUT")
      /\ isValidTransition("FANOUT", "VALIDATION") /\ isValidTransition("VALIDATION", "HEALING")
      /\ isValidTransition("VALIDATION", "SYNTHESIS") /\ isValidTransition("HEALING", "VALIDATION")
      /\ isValidTransition("SYNTHESIS", "HANDOFF")
  BY DEF TaskStates, VALID_TRANSITIONS, isValidTransition
<1>5. \A x \in {"subtask.completed", "validation.passed", "validation.failed", "healing.applied", "healing.failed",
                "synthesis.completed"} : x \in Topics \ {"task.state_transition"}
  BY DEF Topics
<1>6. ASSUME NEW to \in TaskStates, isValidTransition(t.state, to) \/ to = "ABORTED", t.state \notin TaskEnded,
             NEW a \in Topics \ {"task.state_transition"}, NEW b \in Topics \ {"task.state_transition"}
      PROVE  /\ PathTo(t.events \o <<Moved(t.state, to)>>, to)
             /\ PathTo(t.events \o <<Moved(t.state, to), Told(a)>>, to)
             /\ PathTo(t.events \o <<Told(a), Moved(t.state, to)>>, to)
             /\ PathTo(t.events \o <<Told(a), Moved(t.state, to), Told(b)>>, to)
             /\ PathTo(t.events \o <<Told(a), Told(b), Moved(t.state, to)>>, to)
  <2> DEFINE m == Moved(t.state, to)
             x == Told(a)
             y == Told(b)
             e == t.events
  <2>1. /\ m \in Event /\ x \in Event /\ y \in Event
        /\ x.topic # "task.state_transition" /\ y.topic # "task.state_transition"
    BY <1>1, <1>2, <1>3
  <2>2. ASSUME NEW f, PathTo(f, t.state) PROVE PathTo(Append(f, m), to)
    BY <1>1, <1>6, <2>2, MoveKeeps
  <2>3. ASSUME NEW f, NEW st, PathTo(f, st) PROVE PathTo(Append(f, x), st) /\ PathTo(Append(f, y), st)
    BY <2>1, <2>3, TellKeeps
  <2>4. e \in Seq(Event) /\ PathTo(e, t.state)
    BY <1>1
  <2> HIDE DEF m, x, y, e
  <2>5. PathTo(Append(e, m), to) /\ PathTo(Append(Append(e, m), x), to) /\ PathTo(Append(Append(e, x), m), to)
    BY <2>2, <2>3, <2>4
  <2>6. PathTo(Append(Append(Append(e, x), m), y), to)
    BY <2>3, <2>5
  <2>7. PathTo(Append(Append(Append(e, x), y), m), to)
    BY <2>2, <2>3, <2>4
  <2>8. /\ e \o <<m>> = Append(e, m) /\ e \o <<m, x>> = Append(Append(e, m), x)
        /\ e \o <<x, m>> = Append(Append(e, x), m)
        /\ e \o <<x, m, y>> = Append(Append(Append(e, x), m), y)
        /\ e \o <<x, y, m>> = Append(Append(Append(e, x), y), m)
    BY <2>1, <2>4, ConcatIsAppend
  <2>9. QED
    BY <2>5, <2>6, <2>7, <2>8 DEF m, x, y, e
<1>7. \A c : [With(t) EXCEPT !.subtasks = c].subtasks = c /\ [With(t) EXCEPT !.subtasks = c].passed = t.passed
  BY DEF With
<1>8. \A c : [With(t) EXCEPT !.passed = c].subtasks = t.subtasks /\ [With(t) EXCEPT !.passed = c].passed = c
  BY DEF With
<1>9. With(t).subtasks = t.subtasks /\ With(t).passed = t.passed
  BY DEF With
<1>10. \A s \in {"INTAKE", "PLAN", "FANOUT", "VALIDATION", "HEALING", "SYNTHESIS"} : s \notin TaskEnded
       /\ s # "HANDOFF"
  BY DEF TaskEnded
<1>11. t.state # "HANDOFF" => t.approved = FALSE
  BY <1>1 DEF GoodTask, Claims
<1> HIDE DEF TaskStates
<1>12. CASE t.state = "INTAKE"
  <2>1. PathTo(t.events \o <<Moved(t.state, "PLAN"), Told("subtask.completed")>>, "PLAN") /\ "PLAN" \in TaskStates
    BY <1>4, <1>5, <1>6, <1>10, <1>12
  <2>2. GoodTask(runIntake(t))
    BY <1>1, <1>7, <1>10, <1>11, <1>12, <2>1, SubtaskFacts, WorkedIsGood DEF runIntake
  <2>3. QED
    BY <1>12, <2>2 DEF advancePipeline
<1>13. CASE t.state = "PLAN"
  <2>1. PathTo(t.events \o <<Told("subtask.completed"), Moved(t.state, "FANOUT")>>, "FANOUT")
        /\ "FANOUT" \in TaskStates
    BY <1>4, <1>5, <1>6, <1>10, <1>13
  <2>2. GoodTask(runFlagshipPlanning(t))
    BY <1>1, <1>7, <1>10, <1>11, <1>13, <2>1, SubtaskFacts, WorkedIsGood DEF runFlagshipPlanning
  <2>3. QED
    BY <1>13, <2>2 DEF advancePipeline
<1>14. CASE t.state = "FANOUT"
  <2> DEFINE s == [n \in DOMAIN t.subtasks |-> IF t.subtasks[n] = "completed" THEN "completed" ELSE executeSLM(t.about)]
  <2>1. PathTo(t.events \o <<Moved(t.state, "VALIDATION")>>, "VALIDATION") /\ "VALIDATION" \in TaskStates
    BY <1>4, <1>5, <1>6, <1>10, <1>14
  <2>2. s \in Seq(SubtaskStates) /\ \A n \in DOMAIN s : s[n] # "pending"
    <3>1. Len(t.subtasks) \in Nat /\ DOMAIN t.subtasks = 1 .. Len(t.subtasks)
      BY <1>1, LenProperties
    <3>2. s \in [1 .. Len(t.subtasks) -> SubtaskStates] /\ \A n \in DOMAIN s : s[n] # "pending"
      BY <3>1, SubtaskFacts DEF SubtaskStates
    <3>3. QED
      BY <3>1, <3>2, SeqDef
  <2> HIDE DEF s
  <2>3. GoodTask(Worked(t, "VALIDATION", <<Moved(t.state, "VALIDATION")>>, [With(t) EXCEPT !.subtasks = s]))
    BY <1>1, <1>7, <1>10, <1>11, <1>14, <2>1, <2>2, WorkedIsGood
  <2>4. QED
    BY <1>14, <2>3 DEF advancePipeline, runSLMExecution, s
<1>15. CASE t.state = "VALIDATION"
  <2> DEFINE passed == validateResults(t.subtasks)
             to == IF passed THEN "SYNTHESIS" ELSE "HEALING"
             x == IF passed THEN "validation.passed" ELSE "validation.failed"
  <2>1. to \in TaskStates /\ isValidTransition(t.state, to) /\ x \in Topics \ {"task.state_transition"}
        /\ passed \in BOOLEAN
    BY <1>4, <1>5, <1>15 DEF validateResults
  <2>2. \A n \in DOMAIN t.subtasks : t.subtasks[n] # "pending" /\ t.subtasks[n] \in SubtaskStates
    BY <1>1, <1>15 DEF GoodTask, Claims
  <2>3. to = "SYNTHESIS" => passed /\ \A n \in DOMAIN t.subtasks : t.subtasks[n] = "completed"
    BY <2>2 DEF validateResults, SubtaskStates
  <2>4. to # "HANDOFF"
    OBVIOUS
  <2>5. runSandboxValidation(t) = Worked(t, to, <<Told(x), Moved(t.state, to)>>, [With(t) EXCEPT !.passed = passed])
    BY DEF runSandboxValidation
  <2> DEFINE change == [With(t) EXCEPT !.passed = passed]
  <2>6. change.subtasks = t.subtasks /\ change.passed = passed
    BY <1>8
  <2> HIDE DEF to, x, passed, change
  <2>7. PathTo(t.events \o <<Told(x), Moved(t.state, to)>>, to)
    BY <1>6, <1>10, <1>15, <2>1
  <2>8. GoodTask(Worked(t, to, <<Told(x), Moved(t.state, to)>>, change))
    BY <1>1, <1>10, <1>11, <1>15, <2>1, <2>2, <2>3, <2>4, <2>6, <2>7, WorkedIsGood
  <2>9. QED
    BY <1>15, <2>5, <2>8 DEF advancePipeline, change
<1>16. CASE t.state = "HEALING"
  <2> DEFINE rerun == reexecHealed(t.subtasks, t.about)
             passed == validateResults(rerun)
             to == IF passed THEN "VALIDATION" ELSE "ABORTED"
             ev == IF passed THEN <<Told("healing.applied"), Moved(t.state, "VALIDATION"), Told("healing.applied")>>
                   ELSE <<Told("healing.applied"), Told("healing.failed"), Moved(t.state, "ABORTED")>>
             change == [subtasks |-> rerun, passed |-> passed]
  <2>1. to \in TaskStates /\ to \notin {"SYNTHESIS", "HANDOFF"} /\ passed \in BOOLEAN
    BY <1>4 DEF validateResults
  <2>2. rerun \in Seq(SubtaskStates)
    BY <1>1, SubtaskFacts
  <2>3. \A n \in DOMAIN rerun : rerun[n] # "pending"
    BY <1>16, SubtaskFacts DEF GoodTask, Claims, reexecHealed
  <2>4. PathTo(t.events \o ev, to)
    BY <1>4, <1>5, <1>6, <1>10, <1>16
  <2>5. change.subtasks = rerun /\ change.passed = passed
    OBVIOUS
  <2>6. runHealingLoop(t) = Worked(t, to, ev, change)
    BY DEF runHealingLoop
  <2> HIDE DEF to, ev, change, passed, rerun
  <2>7. GoodTask(Worked(t, to, ev, change))
    BY <1>10, <1>11, <1>16, <2>1, <2>2, <2>3, <2>4, <2>5, WorkedIsGood
  <2>8. QED
    BY <1>16, <2>6, <2>7 DEF advancePipeline
<1>17. CASE t.state = "SYNTHESIS"
  <2>1. PathTo(t.events \o <<Told("synthesis.completed"), Moved(t.state, "HANDOFF")>>, "HANDOFF")
        /\ "HANDOFF" \in TaskStates
    BY <1>4, <1>5, <1>6, <1>10, <1>17
  <2>2. t.passed /\ \A n \in DOMAIN t.subtasks : t.subtasks[n] = "completed"
    BY <1>17 DEF GoodTask, Claims
  <2>3. GoodTask(runFinalSynthesis(t))
    BY <1>1, <1>9, <1>10, <1>11, <1>17, <2>1, <2>2, WorkedIsGood DEF runFinalSynthesis
  <2>4. QED
    BY <1>17, <2>3 DEF advancePipeline
<1>18. QED
  BY <1>12, <1>13, <1>14, <1>15, <1>16, <1>17 DEF advancePipeline

\* The task in the repository and every copy a request is about to save are good tasks.
PipeInv ==
  /\ DOMAIN requests = Pipeline.asks
  /\ task # Nobody => GoodTask(task)
  /\ \A r \in Pipeline.asks : requests[r].pc = "save" => GoodTask(requests[r].copy)

\* Before the first request there is no task.
LEMMA PipeStarts == PipeInit => PipeInv
BY DEF PipeInit, PipeInv

\* A control moves a copy that has not ended.
LEMMA ControlIsGood ==
  ASSUME NEW t, GoodTask(t), NEW to \in {"PAUSED", "ABORTED", "INTAKE"}, t.state \notin TaskEnded,
         Movable(t.state, to)
  PROVE  GoodTask([t EXCEPT !.state = to, !.events = Append(@, Moved(t.state, to))])
<1> DEFINE w == [t EXCEPT !.state = to, !.events = Append(@, Moved(t.state, to))]
<1>1. t \in TaskRecord /\ t.state \in TaskStates /\ PathTo(t.events, t.state) /\ t.approved = FALSE
  BY DEF GoodTask, TaskRecord, Claims, TaskEnded
<1>2. to \in TaskStates /\ (isValidTransition(t.state, to) \/ to \in {"PAUSED", "ABORTED"})
  BY DEF Movable, TaskStates, VALID_TRANSITIONS, isValidTransition
<1>3. PathTo(Append(t.events, Moved(t.state, to)), to)
  BY <1>1, <1>2, MoveKeeps
<1>4. Append(t.events, Moved(t.state, to)) \in Seq(Event)
  BY <1>3 DEF PathTo
<1> HIDE DEF TaskStates
<1>5. /\ w \in TaskRecord /\ w.state = to /\ w.approved = FALSE
      /\ w.events = Append(t.events, Moved(t.state, to))
  BY <1>1, <1>2, <1>4 DEF TaskRecord
<1> HIDE DEF w
<1>6. GoodTask(w)
  BY <1>3, <1>5 DEF GoodTask, Claims
<1>7. QED
  BY <1>6 DEF w

\* An approval is recorded of a copy that was handed over.
LEMMA ApprovalIsGood ==
  ASSUME NEW t, GoodTask(t), t.state = "HANDOFF"
  PROVE  GoodTask([t EXCEPT !.approved = TRUE, !.events = Append(@, Told("task.approved"))])
<1> DEFINE w == [t EXCEPT !.approved = TRUE, !.events = Append(@, Told("task.approved"))]
<1>1. t \in TaskRecord /\ t.state \in TaskStates /\ PathTo(t.events, t.state)
  BY DEF GoodTask, TaskRecord
<1>2. Told("task.approved") \in Event /\ Told("task.approved").topic # "task.state_transition"
  BY DEF Told, Event, Topics
<1>3. PathTo(Append(t.events, Told("task.approved")), t.state)
  BY <1>1, <1>2, TellKeeps
<1>4. Append(t.events, Told("task.approved")) \in Seq(Event)
  BY <1>3 DEF PathTo
<1> HIDE DEF TaskStates
<1>5. /\ w \in TaskRecord /\ w.state = t.state /\ w.approved = TRUE
      /\ w.events = Append(t.events, Told("task.approved"))
      /\ w.subtasks = t.subtasks /\ w.passed = t.passed
  BY <1>1, <1>4 DEF TaskRecord
<1> HIDE DEF w
<1>6. GoodTask(w)
  BY <1>3, <1>5 DEF GoodTask, Claims
<1>7. QED
  BY <1>6 DEF w

\* A new task has an empty log.
LEMMA NewTaskIsGood ==
  GoodTask([state |-> "INTAKE", about |-> Pipeline.about, subtasks |-> <<>>, passed |-> FALSE, approved |-> FALSE,
            events |-> <<>>])
<1> DEFINE e == <<>>
<1>1. e \in Seq(Event) /\ e \in Seq(SubtaskStates) /\ DOMAIN e = {} /\ Len(e) = 0
  OBVIOUS
<1> HIDE DEF e
<1>2. Moves(e) = {}
  BY <1>1 DEF Moves
<1>3. StateAfter(e, Len(e)) = "INTAKE"
  BY <1>2 DEF StateAfter
<1>4. PathTo(e, "INTAKE")
  BY <1>1, <1>2, <1>3 DEF PathTo
<1> DEFINE t == [state |-> "INTAKE", about |-> Pipeline.about, subtasks |-> e, passed |-> FALSE, approved |-> FALSE,
                 events |-> e]
<1>5. t \in TaskRecord
  BY <1>1 DEF TaskRecord, TaskStates, VALID_TRANSITIONS
<1>6. t.state = "INTAKE" /\ t.events = e /\ t.approved = FALSE
  OBVIOUS
<1> HIDE DEF t
<1>7. GoodTask(t)
  BY <1>4, <1>5, <1>6 DEF GoodTask, Claims
<1>8. QED
  BY <1>7 DEF t, e

\* A request that was answered holds no copy, and a saved task is a good one.
LEMMA AnsweredKeeps ==
  ASSUME PipeInv, UNCHANGED line, NEW r \in Pipeline.asks, NEW code, Respond(r, code),
         task' # Nobody => GoodTask(task)'
  PROVE  PipeInv'
<1>1. Pipeline' = Pipeline
  BY DEF Pipeline
<1>2. requests' = [requests EXCEPT ![r] = [pc |-> "done", code |-> code]]
  BY DEF Respond
<1>3. /\ DOMAIN requests' = DOMAIN requests
      /\ \A q \in Pipeline.asks : requests'[q].pc = "save" => q # r /\ requests'[q] = requests[q]
  BY <1>2 DEF PipeInv
<1>4. QED
  BY <1>1, <1>3 DEF PipeInv, GoodTask, TaskRecord

\* A good task stays good while the situation is the same.
LEMMA SavedIsGood ==
  ASSUME UNCHANGED line, NEW t, GoodTask(t), task' = t
  PROVE  GoodTask(task)'
<1>1. Pipeline' = Pipeline
  BY DEF Pipeline
<1>2. QED
  BY <1>1 DEF GoodTask, TaskRecord

\* Steps that leave the task and the requests alone.
LEMMA RestingKeeps ==
  ASSUME PipeInv, UNCHANGED <<line, task, requests>> PROVE PipeInv'
BY DEF PipeInv, Pipeline, GoodTask, TaskRecord

\* Every step of the pipeline keeps what is saved and what is about to be saved good.
LEMMA PipeKeeps ==
  ASSUME PipeInv, PipeNext PROVE PipeInv'
<1>1. CASE \E c \in Pipeline.checks : \/ PipelineTick(c)
                                       \/ \E answered \in {"synthesis", "none", "throws"} : triggerCheckIn(c, answered)
                                       \/ \E stored \in BOOLEAN : CompleteUserMessage(c, stored)
  <2>1. UNCHANGED <<line, task, requests>>
    BY <1>1 DEF PipelineTick, triggerCheckIn, CompleteUserMessage, Others
  <2>2. QED
    BY <2>1, RestingKeeps
<1>2. CASE (\E answer \in {"ok", "failed"} : resolveLinearLabelIds(answer)) \/ createIssue \/ sendWorkflow
           \/ LabelsAge
  <2>1. UNCHANGED <<line, task, requests>>
    BY <1>2 DEF resolveLinearLabelIds, createIssue, sendWorkflow, LabelsAge, WorkflowRest
  <2>2. QED
    BY <2>1, RestingKeeps
<1>3. ASSUME NEW r \in Pipeline.asks,
             createTask(r) \/ LookFirst(r) \/ getTask(r) \/ transition(r) \/ approve(r) \/ advance(r) \/ AskAgain(r)
      PROVE  PipeInv'
  <2>0. UNCHANGED line /\ Pipeline' = Pipeline
    BY <1>3 DEF createTask, LookFirst, getTask, transition, SaveMoved, approve, advance, AskAgain, Rest, Pipeline
  <2>1. ASSUME NEW entry, requests' = [requests EXCEPT ![r] = entry], UNCHANGED task,
               entry.pc = "save" => GoodTask(entry.copy)
        PROVE  PipeInv'
    <3>1. DOMAIN requests' = DOMAIN requests
      BY <2>1
    <3>2. \A q \in Pipeline.asks : requests'[q] = IF q = r THEN entry ELSE requests[q]
      BY <2>1 DEF PipeInv
    <3>3. QED
      BY <2>0, <2>1, <3>1, <3>2 DEF PipeInv, GoodTask, TaskRecord
  <2>2. CASE createTask(r)
    <3>1. GoodTask(task)'
      BY <2>0, <2>2, NewTaskIsGood, SavedIsGood DEF createTask
    <3>2. QED
      BY <2>0, <2>2, <3>1, AnsweredKeeps DEF createTask
  <2>3. CASE LookFirst(r)
    <3>1. CASE \E code \in {"404", "400"} : Respond(r, code)
      <4>1. PICK code \in {"404", "400"} : Respond(r, code)
        BY <3>1
      <4>2. task' # Nobody => GoodTask(task)'
        BY <2>0, <2>3, SavedIsGood DEF LookFirst, PipeInv
      <4>3. QED
        BY <2>0, <4>1, <4>2, AnsweredKeeps
    <3>2. CASE requests' = [requests EXCEPT ![r] = [pc |-> "get"]]
      BY <2>1, <2>3, <3>2 DEF LookFirst
    <3>3. QED
      BY <2>3, <3>1, <3>2 DEF LookFirst
  <2>4. CASE getTask(r)
    <3>1. CASE task = Nobody
      <4>1. Respond(r, "500") /\ task' = Nobody
        BY <2>4, <3>1 DEF getTask
      <4>2. QED
        BY <2>0, <4>1, AnsweredKeeps
    <3>2. CASE task # Nobody
      <4>1. requests' = [requests EXCEPT ![r] = [pc |-> "save", copy |-> task]] /\ UNCHANGED task
        BY <2>4, <3>2 DEF getTask
      <4>2. GoodTask(task)
        BY <3>2 DEF PipeInv
      <4>3. QED
        BY <2>1, <4>1, <4>2
    <3>3. QED
      BY <3>1, <3>2
  <2>5. CASE transition(r)
    <3> DEFINE t == requests[r].copy
               to == ControlTarget[r.op]
               allowed == t.state # to /\ t.state \notin TaskEnded /\ Movable(t.state, to)
    <3>1. GoodTask(t)
      BY <2>5 DEF transition, PipeInv
    <3>2. to \in {"PAUSED", "ABORTED", "INTAKE"}
      BY <2>5 DEF transition, ControlTarget
    <3>3. /\ task' = IF allowed THEN [t EXCEPT !.state = to, !.events = Append(@, Moved(t.state, to))] ELSE task
          /\ Respond(r, IF allowed THEN "200" ELSE "400")
      BY <2>5 DEF transition, SaveMoved
    <3> HIDE DEF to, t
    <3>4. task' # Nobody => GoodTask(task)'
      <4>1. CASE allowed
        <5>1. GoodTask([t EXCEPT !.state = to, !.events = Append(@, Moved(t.state, to))])
          BY <3>1, <3>2, <4>1, ControlIsGood
        <5>2. QED
          BY <2>0, <3>3, <4>1, <5>1, SavedIsGood
      <4>2. CASE ~allowed
        BY <2>0, <3>3, <4>2, SavedIsGood DEF PipeInv
      <4>3. QED
        BY <4>1, <4>2
    <3>5. QED
      BY <2>0, <3>3, <3>4, AnsweredKeeps
  <2>6. CASE approve(r)
    <3> DEFINE t == requests[r].copy
               code == IF t.state = "HANDOFF" THEN "200" ELSE "400"
    <3>1. GoodTask(t)
      BY <2>6 DEF approve, PipeInv
    <3>2. /\ task' = IF t.state = "HANDOFF"
             THEN [t EXCEPT !.approved = TRUE, !.events = Append(@, Told("task.approved"))]
                    ELSE task
          /\ Respond(r, code)
      BY <2>6 DEF approve
    <3> HIDE DEF t
    <3>3. task' # Nobody => GoodTask(task)'
      <4>1. CASE t.state = "HANDOFF"
        BY <2>0, <3>1, <3>2, <4>1, ApprovalIsGood, SavedIsGood
      <4>2. CASE t.state # "HANDOFF"
        BY <2>0, <3>2, <4>2, SavedIsGood DEF PipeInv
      <4>3. QED
        BY <4>1, <4>2
    <3>4. QED
      BY <2>0, <3>2, <3>3, AnsweredKeeps
  <2>7. CASE advance(r)
    <3>1. GoodTask(requests[r].copy)
      BY <2>7 DEF advance, PipeInv
    <3>2. GoodTask(advancePipeline(requests[r].copy))
      BY <3>1, AdvanceIsGood
    <3>3. task' = advancePipeline(requests[r].copy) /\ Respond(r, "200")
      BY <2>7 DEF advance
    <3>4. GoodTask(task)'
      BY <2>0, <3>2, <3>3, SavedIsGood
    <3>5. QED
      BY <2>0, <3>3, <3>4, AnsweredKeeps
  <2>8. CASE AskAgain(r)
    <3>1. requests' = [requests EXCEPT ![r] = [pc |-> "idle"]] /\ UNCHANGED task
      BY <2>8 DEF AskAgain
    <3>2. QED
      BY <2>1, <3>1
  <2>9. QED
    BY <1>3, <2>2, <2>3, <2>4, <2>5, <2>6, <2>7, <2>8
<1>4. QED
  BY <1>1, <1>2, <1>3 DEF PipeNext

\* Whatever requests overlap, the log of a task tells one legal history that ends in its state, a task
\* handed over has passed validation with every subtask completed, and only such a task is approved
\* (thalamus/router.ts, workers/workers.ts).
THEOREM TaskLogCorrect == Spec => []TaskLogIsPath
<1>1. Init => PipeInv
  BY PipeStarts DEF Init
<1>2. PipeInv /\ [Next]_vars => PipeInv'
  <2> SUFFICES ASSUME PipeInv, [Next]_vars PROVE PipeInv'
    OBVIOUS
  <2>1. CASE PipeNext
    BY <2>1, PipeKeeps
  <2>2. CASE UNCHANGED pipeVars
    BY <2>2, RestingKeeps DEF pipeVars
  <2>3. QED
    BY <2>1, <2>2 DEF Next, vars
<1>3. PipeInv => TaskLogIsPath
  BY DEF PipeInv, GoodTask, PathTo, Claims, TaskLogIsPath
<1>4. QED
  BY <1>1, <1>2, <1>3, PTL DEF Spec
=============================================================================
