----------------------------- MODULE ClientProofs -----------------------------
(***************************************************************************)
(* What a client gets to see: the event stream of a run (RunEventStream)   *)
(* implements the promise of its log, and the page of the browser client   *)
(* (Client) shows what belongs together and what the server holds.         *)
(***************************************************************************)
EXTENDS RunEventStream, Client, FiniteSetTheorems, SequenceTheorems, WellFoundedInduction, TLAPS

(***************************************************************************)
(* Why a stream is a prefix of the log: until the catch-up it writes       *)
(* nothing and buffers every event that is published; the snapshot was     *)
(* read after the subscription, so snapshot and buffer leave no gap.       *)
(***************************************************************************)
\* The first n events of the log, in order.
Upto(n) == [i \in 1..n |-> i]

StreamTypeOK ==
  /\ phase \in RunPhase
  /\ log \in Seq(RunPhase)
  /\ published \in 0..Len(log)
  /\ pc \in [Clients -> {"absent", "reading", "replay", "finished"}]
  /\ closed \in [Clients -> BOOLEAN]
  /\ listening \in [Clients -> BOOLEAN]
  /\ timer \in [Clients -> BOOLEAN]
  /\ snapshot \in [Clients -> 0..Len(log)]
  /\ liveBuffer \in [Clients -> Seq(Nat)]
  /\ emitted \in [Clients -> Seq(Nat)]
  /\ doneFrames \in [Clients -> 0..1]

\* The client was sent the first n events: the last one may be terminal, and
\* then the stream has ended; a stream that follows live has all there are.
Sent(c, n) ==
  /\ emitted[c] = Upto(n)
  /\ \A i \in 1..(n-1) : ~Terminal(i)
  /\ doneFrames[c] = IF n > 0 /\ Terminal(n) THEN 1 ELSE 0
  /\ n > 0 /\ Terminal(n) => closed[c]
  /\ pc[c] = "finished" /\ ~closed[c] => n >= published

\* Nothing is written, and no timer runs, before the catch-up; nothing is held
\* after the teardown.
Holds(c) ==
  /\ pc[c] # "finished" => emitted[c] = << >> /\ ~timer[c]
  /\ pc[c] = "absent" => ~closed[c] /\ ~listening[c] /\ liveBuffer[c] = << >>
  /\ pc[c] # "absent" /\ ~closed[c] => listening[c]
  /\ closed[c] => ~listening[c] /\ ~timer[c]

\* The buffer holds the events published since the subscription, none missing,
\* and the snapshot was read after it.
Recent(c, n) ==
  /\ liveBuffer[c] = [k \in 1..n |-> published - n + k]
  /\ pc[c] = "replay" => published - n <= snapshot[c]

StreamOk(c) ==
  /\ \A i \in 1..Len(liveBuffer[c]) : liveBuffer[c][i] \in 1..Len(log)
  /\ \E n \in 0..Len(log) : Sent(c, n)
  /\ Holds(c)
  /\ pc[c] \in {"reading", "replay"} /\ ~closed[c] => \E n \in 0..published : Recent(c, n)

IndInv == StreamTypeOK /\ \A c \in Clients : StreamOk(c)

------------------------------------------------------------------------------
(***************************************************************************)
(* Prefixes of the log.                                                    *)
(***************************************************************************)
\* A set of naturals has a least element.
LEMMA LeastNatural ==
  ASSUME NEW T \in SUBSET Nat, T # {}
  PROVE  \E m \in T : \A n \in T : m <= n
<1>1. \E m \in T : \A n \in T : ~(<<n, m>> \in OpToRel(<, Nat))
  BY WFMin, NatLessThanWellFounded
<1>2. ASSUME NEW m \in T, NEW n \in T, ~(<<n, m>> \in OpToRel(<, Nat))
      PROVE  m <= n
  <2>1. ~(n < m)
    BY <1>2 DEF OpToRel
  <2>2. QED
    BY <2>1
<1>3. QED
  BY <1>1, <1>2

\* A prefix as a sequence.
LEMMA UptoFacts ==
  ASSUME NEW n \in Nat
  PROVE  /\ Upto(n) \in Seq(Nat) /\ Len(Upto(n)) = n
         /\ \A i \in 1..n : Upto(n)[i] = i
         /\ Range(Upto(n)) = 1..n
<1>1. Upto(n) \in [1..n -> Nat]
  BY DEF Upto
<1>2. Upto(n) \in Seq(Nat) /\ Len(Upto(n)) = n
  BY <1>1
<1>3. \A i \in 1..n : Upto(n)[i] = i
  BY DEF Upto
<1>4. DOMAIN Upto(n) = 1..n
  BY DEF Upto
<1>5. Range(Upto(n)) = 1..n
  BY <1>3, <1>4 DEF Range
<1>6. QED
  BY <1>2, <1>3, <1>5

\* Nothing is sent of an empty log.
LEMMA UptoEmpty == Upto(0) = << >>
BY UptoFacts

\* The next event extends the prefix by one.
LEMMA UptoAppend ==
  ASSUME NEW n \in Nat
  PROVE  Append(Upto(n), n + 1) = Upto(n + 1)
<1>1. /\ Upto(n) \in Seq(Nat) /\ Len(Upto(n)) = n /\ \A i \in 1..n : Upto(n)[i] = i
      /\ Upto(n+1) \in Seq(Nat) /\ Len(Upto(n+1)) = n+1 /\ \A i \in 1..(n+1) : Upto(n+1)[i] = i
  BY UptoFacts
<1>2. /\ Append(Upto(n), n + 1) \in Seq(Nat) /\ Len(Append(Upto(n), n + 1)) = n + 1
      /\ \A i \in 1..(n+1) : Append(Upto(n), n + 1)[i] = i
  BY <1>1
<1>3. QED
  BY <1>1, <1>2, SeqEqual

\* A stream that was sent a prefix has ended if the last event of it is terminal.
LEMMA UptoEnded ==
  ASSUME NEW n \in Nat
  PROVE  Ended(Upto(n)) <=> n > 0 /\ Terminal(n)
<1>1. Upto(n) # << >> <=> n > 0
  BY UptoFacts, EmptySeq
<1>2. n > 0 => Last(Upto(n)) = n
  BY UptoFacts DEF Last
<1>3. QED
  BY <1>1, <1>2 DEF Ended

\* One more event, or one that was sent before, leaves a prefix.
LEMMA EmitOne ==
  ASSUME NEW n \in Nat, NEW e \in 1..(n+1), ~Ended(Upto(n))
  PROVE  emitEvent(e)[Upto(n)] = Upto(IF e > n THEN e ELSE n)
<1>1. emitEvent(e)[Upto(n)] = IF e \in 1..n THEN Upto(n) ELSE Append(Upto(n), e)
  BY UptoFacts DEF emitEvent, Writes
<1>2. CASE e \in 1..n
  BY <1>1, <1>2
<1>3. CASE e = n + 1
  <2>1. emitEvent(e)[Upto(n)] = Append(Upto(n), n + 1)
    BY <1>1, <1>3
  <2>2. emitEvent(e)[Upto(n)] = Upto(n + 1)
    BY <2>1, UptoAppend
  <2>3. (IF e > n THEN e ELSE n) = n + 1
    BY <1>3
  <2>4. QED
    BY <2>2, <2>3
<1>4. QED
  BY <1>2, <1>3

\* The done frames written with a prefix whose only terminal event is its last.
LEMMA UptoDoneFrames ==
  ASSUME NEW n \in Nat, \A i \in 1..(n-1) : ~Terminal(i)
  PROVE  DoneFrames(Upto(n)) = IF n > 0 /\ Terminal(n) THEN 1 ELSE 0
<1> DEFINE T == {i \in 1..Len(Upto(n)) : Terminal(Upto(n)[i])}
<1>1. T = {i \in 1..n : Terminal(i)}
  BY UptoFacts
<1>2. CASE n > 0 /\ Terminal(n)
  <2>1. T = {n}
    BY <1>1, <1>2
  <2>2. QED
    BY <1>2, <2>1, FS_Singleton DEF DoneFrames
<1>3. CASE ~(n > 0 /\ Terminal(n))
  <2>1. T = {}
    BY <1>1, <1>3
  <2>2. QED
    BY <1>3, <2>1, FS_EmptySet DEF DoneFrames
<1>4. QED
  BY <1>2, <1>3

\* The event at which a reader of the log stops: the first terminal one, or none.
StopsAt(t) == (\A e \in 1..(t-1) : ~Terminal(e)) /\ (t <= Len(log) => Terminal(t))

\* There is one.
LEMMA FirstTerminal ==
  ASSUME log \in Seq(RunPhase)
  PROVE  \E t \in 1..(Len(log) + 1) : StopsAt(t)
<1> DEFINE T == {e \in 1..Len(log) : Terminal(e)}
<1>1. CASE T = {}
  <2>1. Len(log) + 1 \in 1..(Len(log) + 1) /\ ~(Len(log) + 1 <= Len(log))
    OBVIOUS
  <2>2. \A e \in 1..Len(log) : ~Terminal(e)
    BY <1>1
  <2>3. StopsAt(Len(log) + 1)
    BY <2>1, <2>2 DEF StopsAt
  <2>4. QED
    BY <2>1, <2>3
<1>2. CASE T # {}
  <2>0. T \in SUBSET Nat
    OBVIOUS
  <2> HIDE DEF T
  <2>1. PICK t \in T : \A e \in T : t <= e
    BY <1>2, <2>0, LeastNatural
  <2> USE DEF T
  <2>2. t \in 1..(Len(log) + 1) /\ Terminal(t)
    OBVIOUS
  <2>3. ASSUME NEW e \in 1..(t-1) PROVE ~Terminal(e)
    <3>1. e \in 1..Len(log) /\ ~(t <= e)
      OBVIOUS
    <3>2. QED
      BY <2>1, <3>1
  <2>4. StopsAt(t)
    BY <2>2, <2>3 DEF StopsAt
  <2>5. QED
    BY <2>2, <2>4
<1>3. QED
  BY <1>1, <1>2

\* The code's loop over a batch: sent[i] is what was sent after i rounds.
Loop(c, batch, sent) ==
  sent = [i \in 0..Len(batch) |-> IF i = 0 THEN emitted[c]
                                 ELSE emitEvent(batch[i])[sent[i-1]]]

\* Whatever satisfies the loop's recursion is what EmitAll computes.
LEMMA EmitAllIs ==
  ASSUME NEW c, NEW batch \in Seq(Nat), NEW g, Loop(c, batch, g)
  PROVE  EmitAll(c, batch) = g[Len(batch)]
<1> DEFINE n == Len(batch)
           Rec(h) == h = [i \in 0..n |-> IF i = 0 THEN emitted[c]
                                          ELSE emitEvent(batch[i])[h[i-1]]]
           f == CHOOSE h : Rec(h)
<1>1. n \in Nat
  OBVIOUS
<1>2. EmitAll(c, batch) = f[n]
  BY DEF EmitAll
<1>3. Rec(g)
  BY DEF Loop
<1>4. Rec(f)
  BY <1>3
<1>5. f[0] = g[0] /\ \A i \in 1..n : f[i-1] = g[i-1] => f[i] = g[i]
  <2>1. ASSUME NEW h, Rec(h), NEW i \in 0..n
        PROVE  h[i] = IF i = 0 THEN emitted[c] ELSE emitEvent(batch[i])[h[i-1]]
    BY <2>1, Zenon
  <2> HIDE DEF Rec
  <2>2. 0 \in 0..n /\ \A i \in 1..n : i \in 0..n /\ i # 0
    BY <1>1
  <2>3. f[0] = emitted[c] /\ g[0] = emitted[c]
    BY <1>3, <1>4, <2>1, <2>2
  <2>4. ASSUME NEW i \in 1..n
        PROVE  f[i] = emitEvent(batch[i])[f[i-1]] /\ g[i] = emitEvent(batch[i])[g[i-1]]
    BY <1>3, <1>4, <2>1, <2>2
  <2>5. QED
    BY <2>3, <2>4
<1> HIDE DEF f, n
<1>6. \A i \in 0..n : f[i] = g[i]
  <2> DEFINE B == {i \in 0..n : f[i] # g[i]}
  <2>1. SUFFICES ASSUME B # {} PROVE FALSE
    OBVIOUS
  <2>2. B \in SUBSET Nat
    BY <1>1
  <2> HIDE DEF B
  <2>3. PICK m \in B : \A i \in B : m <= i
    BY <2>1, <2>2, LeastNatural
  <2>4. m \in 0..n /\ f[m] # g[m]
    BY DEF B
  <2>5. m \in 1..n
    BY <1>1, <1>5, <2>4
  <2>6. m - 1 \in 0..n /\ ~(m <= m - 1)
    BY <1>1, <2>5
  <2>7. f[m-1] = g[m-1]
    BY <2>3, <2>6 DEF B
  <2>8. QED
    BY <1>5, <2>4, <2>5, <2>7
<1>7. QED
  BY <1>1, <1>2, <1>6 DEF n

(***************************************************************************)
(* The catch-up: snapshot and buffer overlap or touch, so what is written  *)
(* is a prefix of the log, up to the first terminal event or to all that   *)
(* was read or published.                                                  *)
(***************************************************************************)
LEMMA CatchUpIs ==
  ASSUME log \in Seq(RunPhase), published \in 0..Len(log),
         NEW c, emitted[c] = << >>, snapshot[c] \in 0..Len(log),
         NEW m \in 0..published, liveBuffer[c] = [k \in 1..m |-> published - m + k],
         published - m <= snapshot[c]
  PROVE  \E q \in 0..Len(log) :
           /\ EmitAll(c, CatchUp(c)) = Upto(q)
           /\ \A i \in 1..(q-1) : ~Terminal(i)
           /\ (q > 0 /\ Terminal(q)) \/ q >= published
<1> DEFINE s == snapshot[c]
           lo == published - m
           batch == CatchUp(c)
           event(i) == IF i <= s THEN i ELSE lo + (i - s)
           covered(i) == IF event(i) > s THEN event(i) ELSE IF i <= s THEN i ELSE s
<1>1. s \in Nat /\ lo \in Nat /\ m \in Nat /\ lo <= s /\ Len(log) \in Nat
  OBVIOUS
<1>2. /\ batch \in Seq(Nat) /\ Len(batch) = s + m
      /\ \A i \in 1..(s + m) : batch[i] = event(i)
  <2>1. /\ [i \in 1..s |-> i] \in Seq(Nat) /\ Len([i \in 1..s |-> i]) = s
        /\ \A i \in 1..s : [j \in 1..s |-> j][i] = i
    <3>1. [i \in 1..s |-> i] \in [1..s -> Nat]
      OBVIOUS
    <3>2. QED
      BY <1>1, <3>1
  <2>2. /\ liveBuffer[c] \in Seq(Nat) /\ Len(liveBuffer[c]) = m
        /\ \A k \in 1..m : liveBuffer[c][k] = lo + k
    <3>1. liveBuffer[c] \in [1..m -> Nat]
      BY <1>1
    <3>2. \A k \in 1..m : liveBuffer[c][k] = lo + k
      OBVIOUS
    <3>3. QED
      BY <1>1, <3>1, <3>2
  <2>3. batch = [i \in 1..s |-> i] \o liveBuffer[c]
    BY DEF CatchUp
  <2> HIDE DEF batch, lo
  <2>4. batch \in Seq(Nat) /\ Len(batch) = s + m
    BY <1>1, <2>1, <2>2, <2>3
  <2>5. ASSUME NEW i \in 1..(s + m) PROVE batch[i] = event(i)
    <3>1. CASE i <= s
      BY <1>1, <2>1, <2>2, <2>3, <3>1
    <3>2. CASE i > s
      <4>1. batch[i] = liveBuffer[c][i - s]
        BY <1>1, <2>1, <2>2, <2>3, <3>2
      <4>2. i - s \in 1..m /\ ~(i <= s)
        BY <1>1, <3>2
      <4>3. QED
        BY <2>2, <4>1, <4>2
    <3>3. QED
      BY <1>1, <3>1, <3>2
  <2>6. QED
    BY <2>4, <2>5
<1>0. PICK t \in 1..(Len(log) + 1) : StopsAt(t)
  BY FirstTerminal
<1>3. (\A e \in 1..(t-1) : ~Terminal(e)) /\ (t <= Len(log) => Terminal(t))
  BY <1>0 DEF StopsAt
<1> DEFINE q(i) == IF covered(i) < t THEN covered(i) ELSE t
           g == [i \in 0..Len(batch) |-> Upto(q(i))]
<1> HIDE DEF batch
<1>4. ASSUME NEW i \in 0..(s + m)
      PROVE  covered(i) \in 0..Len(log) /\ q(i) \in 0..Len(log)
  <2>1. covered(i) \in 0..Len(log)
    BY <1>1
  <2> HIDE DEF covered
  <2>2. QED
    BY <1>1, <2>1
<1>5. ASSUME NEW i \in 1..(s + m)
      PROVE  /\ i - 1 \in 0..(s + m) /\ i \in 0..(s + m)
             /\ event(i) \in 1..(covered(i-1) + 1)
             /\ covered(i) = IF event(i) > covered(i-1) THEN event(i) ELSE covered(i-1)
  <2> HIDE DEF s, lo
  <2>1. i - 1 \in 0..(s + m) /\ i \in 0..(s + m) /\ i \in Nat /\ i >= 1
    BY <1>1
  <2>2. CASE i <= s
    BY <1>1, <2>1, <2>2
  <2>3. CASE i = s + 1
    BY <1>1, <2>1, <2>3
  <2>4. CASE i > s + 1
    BY <1>1, <2>1, <2>4
  <2>5. QED
    BY <1>1, <2>1, <2>2, <2>3, <2>4
<1>6. covered(0) = 0
  BY <1>1
<1> HIDE DEF covered, event
<1>7. ASSUME NEW i \in 1..(s + m)
      PROVE  emitEvent(event(i))[Upto(q(i-1))] = Upto(q(i))
  <2>1. /\ covered(i-1) \in 0..Len(log) /\ covered(i) \in 0..Len(log)
        /\ event(i) \in 1..(covered(i-1) + 1)
        /\ covered(i) = IF event(i) > covered(i-1) THEN event(i) ELSE covered(i-1)
    BY <1>4, <1>5
  <2>2. CASE covered(i-1) < t
    <3>1. q(i-1) = covered(i-1)
      BY <2>2
    <3>2. ~Ended(Upto(covered(i-1)))
      <4>1. covered(i-1) > 0 => covered(i-1) \in 1..(t-1)
        BY <2>1, <2>2
      <4>2. covered(i-1) \in Nat
        BY <1>1, <2>1
      <4>3. covered(i-1) > 0 => ~Terminal(covered(i-1))
        BY <1>3, <4>1 DEF Terminal, isTerminalRunPhase
      <4>4. QED
        BY <4>2, <4>3, UptoEnded
    <3>3. q(i) = covered(i)
      BY <1>3, <2>1, <2>2
    <3>4. emitEvent(event(i))[Upto(covered(i-1))] = Upto(covered(i))
      BY <2>1, <3>2, EmitOne
    <3>5. QED
      BY <3>1, <3>3, <3>4
  <2>3. CASE covered(i-1) >= t
    <3>1. t \in Nat /\ t > 0 /\ t <= Len(log) /\ covered(i) >= t
      BY <2>1, <2>3
    <3>2. ~(covered(i-1) < t) /\ ~(covered(i) < t)
      BY <2>1, <2>3, <3>1
    <3>3. q(i-1) = t /\ q(i) = t /\ Terminal(t)
      <4>1. q(i-1) = t
        BY <3>2
      <4>2. q(i) = t
        BY <3>2
      <4>3. Terminal(t)
        BY <1>3, <3>1 DEF Terminal, isTerminalRunPhase
      <4>4. QED
        BY <4>1, <4>2, <4>3
    <3>4. Ended(Upto(t))
      BY <3>1, <3>3, UptoEnded
    <3>5. emitEvent(event(i))[Upto(t)] = Upto(t)
      BY <3>1, <3>4, UptoFacts DEF emitEvent, Writes
    <3>6. QED
      BY <3>3, <3>5
  <2>4. QED
    BY <1>3, <2>1, <2>2, <2>3
<1>8. Loop(c, batch, g)
  <2>1. ASSUME NEW i \in 0..Len(batch)
        PROVE  Upto(q(i)) = IF i = 0 THEN emitted[c] ELSE emitEvent(batch[i])[g[i-1]]
    <3>1. CASE i = 0
      <4>1. q(0) = 0
        BY <1>3, <1>6
      <4>2. QED
        BY <3>1, <4>1, UptoEmpty
    <3>2. CASE i # 0
      <4>1. i \in 1..(s + m) /\ i - 1 \in 0..Len(batch)
        BY <1>1, <1>2, <3>2
      <4>2. g[i-1] = Upto(q(i-1))
        BY <4>1
      <4>3. QED
        BY <1>2, <1>7, <3>2, <4>1, <4>2
    <3>3. QED
      BY <3>1, <3>2
  <2>2. QED
    BY <2>1 DEF Loop
<1>9. g[Len(batch)] = Upto(q(s + m))
  BY <1>1, <1>2
<1> HIDE DEF g
<1>10. EmitAll(c, batch) = Upto(q(s + m))
  <2>1. EmitAll(c, batch) = g[Len(batch)]
    BY <1>2, <1>8, EmitAllIs
  <2>2. QED
    BY <1>9, <2>1
<1>11. covered(s + m) >= published /\ covered(s + m) \in 0..Len(log)
  <2>1. covered(s + m) >= published
    BY <1>1 DEF covered, event
  <2>2. QED
    BY <1>1, <1>4, <2>1
<1> DEFINE Q == q(s + m)
<1>12. CASE covered(s + m) < t
  <2>1. Q = covered(s + m) /\ \A i \in 1..(Q-1) : i \in 1..(t-1)
    BY <1>11, <1>12
  <2>2. Q \in 0..Len(log) /\ Q >= published
    BY <1>11, <2>1
  <2>3. \A i \in 1..(Q-1) : ~Terminal(i)
    BY <1>3, <2>1
  <2> HIDE DEF Q
  <2>4. QED
    BY <1>10, <2>2, <2>3 DEF batch, Q
<1>13. CASE ~(covered(s + m) < t)
  <2>1. Q = t /\ t <= Len(log) /\ t > 0 /\ t \in 0..Len(log)
    BY <1>11, <1>13
  <2>2. Terminal(Q)
    BY <1>3, <2>1 DEF Terminal, isTerminalRunPhase
  <2>3. \A i \in 1..(Q-1) : ~Terminal(i)
    BY <1>3, <2>1
  <2>4. Q \in 0..Len(log) /\ Q > 0
    BY <2>1
  <2> HIDE DEF Q
  <2>5. QED
    BY <1>10, <2>2, <2>3, <2>4 DEF batch, Q
<1>14. QED
  BY <1>12, <1>13

(***************************************************************************)
(* The inductive invariant.                                                *)
(***************************************************************************)
LEMMA InitIndInv == Init => IndInv
<1> SUFFICES ASSUME Init PROVE IndInv
  OBVIOUS
<1>1. StreamTypeOK
  <2>1. "CHAT_RECEIVED" \in RunPhase
    BY DEF RunPhase
  <2>2. << >> \in Seq(RunPhase) /\ << >> \in Seq(Nat) /\ Len(<< >>) = 0
    OBVIOUS
  <2>3. QED
    BY <2>1, <2>2 DEF Init, StreamTypeOK
<1>2. ASSUME NEW c \in Clients PROVE StreamOk(c)
  <2>1. Sent(c, 0)
    BY UptoEmpty DEF Init, Sent
  <2>2. Holds(c)
    BY DEF Init, Holds
  <2>3. liveBuffer[c] = << >> /\ log = << >> /\ pc[c] = "absent"
    BY DEF Init
  <2>4. 0 \in 0..Len(log)
    BY <2>3
  <2>5. QED
    BY <2>1, <2>2, <2>3, <2>4 DEF StreamOk
<1>3. QED
  BY <1>1, <1>2 DEF IndInv

\* A step that only adds to the log leaves a stream as good as it was.
LEMMA Untouched ==
  ASSUME IndInv, NEW c \in Clients,
         log' \in Seq(RunPhase), Len(log') >= Len(log),
         \A e \in 1..Len(log) : log'[e] = log[e],
         published' = published, pc'[c] = pc[c], closed'[c] = closed[c],
         listening'[c] = listening[c], timer'[c] = timer[c], snapshot'[c] = snapshot[c],
         liveBuffer'[c] = liveBuffer[c], emitted'[c] = emitted[c],
         doneFrames'[c] = doneFrames[c]
  PROVE  StreamOk(c)'
<1>1. StreamOk(c)
  BY DEF IndInv
<1>2. Len(log) \in Nat /\ Len(log') \in Nat
  BY DEF IndInv, StreamTypeOK
<1>3. \A e \in 1..Len(log) : Terminal(e)' <=> Terminal(e)
  BY DEF Terminal, isTerminalRunPhase
<1>4. PICK n \in 0..Len(log) : Sent(c, n)
  BY <1>1 DEF StreamOk
<1>5. Upto(n)' = Upto(n)
  BY DEF Upto
<1>6. n > 0 => n \in 1..Len(log)
  BY <1>2
<1>7. \A i \in 1..(n-1) : i \in 1..Len(log)
  BY <1>2
<1>8. Sent(c, n)'
  BY <1>3, <1>4, <1>5, <1>6, <1>7 DEF Sent
<1>9. n \in 0..Len(log')
  BY <1>2
<1>10. Holds(c)'
  BY <1>1 DEF StreamOk, Holds
<1>11. \A i \in 1..Len(liveBuffer'[c]) : liveBuffer'[c][i] \in 1..Len(log')
  <2>1. 1..Len(log) \subseteq 1..Len(log')
    BY <1>2
  <2>2. QED
    BY <1>1, <2>1 DEF StreamOk
<1>12. ASSUME NEW k \in 0..published, Recent(c, k) PROVE Recent(c, k)'
  BY <1>12 DEF Recent
<1>13. pc'[c] \in {"reading", "replay"} /\ ~closed'[c] => \E k \in 0..published' : Recent(c, k)'
  BY <1>1, <1>12 DEF StreamOk
<1>14. QED
  BY <1>8, <1>9, <1>10, <1>11, <1>13 DEF StreamOk

\* The stream of a client whose handler takes a step, and nobody else's.
Aside(c) ==
  \A d \in Clients \ {c} :
    /\ pc'[d] = pc[d] /\ closed'[d] = closed[d] /\ listening'[d] = listening[d]
    /\ timer'[d] = timer[d] /\ snapshot'[d] = snapshot[d]
    /\ liveBuffer'[d] = liveBuffer[d] /\ emitted'[d] = emitted[d]
    /\ doneFrames'[d] = doneFrames[d]

\* A step of one stream handler leaves the other streams and the log alone.
LEMMA HandlerStep ==
  ASSUME IndInv, NEW c \in Clients, UNCHANGED runVars, Aside(c),
         StreamTypeOK', StreamOk(c)'
  PROVE  IndInv'
<1>1. log' = log /\ published' = published
  BY DEF runVars
<1>2. log \in Seq(RunPhase) /\ Len(log) \in Nat
  BY DEF IndInv, StreamTypeOK
<1>3. ASSUME NEW d \in Clients, d # c PROVE StreamOk(d)'
  BY <1>1, <1>2, <1>3, Untouched DEF Aside
<1>4. QED
  BY <1>3 DEF IndInv

\* Persisting an event.
LEMMA PersistStep ==
  ASSUME IndInv, NEW p \in RunPhase, log' = Append(log, p), phase' \in RunPhase,
         UNCHANGED <<published, streamVars>>
  PROVE  IndInv'
<1>1. log \in Seq(RunPhase) /\ Len(log) \in Nat /\ log' \in Seq(RunPhase)
      /\ Len(log') = Len(log) + 1 /\ \A e \in 1..Len(log) : log'[e] = log[e]
  BY DEF IndInv, StreamTypeOK
<1>2. StreamTypeOK'
  <2>1. 0..Len(log) \subseteq 0..Len(log')
    BY <1>1
  <2>2. QED
    BY <1>1, <2>1 DEF IndInv, StreamTypeOK, streamVars
<1>3. ASSUME NEW c \in Clients PROVE StreamOk(c)'
  BY <1>1, Untouched DEF streamVars
<1>4. QED
  BY <1>2, <1>3 DEF IndInv

\* broker.subscribe, before the snapshot is read.
LEMMA SubscribeStep ==
  ASSUME IndInv, NEW c \in Clients, Subscribe(c)
  PROVE  IndInv'
<1>1. StreamTypeOK'
  BY DEF IndInv, StreamTypeOK, Subscribe, runVars
<1>2. Aside(c) /\ UNCHANGED runVars
  BY DEF IndInv, StreamTypeOK, Subscribe, Aside
<1>3. StreamOk(c)'
  <2>1. StreamOk(c) /\ StreamTypeOK
    BY DEF IndInv
  <2>2. /\ log' = log /\ published' = published /\ emitted' = emitted
        /\ doneFrames' = doneFrames /\ closed' = closed /\ liveBuffer' = liveBuffer
        /\ timer' = timer /\ pc'[c] = "reading" /\ listening'[c] = TRUE /\ pc[c] = "absent"
    BY <2>1 DEF Subscribe, runVars, StreamTypeOK
  <2>3. PICK n \in 0..Len(log) : Sent(c, n)
    BY <2>1 DEF StreamOk
  <2>4. Sent(c, n)'
    BY <2>2, <2>3 DEF Sent, Terminal, Upto
  <2>5. Holds(c)'
    BY <2>1, <2>2 DEF StreamOk, Holds
  <2>6. Recent(c, 0)' /\ 0 \in 0..published'
    <3>1. liveBuffer[c] = << >>
      BY <2>1, <2>2 DEF StreamOk, Holds
    <3>2. << >> = [k \in 1..0 |-> published - 0 + k]
      OBVIOUS
    <3>3. 0 \in 0..published
      BY <2>1 DEF StreamTypeOK
    <3>4. QED
      BY <2>2, <3>1, <3>2, <3>3 DEF Recent
  <2>7. QED
    BY <2>1, <2>2, <2>3, <2>4, <2>5, <2>6 DEF StreamOk
<1>4. QED
  BY <1>1, <1>2, <1>3, HandlerStep

\* store.listEvents: the snapshot is the log of that moment.
LEMMA ListEventsStep ==
  ASSUME IndInv, NEW c \in Clients, ListEvents(c)
  PROVE  IndInv'
<1>1. StreamTypeOK'
  <2>1. Len(log) \in 0..Len(log)
    BY DEF IndInv, StreamTypeOK
  <2>2. QED
    BY <2>1 DEF IndInv, StreamTypeOK, ListEvents, runVars
<1>2. Aside(c) /\ UNCHANGED runVars
  BY DEF IndInv, StreamTypeOK, ListEvents, Aside
<1>3. StreamOk(c)'
  <2>1. StreamOk(c) /\ StreamTypeOK
    BY DEF IndInv
  <2>2. /\ log' = log /\ published' = published /\ emitted' = emitted
        /\ doneFrames' = doneFrames /\ closed' = closed /\ liveBuffer' = liveBuffer
        /\ timer' = timer /\ listening' = listening
        /\ pc'[c] = "replay" /\ pc[c] = "reading" /\ snapshot'[c] = Len(log)
    BY <2>1 DEF ListEvents, runVars, StreamTypeOK
  <2>3. PICK n \in 0..Len(log) : Sent(c, n)
    BY <2>1 DEF StreamOk
  <2>4. Sent(c, n)'
    BY <2>2, <2>3 DEF Sent, Terminal, Upto
  <2>5. Holds(c)'
    BY <2>1, <2>2 DEF StreamOk, Holds
  <2>6. ASSUME ~closed[c] PROVE \E k \in 0..published : Recent(c, k)'
    <3>1. PICK k \in 0..published : Recent(c, k)
      BY <2>1, <2>2, <2>6 DEF StreamOk
    <3>2. published - k <= Len(log)
      BY <2>1 DEF StreamTypeOK
    <3>3. Recent(c, k)'
      BY <2>2, <3>1, <3>2 DEF Recent
    <3>4. QED
      BY <3>3
  <2>7. QED
    BY <2>1, <2>2, <2>3, <2>4, <2>5, <2>6 DEF StreamOk
<1>4. QED
  BY <1>1, <1>2, <1>3, HandlerStep

\* A stream that is closed owes nothing more.
LEMMA ClosedOk ==
  ASSUME IndInv, NEW c \in Clients, UNCHANGED <<log, published, liveBuffer, emitted, doneFrames>>,
         closed'[c], Holds(c)'
  PROVE  StreamOk(c)'
<1>1. StreamOk(c)
  BY DEF IndInv
<1>2. PICK n \in 0..Len(log) : Sent(c, n)
  BY <1>1 DEF StreamOk
<1>3. Sent(c, n)'
  BY <1>2 DEF Sent, Terminal, Upto
<1>4. QED
  BY <1>1, <1>2, <1>3 DEF StreamOk

\* store.listEvents rejects: the stream is torn down.
LEMMA ListEventsFailsStep ==
  ASSUME IndInv, NEW c \in Clients, ListEventsFails(c)
  PROVE  IndInv'
<1>1. StreamTypeOK'
  BY DEF IndInv, StreamTypeOK, ListEventsFails, runVars
<1>2. Aside(c) /\ UNCHANGED runVars
  BY DEF IndInv, StreamTypeOK, ListEventsFails, Aside
<1>3. Holds(c)' /\ closed'[c]
  BY DEF IndInv, StreamOk, StreamTypeOK, ListEventsFails, Holds
<1>4. StreamOk(c)'
  BY <1>3, ClosedOk DEF ListEventsFails, runVars
<1>5. QED
  BY <1>1, <1>2, <1>4, HandlerStep

\* The client closes the connection.
LEMMA DisconnectStep ==
  ASSUME IndInv, NEW c \in Clients, Disconnect(c)
  PROVE  IndInv'
<1>1. StreamTypeOK'
  BY DEF IndInv, StreamTypeOK, Disconnect, Released, runVars
<1>2. Aside(c) /\ UNCHANGED runVars
  BY DEF IndInv, StreamTypeOK, Disconnect, Aside
<1>3. Holds(c)' /\ closed'[c]
  BY DEF IndInv, StreamOk, StreamTypeOK, Disconnect, Holds, Released
<1>4. StreamOk(c)'
  BY <1>3, ClosedOk DEF Disconnect, runVars
<1>5. QED
  BY <1>1, <1>2, <1>4, HandlerStep

\* The replay of a stream that was closed while it waited for the store.
LEMMA ReplayClosedStep ==
  ASSUME IndInv, NEW c \in Clients, ReplayClosed(c)
  PROVE  IndInv'
<1>1. StartTimer(c) = FALSE
  BY DEF IndInv, StreamOk, StreamTypeOK, ReplayClosed, Holds, StartTimer
<1>2. StreamTypeOK'
  BY <1>1 DEF IndInv, StreamTypeOK, ReplayClosed, runVars
<1>3. Aside(c) /\ UNCHANGED runVars
  BY DEF IndInv, StreamTypeOK, ReplayClosed, Aside
<1>4. Holds(c)' /\ closed'[c]
  BY <1>1 DEF IndInv, StreamOk, StreamTypeOK, ReplayClosed, Holds
<1>5. StreamOk(c)'
  BY <1>4, ClosedOk DEF ReplayClosed, runVars
<1>6. QED
  BY <1>2, <1>3, <1>5, HandlerStep

\* The catch-up: what was read and what was delivered meanwhile.
LEMMA ReplayStep ==
  ASSUME IndInv, NEW c \in Clients, Replay(c)
  PROVE  IndInv'
<1> DEFINE sent == EmitAll(c, CatchUp(c))
<1>1. StreamOk(c) /\ StreamTypeOK /\ pc[c] = "replay" /\ ~closed[c]
  BY DEF IndInv, Replay
<1>2. log \in Seq(RunPhase) /\ published \in 0..Len(log) /\ snapshot[c] \in 0..Len(log)
      /\ Len(log) \in Nat
  BY <1>1 DEF StreamTypeOK
<1>3. emitted[c] = << >> /\ ~timer[c] /\ listening[c]
  BY <1>1 DEF StreamOk, Holds
<1>4. PICK k \in 0..published : Recent(c, k)
  BY <1>1 DEF StreamOk
<1>5. liveBuffer[c] = [j \in 1..k |-> published - k + j] /\ published - k <= snapshot[c]
  BY <1>1, <1>4 DEF Recent
<1>6. PICK n \in 0..Len(log) : /\ sent = Upto(n)
                               /\ \A i \in 1..(n-1) : ~Terminal(i)
                               /\ (n > 0 /\ Terminal(n)) \/ n >= published
  BY <1>2, <1>3, <1>5, CatchUpIs
<1> HIDE DEF sent
<1>7. Ended(sent) <=> n > 0 /\ Terminal(n)
  BY <1>2, <1>6, UptoEnded
<1>8. DoneFrames(sent) = IF n > 0 /\ Terminal(n) THEN 1 ELSE 0
  BY <1>2, <1>6, UptoDoneFrames
<1>9. Ended(sent) \in BOOLEAN /\ StartTimer(c) = ~Ended(sent)
  BY <1>1, <1>3 DEF Ended, Terminal, isTerminalRunPhase, StartTimer, StreamTypeOK, sent
<1>10. /\ log' = log /\ published' = published /\ phase' = phase /\ snapshot' = snapshot
       /\ pc' = [pc EXCEPT ![c] = "finished"]
       /\ emitted' = [emitted EXCEPT ![c] = sent]
       /\ liveBuffer' = [liveBuffer EXCEPT ![c] = << >>]
       /\ closed' = [closed EXCEPT ![c] = Ended(sent)]
       /\ doneFrames' = [doneFrames EXCEPT ![c] = DoneFrames(sent)]
       /\ listening' = [listening EXCEPT ![c] = Released(listening[c], Ended(sent))]
       /\ timer' = [timer EXCEPT ![c] = StartTimer(c)]
  BY DEF Replay, runVars, sent
<1>11. sent \in Seq(Nat) /\ Released(listening[c], Ended(sent)) = ~Ended(sent)
  BY <1>1, <1>2, <1>3, <1>6, <1>9, UptoFacts DEF Released, StreamTypeOK
<1>12. StreamTypeOK'
  BY <1>1, <1>8, <1>9, <1>10, <1>11 DEF StreamTypeOK
<1>13. Aside(c) /\ UNCHANGED runVars
  BY <1>1, <1>10 DEF StreamTypeOK, Aside, runVars
<1>14. StreamOk(c)'
  <2>1. /\ emitted'[c] = sent /\ liveBuffer'[c] = << >> /\ pc'[c] = "finished"
        /\ closed'[c] = Ended(sent) /\ doneFrames'[c] = DoneFrames(sent)
        /\ listening'[c] = ~Ended(sent) /\ timer'[c] = ~Ended(sent)
    BY <1>1, <1>9, <1>10, <1>11 DEF StreamTypeOK
  <2>2. \A e : Terminal(e)' = Terminal(e)
    BY <1>10 DEF Terminal
  <2>3. Upto(n)' = Upto(n)
    BY DEF Upto
  <2>4. Sent(c, n)'
    BY <1>6, <1>7, <1>8, <1>10, <2>1, <2>2, <2>3 DEF Sent
  <2>5. Holds(c)'
    BY <1>9, <2>1 DEF Holds
  <2>6. QED
    BY <1>2, <1>10, <2>1, <2>4, <2>5 DEF StreamOk
<1>15. QED
  BY <1>12, <1>13, <1>14, HandlerStep

\* One event more for a stream that follows live.
LEMMA LiveEvent ==
  ASSUME IndInv, published < Len(log), NEW c \in Clients,
         pc[c] = "finished", ~closed[c]
  PROVE  \E n \in 0..Len(log) :
           /\ emitEvent(published + 1)[emitted[c]] = Upto(n)
           /\ \A i \in 1..(n-1) : ~Terminal(i)
           /\ n >= published + 1
<1>1. StreamOk(c) /\ StreamTypeOK
  BY DEF IndInv
<1>2. Len(log) \in Nat /\ published \in 0..Len(log)
  BY <1>1 DEF StreamTypeOK
<1>3. PICK n \in 0..Len(log) : Sent(c, n)
  BY <1>1 DEF StreamOk
<1>4. /\ emitted[c] = Upto(n) /\ n >= published /\ ~(n > 0 /\ Terminal(n))
      /\ \A i \in 1..(n-1) : ~Terminal(i)
  BY <1>3 DEF Sent
<1> DEFINE e == published + 1
           r == IF e > n THEN e ELSE n
<1>5. e \in 1..(n+1) /\ n \in Nat /\ r \in 0..Len(log) /\ r >= e
  BY <1>2, <1>4
<1>6. ~Ended(Upto(n))
  BY <1>4, <1>5, UptoEnded
<1>7. emitEvent(e)[Upto(n)] = Upto(r)
  BY <1>5, <1>6, EmitOne
<1>8. ASSUME NEW i \in 1..(r-1) PROVE ~Terminal(i)
  <2>1. i \in 1..(n-1) \/ (i = n /\ n > 0)
    BY <1>2, <1>4, <1>5
  <2>2. QED
    BY <1>4, <2>1
<1> HIDE DEF r
<1>9. QED
  BY <1>4, <1>5, <1>7, <1>8

\* The broker delivers an event: live streams write it, the others buffer it.
LEMMA PublishStep ==
  ASSUME IndInv, Publish
  PROVE  IndInv'
<1> DEFINE e == published + 1
           Open(c) == listening[c] /\ ~closed[c]
           Live(c) == Open(c) /\ pc[c] = "finished"
           sent == [c \in Clients |-> IF Live(c) THEN emitEvent(e)[emitted[c]] ELSE emitted[c]]
           ends == [c \in Clients |-> Live(c) /\ Ended(sent[c])]
<1>0. StreamTypeOK
  BY DEF IndInv
<1>1. Len(log) \in Nat /\ published \in 0..Len(log) /\ published < Len(log)
  BY <1>0 DEF StreamTypeOK, Publish
<1>2. /\ log' = log /\ phase' = phase /\ pc' = pc /\ snapshot' = snapshot /\ published' = e
      /\ emitted' = sent
      /\ liveBuffer' = [c \in Clients |-> IF Open(c) /\ ~Live(c) THEN Append(liveBuffer[c], e)
                                          ELSE liveBuffer[c]]
      /\ doneFrames' = [c \in Clients |-> DoneFrames(sent[c])]
      /\ closed' = [c \in Clients |-> closed[c] \/ ends[c]]
      /\ listening' = [c \in Clients |-> Released(listening[c], ends[c])]
      /\ timer' = [c \in Clients |-> Released(timer[c], ends[c])]
  BY DEF Publish
<1> HIDE DEF sent
<1>3. ASSUME NEW c \in Clients
      PROVE  \E n \in 0..Len(log) :
               /\ sent[c] = Upto(n)
               /\ \A i \in 1..(n-1) : ~Terminal(i)
               /\ Live(c) => n >= e
               /\ ~Live(c) /\ n > 0 /\ Terminal(n) => closed[c]
  <2>1. CASE Live(c)
    <3>1. sent[c] = emitEvent(e)[emitted[c]]
      BY <2>1 DEF sent
    <3>2. QED
      BY <1>1, <2>1, <3>1, LiveEvent
  <2>2. CASE ~Live(c)
    <3>1. sent[c] = emitted[c]
      BY <2>2 DEF sent
    <3>2. PICK n \in 0..Len(log) : Sent(c, n)
      BY DEF IndInv, StreamOk
    <3>3. /\ sent[c] = Upto(n) /\ (n > 0 /\ Terminal(n) => closed[c])
          /\ \A i \in 1..(n-1) : ~Terminal(i)
      BY <3>1, <3>2 DEF Sent
    <3>4. QED
      BY <2>2, <3>3
  <2>3. QED
    BY <2>1, <2>2
<1>4. ASSUME NEW c \in Clients
      PROVE  /\ sent[c] \in Seq(Nat) /\ DoneFrames(sent[c]) \in 0..1
             /\ (liveBuffer'[c] \in Seq(Nat))
             /\ closed'[c] \in BOOLEAN /\ listening'[c] \in BOOLEAN /\ timer'[c] \in BOOLEAN
  <2>1. PICK n \in 0..Len(log) : sent[c] = Upto(n) /\ \A i \in 1..(n-1) : ~Terminal(i)
    BY <1>3
  <2>2. DoneFrames(sent[c]) \in 0..1
    BY <1>1, <2>1, UptoDoneFrames
  <2>3. sent[c] \in Seq(Nat)
    BY <1>1, <2>1, UptoFacts
  <2>4. liveBuffer'[c] \in Seq(Nat)
    BY <1>0, <1>1, <1>2 DEF StreamTypeOK
  <2>5. ends[c] \in BOOLEAN
    BY DEF Ended, Terminal, isTerminalRunPhase
  <2> HIDE DEF ends
  <2>6. closed'[c] \in BOOLEAN /\ listening'[c] \in BOOLEAN /\ timer'[c] \in BOOLEAN
    BY <1>0, <1>2, <2>5 DEF StreamTypeOK, Released
  <2>7. QED
    BY <2>2, <2>3, <2>4, <2>6
<1>5. StreamTypeOK'
  <2>1. published' \in 0..Len(log')
    BY <1>1, <1>2
  <2>2. liveBuffer' \in [Clients -> Seq(Nat)] /\ emitted' \in [Clients -> Seq(Nat)]
    BY <1>2, <1>4 DEF sent
  <2>3. doneFrames' \in [Clients -> 0..1]
    BY <1>2, <1>4
  <2>4. closed' \in [Clients -> BOOLEAN] /\ listening' \in [Clients -> BOOLEAN]
        /\ timer' \in [Clients -> BOOLEAN]
    BY <1>2, <1>4
  <2>5. QED
    BY <1>0, <1>2, <2>1, <2>2, <2>3, <2>4 DEF StreamTypeOK
<1>6. ASSUME NEW c \in Clients PROVE StreamOk(c)'
  <2>0. StreamOk(c)
    BY DEF IndInv
  <2>1. PICK n \in 0..Len(log) :
               /\ sent[c] = Upto(n)
               /\ \A i \in 1..(n-1) : ~Terminal(i)
               /\ Live(c) => n >= e
               /\ ~Live(c) /\ n > 0 /\ Terminal(n) => closed[c]
    BY <1>3
  <2>2. DoneFrames(sent[c]) = IF n > 0 /\ Terminal(n) THEN 1 ELSE 0
    BY <1>1, <2>1, UptoDoneFrames
  <2>3. Ended(sent[c]) <=> n > 0 /\ Terminal(n)
    BY <1>1, <2>1, UptoEnded
  <2>4. /\ emitted'[c] = sent[c] /\ doneFrames'[c] = DoneFrames(sent[c])
        /\ closed'[c] <=> closed[c] \/ ends[c]
        /\ listening'[c] <=> listening[c] /\ ~ends[c]
        /\ timer'[c] <=> timer[c] /\ ~ends[c]
    BY <1>2 DEF Released
  <2>5. ends[c] <=> Live(c) /\ Ended(sent[c])
    OBVIOUS
  <2> HIDE DEF ends
  <2>6. \A i : Terminal(i)' = Terminal(i)
    BY <1>2 DEF Terminal
  <2>7. Upto(n)' = Upto(n)
    BY DEF Upto
  <2>8. pc[c] # "absent" /\ ~closed[c] => Open(c)
    BY <2>0 DEF StreamOk, Holds
  <2>9. pc'[c] = "finished" /\ ~closed'[c] => n >= published'
    BY <1>2, <2>1, <2>4, <2>8
  <2>10. n > 0 /\ Terminal(n) => closed'[c]
    BY <2>1, <2>3, <2>4, <2>5
  <2>11. Sent(c, n)'
    <3>1. emitted'[c] = Upto(n) /\ doneFrames'[c] = IF n > 0 /\ Terminal(n) THEN 1 ELSE 0
      BY <2>1, <2>2, <2>4
    <3>2. QED
      BY <2>1, <2>6, <2>7, <2>9, <2>10, <3>1 DEF Sent
  <2>12. Holds(c)'
    <3>1. Holds(c)
      BY <2>0 DEF StreamOk
    <3>2. pc[c] # "finished" => emitted'[c] = emitted[c] /\ ~ends[c]
      BY <2>4, <2>5 DEF sent
    <3>3. pc[c] = "absent" => liveBuffer'[c] = liveBuffer[c]
      BY <1>2, <3>1 DEF Holds
    <3>4. QED
      BY <1>2, <2>4, <2>5, <3>1, <3>2, <3>3 DEF Holds
  <2>13. \A i \in 1..Len(liveBuffer'[c]) : liveBuffer'[c][i] \in 1..Len(log')
    <3>1. liveBuffer[c] \in Seq(Nat) /\ e \in 1..Len(log)
      BY <1>0, <1>1 DEF StreamTypeOK
    <3>2. \A i \in 1..Len(liveBuffer[c]) : liveBuffer[c][i] \in 1..Len(log)
      BY <2>0 DEF StreamOk
    <3>3. \A i \in 1..Len(Append(liveBuffer[c], e)) :
            Append(liveBuffer[c], e)[i] \in 1..Len(log)
      BY <3>1, <3>2
    <3>4. QED
      BY <1>2, <3>2, <3>3
  <2>14. ASSUME pc'[c] \in {"reading", "replay"}, ~closed'[c]
         PROVE  \E k \in 0..published' : Recent(c, k)'
    <3>1. pc[c] \in {"reading", "replay"} /\ ~closed[c]
      BY <1>2, <2>4, <2>14
    <3>2. Open(c) /\ ~Live(c)
      BY <2>8, <3>1
    <3>3. PICK k \in 0..published : Recent(c, k)
      BY <2>0, <3>1 DEF StreamOk
    <3> DEFINE lo == published - k
    <3>4. lo \in Nat /\ k \in Nat /\ e = lo + (k + 1) /\ published' - (k + 1) = lo
          /\ k + 1 \in 0..published'
      BY <1>1, <1>2
    <3>5. liveBuffer[c] = [j \in 1..k |-> lo + j] /\ (pc[c] = "replay" => lo <= snapshot[c])
      BY <3>3 DEF Recent
    <3> HIDE DEF e, lo
    <3>6. Append(liveBuffer[c], e) = [j \in 1..(k+1) |-> lo + j]
      <4>1. [j \in 1..k |-> lo + j] \in [1..k -> Nat]
        BY <3>4
      <4>2. liveBuffer[c] \in Seq(Nat) /\ Len(liveBuffer[c]) = k
            /\ \A j \in 1..k : liveBuffer[c][j] = lo + j
        BY <3>4, <3>5, <4>1
      <4>3. [j \in 1..(k+1) |-> lo + j] \in [1..(k+1) -> Nat]
        BY <3>4
      <4>4. [j \in 1..(k+1) |-> lo + j] \in Seq(Nat) /\ Len([j \in 1..(k+1) |-> lo + j]) = k + 1
        BY <3>4, <4>3
      <4>5. Append(liveBuffer[c], e) \in Seq(Nat) /\ Len(Append(liveBuffer[c], e)) = k + 1
            /\ \A j \in 1..(k+1) : Append(liveBuffer[c], e)[j] = lo + j
        <5>1. e \in Nat
          BY <3>4
        <5> HIDE DEF e
        <5>2. Append(liveBuffer[c], e) \in Seq(Nat) /\ Len(Append(liveBuffer[c], e)) = k + 1
          BY <4>2, <5>1
        <5>3. ASSUME NEW j \in 1..k PROVE Append(liveBuffer[c], e)[j] = lo + j
          BY <3>4, <4>2, <5>1
        <5>4. Append(liveBuffer[c], e)[k+1] = lo + (k+1)
          BY <3>4, <4>2, <5>1
        <5>5. ASSUME NEW j \in 1..(k+1) PROVE j \in 1..k \/ j = k + 1
          BY <3>4
        <5>6. QED
          BY <5>2, <5>3, <5>4, <5>5
      <4>6. QED
        BY <4>4, <4>5, SeqEqual
    <3>7. liveBuffer'[c] = [j \in 1..(k+1) |-> lo + j]
      BY <1>2, <3>2, <3>6
    <3>8. Recent(c, k + 1)'
      BY <1>2, <3>4, <3>5, <3>7 DEF Recent
    <3>9. QED
      BY <3>4, <3>8
  <2>15. QED
    BY <1>2, <2>11, <2>12, <2>13, <2>14 DEF StreamOk
<1>7. QED
  BY <1>5, <1>6 DEF IndInv

\* Every step of the run and of the streams keeps the inductive invariant.
LEMMA NextIndInv == IndInv /\ [Next]_vars => IndInv'
<1> SUFFICES ASSUME IndInv, [Next]_vars PROVE IndInv'
  OBVIOUS
<1>1. CASE PersistTransition
  <2>1. PICK p \in Targets : phase' = p /\ log' = Append(log, p)
    BY <1>1 DEF PersistTransition
  <2>2. p \in RunPhase
    BY StreamTargetsAssumption
  <2>3. QED
    BY <1>1, <2>1, <2>2, PersistStep DEF PersistTransition
<1>2. CASE PersistOther
  <2>1. PICK p \in Targets \ TerminalRunPhases : log' = Append(log, p)
    BY <1>2 DEF PersistOther
  <2>2. p \in RunPhase /\ phase' \in RunPhase
    BY <1>2, StreamTargetsAssumption DEF PersistOther, IndInv, StreamTypeOK
  <2>3. QED
    BY <1>2, <2>1, <2>2, PersistStep DEF PersistOther
<1>3. CASE Publish
  BY <1>3, PublishStep
<1>4. ASSUME NEW c \in Clients, Subscribe(c) PROVE IndInv'
  BY <1>4, SubscribeStep
<1>5. ASSUME NEW c \in Clients, Continue(c) PROVE IndInv'
  BY <1>5, ListEventsStep, ListEventsFailsStep, ReplayStep, ReplayClosedStep DEF Continue
<1>6. ASSUME NEW c \in Clients, Disconnect(c) PROVE IndInv'
  BY <1>6, DisconnectStep
<1>7. CASE UNCHANGED vars
  <2>1. /\ UNCHANGED <<phase, log, published, pc, closed, listening, timer, snapshot,
                       liveBuffer, emitted, doneFrames>>
    BY <1>7 DEF vars
  <2>2. StreamTypeOK' /\ log \in Seq(RunPhase) /\ Len(log) \in Nat
    BY <2>1 DEF IndInv, StreamTypeOK
  <2>3. ASSUME NEW c \in Clients PROVE StreamOk(c)'
    BY <2>1, <2>2, Untouched
  <2>4. QED
    BY <2>2, <2>3 DEF IndInv
<1>8. QED
  BY <1>1, <1>2, <1>3, <1>4, <1>5, <1>6, <1>7 DEF Next

\* What clients see follows from the inductive invariant.
LEMMA IndInvImplies == IndInv => StreamIsFaithful /\ StreamEndsCleanly
<1> SUFFICES ASSUME IndInv PROVE StreamIsFaithful /\ StreamEndsCleanly
  OBVIOUS
<1>1. StreamTypeOK /\ Len(log) \in Nat
  BY DEF IndInv, StreamTypeOK
<1>2. ASSUME NEW c \in Clients
      PROVE  /\ emitted[c] = [i \in 1..Len(emitted[c]) |-> i]
             /\ liveBuffer[c] \in Seq(1..Len(log)) /\ emitted[c] \in Seq(1..Len(log))
             /\ pc[c] = "finished" /\ ~closed[c] => Len(emitted[c]) >= published
             /\ LET n == Len(emitted[c])
                    ended == n > 0 /\ Terminal(emitted[c][n])
                IN  /\ doneFrames[c] = IF ended THEN 1 ELSE 0
                    /\ ended => closed[c]
                    /\ \A i \in 1..(n-1) : ~Terminal(emitted[c][i])
             /\ closed[c] => ~listening[c] /\ ~timer[c]
  <2>1. StreamOk(c)
    BY DEF IndInv
  <2>2. PICK n \in 0..Len(log) : Sent(c, n)
    BY <2>1 DEF StreamOk
  <2>3. n \in Nat /\ emitted[c] = Upto(n)
    BY <1>1, <2>2 DEF Sent
  <2>4. Len(emitted[c]) = n /\ \A i \in 1..n : emitted[c][i] = i
    BY <2>3, UptoFacts
  <2>5. emitted[c] = [i \in 1..Len(emitted[c]) |-> i]
    BY <2>3, <2>4 DEF Upto
  <2>6. liveBuffer[c] \in Seq(1..Len(log)) /\ emitted[c] \in Seq(1..Len(log))
    <3>1. liveBuffer[c] \in Seq(Nat)
      BY <1>1 DEF StreamTypeOK
    <3>2. liveBuffer[c] \in [1..Len(liveBuffer[c]) -> 1..Len(log)] /\ Len(liveBuffer[c]) \in Nat
      BY <2>1, <3>1 DEF StreamOk
    <3>3. emitted[c] \in [1..n -> 1..Len(log)]
      BY <1>1, <2>3 DEF Upto
    <3>4. QED
      BY <2>3, <3>2, <3>3
  <2>7. n > 0 => emitted[c][n] = n
    BY <2>3, <2>4
  <2>8. \A i \in 1..(n-1) : emitted[c][i] = i
    BY <2>3, <2>4
  <2>9. /\ doneFrames[c] = IF n > 0 /\ Terminal(emitted[c][n]) THEN 1 ELSE 0
        /\ n > 0 /\ Terminal(emitted[c][n]) => closed[c]
        /\ \A i \in 1..(n-1) : ~Terminal(emitted[c][i])
    BY <2>2, <2>7, <2>8 DEF Sent
  <2>10. pc[c] = "finished" /\ ~closed[c] => n >= published
    BY <2>2 DEF Sent
  <2>11. closed[c] => ~listening[c] /\ ~timer[c]
    BY <2>1 DEF StreamOk, Holds
  <2>12. QED
    BY <2>4, <2>5, <2>6, <2>9, <2>10, <2>11
<1>3. TypeOK
  BY <1>1, <1>2 DEF StreamTypeOK, TypeOK
<1>4. EmittedIsPrefix /\ LiveIsCurrent
  BY <1>2 DEF EmittedIsPrefix, LiveIsCurrent
<1>5. DoneOnceAndLast
  BY <1>2 DEF DoneOnceAndLast
<1>6. NothingLeaks
  BY <1>2 DEF NothingLeaks
<1>7. QED
  BY <1>3, <1>4, <1>5, <1>6 DEF StreamIsFaithful, StreamEndsCleanly

------------------------------------------------------------------------------
(***************************************************************************)
(* For every number of clients, every interleaving of publishing, catching *)
(* up and leaving, and every length of the log: what a client was sent is  *)
(* the beginning of the log, without a gap, a double or a swap across the  *)
(* boundary between catch-up and live, and a live stream is never behind   *)
(* the broker (handleRunStream).                                           *)
(***************************************************************************)
THEOREM StreamFaithful == Spec => []StreamIsFaithful
<1>1. Spec => []IndInv
  BY InitIndInv, NextIndInv, PTL DEF Spec
<1>2. QED
  BY <1>1, IndInvImplies, PTL

(***************************************************************************)
(* A stream ends once: the done frame follows the first terminal event and *)
(* nothing follows it, and whichever of done, disconnect and read failure  *)
(* came first, no listener and no timer is left (handleRunStream's         *)
(* teardown).                                                              *)
(***************************************************************************)
THEOREM StreamCleanEnd == Spec => []StreamEndsCleanly
<1>1. Spec => []IndInv
  BY InitIndInv, NextIndInv, PTL DEF Spec
<1>2. QED
  BY <1>1, IndInvImplies, PTL

(***************************************************************************)
(* What the page shows.  While no click overtakes a request, what is under *)
(* way and what is shown belongs to the open conversation.                 *)
(***************************************************************************)
SendFields == {"stage", "conv", "finds", "from"}
LiveFields == {"run", "events", "cost", "source", "poll", "closed", "interrupt", "steer"}
Stored == {"post", "stream", "events", "find", "cost", "done"}
Here(r) == r \in SendIds /\ open # None /\ sends[r].conv = open

ChatKnown ==
    /\ session \in DOMAIN Sessions
    /\ known \subseteq Conversations /\ opening \subseteq Conversations /\ open \in Conversations \cup {None}
    /\ DOMAIN sends = SendIds /\ LiveFields \subseteq DOMAIN live
    /\ \A n \in SendIds : /\ SendFields \subseteq DOMAIN sends[n]
                          /\ sends[n].stage \in Stored => sends[n].conv \in Conversations
                          /\ sends[n].stage = "ensure" => sends[n].conv = None
    /\ \A i \in shown : i.send \in SendIds \cup {0}

\* A message that is not accepted yet is the only one, and the stream of the last is closed.
Unaccepted(n) == sends[n].stage \in {"ensure", "post"}
\* A run that has ended is still the one liveRun holds while its result is fetched.
Finishing(n) == sends[n].stage \in {"events", "find", "cost"}
HoldsOwn ==
    /\ live.cost \in {None, live.run} /\ polling \subseteq {live.run}
    /\ \A n \in SendIds : sends[n].from = n /\ (Finishing(n) => live.run = n)
    /\ \A n \in SendIds : Unaccepted(n) => polling = {} /\ \A m \in SendIds : ~Finishing(m)
LiveOK ==
    /\ HoldsOwn
    /\ sources \subseteq {live.source} \ {None} /\ polls \subseteq {live.poll} \ {None}
    /\ live.source # None => live.source = live.run /\ ~live.closed
    /\ live.poll # None => live.poll = live.run /\ ~live.closed
    /\ ~live.closed => Here(live.run)
    /\ \A n \in SendIds : Unaccepted(n) => live.closed
    /\ \A m, n \in SendIds : Unaccepted(m) /\ Unaccepted(n) => m = n

PageOK ==
    /\ opening \subseteq {open}
    /\ \A n \in SendIds : AwaitingAnswer(n) => sends[n].conv = open
    /\ \A r \in ({trace, cost} \ {None}) \cup polling : Here(r)
    /\ opening = {} => /\ \A i \in shown : ConversationOf(i) \in {None, open}
                       /\ crumb \in {None, open}

ChatInv == ChatKnown /\ (~mixed => LiveOK /\ PageOK)

\* The page starts empty.
LEMMA ChatInitial ==
  ASSUME ChatInit
  PROVE  ChatInv
<1>1. SendIds = 1 .. Sessions[session].sends
  BY DEF SendIds, Can
<1>2. /\ session \in DOMAIN Sessions /\ known \subseteq Conversations /\ opening = {} /\ open = None /\ shown = {}
      /\ sends = [n \in SendIds |-> [stage |-> "none", conv |-> None, finds |-> 0, from |-> n]]
      /\ live = Closed /\ sources = {} /\ polls = {} /\ polling = {} /\ crumb = None /\ trace = None /\ cost = None
  BY <1>1, SessionsAssumption DEF ChatInit
<1>3. ChatKnown
  BY <1>2 DEF ChatKnown, SendFields, LiveFields, Stored, Closed
<1>4. LiveOK
  BY <1>2 DEF LiveOK, HoldsOwn, Finishing, Unaccepted, Closed
<1>5. PageOK
  BY <1>2 DEF PageOK, AwaitingAnswer
<1>6. QED
  BY <1>3, <1>4, <1>5 DEF ChatInv

\* What is known of a message and of the live run, wherever it stands.
LEMMA ChatFacts ==
  ASSUME ChatInv
  PROVE  /\ ChatKnown /\ (~mixed => LiveOK /\ PageOK)
         /\ SendIds \subseteq Nat \ {0} /\ None \notin SendIds /\ None \notin Conversations
         /\ \A n \in SendIds : sends[n].stage # "ensure" /\ AwaitingAnswer(n) => sends[n].conv \in Conversations
<1>1. Can.sends \in Nat
  BY SessionsAssumption DEF ChatInv, ChatKnown, Can
<1>2. SendIds \subseteq Nat \ {0}
  BY <1>1 DEF SendIds
<1>3. QED
  BY <1>2, SessionsAssumption DEF ChatInv, ChatKnown, AwaitingAnswer, Stored

\* A send moves from one stage to another that is not before its acceptance.
LEMMA StageMoves ==
  ASSUME ChatInv, UNCHANGED session, NEW n \in SendIds, NEW stage, sends' = Stage(n, stage),
         stage \in Stored => sends[n].conv \in Conversations, stage # "ensure"
  PROVE  /\ DOMAIN sends' = SendIds' /\ SendIds' = SendIds
         /\ \A m \in SendIds : /\ SendFields \subseteq DOMAIN sends'[m] /\ sends'[m].conv = sends[m].conv
                               /\ sends'[m].from = sends[m].from
                               /\ sends'[m].stage = IF m = n THEN stage ELSE sends[m].stage
                               /\ sends'[m].stage \in Stored => sends'[m].conv \in Conversations
                               /\ sends'[m].stage = "ensure" => sends'[m].conv = None
<1>1. SendIds' = SendIds
  BY DEF SendIds, Can
<1>2. /\ DOMAIN sends = SendIds
      /\ \A m \in SendIds : /\ SendFields \subseteq DOMAIN sends[m]
                            /\ sends[m].stage \in Stored => sends[m].conv \in Conversations
                            /\ sends[m].stage = "ensure" => sends[m].conv = None
  BY DEF ChatInv, ChatKnown
<1>3. /\ DOMAIN sends' = SendIds
      /\ \A m \in SendIds : m # n => sends'[m] = sends[m]
      /\ sends'[n] = [sends[n] EXCEPT !.stage = stage]
  BY <1>2 DEF Stage
<1>4. SendFields \subseteq DOMAIN sends'[n] /\ sends'[n].conv = sends[n].conv /\ sends'[n].from = sends[n].from
      /\ sends'[n].stage = stage
  BY <1>2, <1>3 DEF SendFields
<1> DEFINE after == sends'
<1> HIDE DEF after
<1>5. ASSUME NEW m \in SendIds
      PROVE  /\ SendFields \subseteq DOMAIN after[m] /\ after[m].conv = sends[m].conv
             /\ after[m].from = sends[m].from
             /\ after[m].stage = IF m = n THEN stage ELSE sends[m].stage
             /\ after[m].stage \in Stored => after[m].conv \in Conversations
             /\ after[m].stage = "ensure" => after[m].conv = None
  <2>1. CASE m = n
    BY <1>4, <2>1 DEF after
  <2>2. CASE m # n
    BY <1>2, <1>3, <2>2 DEF after
  <2>3. QED
    BY <2>1, <2>2
<1>6. QED
  BY <1>1, <1>3, <1>5 DEF after

(***************************************************************************)
(* Steps that touch little of it.                                          *)
(***************************************************************************)
\* The same run stays live, nothing is shown that was not, and nothing starts to wait.
LEMMA StillChat ==
  ASSUME ChatInv, UNCHANGED <<session, open, shown, crumb, cost, known, opening, sends, sources, polls, mixed>>,
         LiveFields \subseteq DOMAIN live', live'.run = live.run, live'.source = live.source,
         live'.poll = live.poll, live'.closed = live.closed, live'.cost = live.cost,
         trace' = trace \/ (~live.closed /\ trace' = live.run),
         \A r \in polling' : r \in polling \/ (r \in polls /\ ~live.closed)
  PROVE  ChatInv'
<1>1. SendIds' = SendIds
  BY DEF SendIds, Can
<1>2. ChatKnown'
  BY <1>1 DEF ChatInv, ChatKnown
<1>3. ASSUME ~mixed PROVE LiveOK'
  <2>1. LiveOK
    BY <1>3 DEF ChatInv
  <2>2. \A r \in polling' : r = live.run /\ (r \in polling \/ ~live.closed)
    BY <2>1 DEF LiveOK, HoldsOwn
  <2>3. HoldsOwn'
    BY <1>1, <2>1, <2>2 DEF LiveOK, HoldsOwn, Finishing, Unaccepted
  <2>4. QED
    BY <1>1, <2>1, <2>3 DEF LiveOK, Unaccepted, Here
<1>4. ASSUME ~mixed PROVE PageOK'
  <2>1. LiveOK /\ PageOK
    BY <1>4 DEF ChatInv
  <2>2. \A r : Here(r) = Here(r)'
    BY <1>1 DEF Here
  <2>3. \A r \in ({trace', cost'} \ {None}) \cup polling' : Here(r)
    BY <2>1 DEF LiveOK, PageOK
  <2>4. \A n \in SendIds : AwaitingAnswer(n)' = AwaitingAnswer(n)
    BY <1>1 DEF AwaitingAnswer
  <2>5. \A i : ConversationOf(i)' = ConversationOf(i)
    BY DEF ConversationOf
  <2>6. QED
    BY <1>1, <2>1, <2>2, <2>3, <2>4, <2>5 DEF PageOK
<1>5. QED
  BY <1>2, <1>3, <1>4 DEF ChatInv

\* RunEventFrame, applyCostFrame, PollTick, the controls, the search, the server.
LEMMA QuietChat ==
  ASSUME ChatInv,
         \/ \E r \in SendIds : RunEventFrame(r) \/ PollTick(r) \/ ServerStep(r)
         \/ requestRunInterrupt \/ submitRunSteer \/ submitApprovalDecision
         \/ \E ok \in BOOLEAN : (\E a \in asked : ControlAnswer(a, ok)) \/ (\E s \in searches : SearchAnswer(s, ok))
         \/ runConversationSearch \/ \E q \in Queries : typeQuery(q)
  PROVE  ChatInv'
<1>1. LiveFields \subseteq DOMAIN live
  BY DEF ChatInv, ChatKnown
<1>2. ASSUME NEW r \in SendIds, RunEventFrame(r) PROVE ChatInv'
  <2> DEFINE l == live'
  <2>1. l \in {live, [live EXCEPT !.events = @ \cup EventsOf(r, delivered[r] + 1)]}
    BY <1>2 DEF RunEventFrame, Applied
  <2>2. LiveFields \subseteq DOMAIN l /\ l.run = live.run /\ l.source = live.source /\ l.poll = live.poll
        /\ l.closed = live.closed /\ l.cost = live.cost
    BY <1>1, <2>1 DEF LiveFields
  <2>3. /\ UNCHANGED <<session, open, shown, crumb, cost, known, opening, sends, sources, polls, mixed, polling>>
        /\ trace' = trace \/ (~live.closed /\ trace' = live.run)
    BY <1>2 DEF RunEventFrame
  <2>4. QED
    BY <2>2, <2>3, StillChat
<1>3. ASSUME NEW r \in SendIds, PollTick(r) \/ ServerStep(r) PROVE ChatInv'
  BY <1>1, <1>3, StillChat DEF PollTick, ServerStep, page, stream
<1>4. CASE requestRunInterrupt \/ submitRunSteer
  <2> DEFINE l == live'
  <2>1. l \in {[live EXCEPT !.interrupt = TRUE], [live EXCEPT !.steer = TRUE]}
    BY <1>4 DEF requestRunInterrupt, submitRunSteer
  <2>2. LiveFields \subseteq DOMAIN l /\ l.run = live.run /\ l.source = live.source /\ l.poll = live.poll
        /\ l.closed = live.closed /\ l.cost = live.cost
    BY <1>1, <2>1 DEF LiveFields
  <2>3. UNCHANGED <<session, page, known, opening, sends, sources, polls, mixed, polling>>
    BY <1>4 DEF requestRunInterrupt, submitRunSteer
  <2>4. QED
    BY <2>2, <2>3, StillChat DEF page
<1>5. ASSUME NEW ok \in BOOLEAN, NEW a \in asked, ControlAnswer(a, ok) PROVE ChatInv'
  <2> DEFINE l == live'
  <2>1. l \in {live, [live EXCEPT !.interrupt = FALSE], [live EXCEPT !.steer = FALSE]}
    BY <1>5 DEF ControlAnswer
  <2>2. LiveFields \subseteq DOMAIN l /\ l.run = live.run /\ l.source = live.source /\ l.poll = live.poll
        /\ l.closed = live.closed /\ l.cost = live.cost
    BY <1>1, <2>1 DEF LiveFields
  <2>3. UNCHANGED <<session, page, known, opening, sends, sources, polls, mixed, polling>>
    BY <1>5 DEF ControlAnswer
  <2>4. QED
    BY <2>2, <2>3, StillChat DEF page
<1>6. CASE submitApprovalDecision \/ runConversationSearch
  BY <1>1, <1>6, StillChat DEF submitApprovalDecision, runConversationSearch, page, stream
<1>7. ASSUME NEW q, typeQuery(q) PROVE ChatInv'
  BY <1>1, <1>7, StillChat DEF typeQuery, page, stream
<1>8. ASSUME NEW ok, NEW s, SearchAnswer(s, ok) PROVE ChatInv'
  BY <1>1, <1>8, StillChat DEF SearchAnswer, page, stream
<1>9. QED
  BY <1>2, <1>3, <1>4, <1>5, <1>6, <1>7, <1>8

(***************************************************************************)
(* Steps of a message.                                                     *)
(***************************************************************************)
\* A message goes on in its conversation and shows what belongs to it.
LEMMA SendMoves ==
  ASSUME ChatInv, UNCHANGED <<session, open, known, crumb, opening, mixed>>, DOMAIN sends' = SendIds,
         \A m \in SendIds :
            /\ SendFields \subseteq DOMAIN sends'[m] /\ sends'[m].conv = sends[m].conv
            /\ sends'[m].stage = sends[m].stage
               \/ (sends'[m].stage \notin {"ensure", "post"}
                     /\ (sends'[m].stage \in Stored => sends[m].stage \in Stored)
                     /\ (AwaitingAnswer(m) \/ m \in sources \cup polling)),
         \A m \in SendIds :
            /\ sends'[m].from = sends[m].from \/ (Finishing(m) /\ sends'[m].from \in {m, live.run})
            /\ Finishing(m)' => Finishing(m) \/ m \in sources \cup polling,
         \A i \in shown' : i \in shown \/ (i.send \in SendIds /\ AwaitingAnswer(i.send)),
         LiveFields \subseteq DOMAIN live', live'.run = live.run,
         live'.cost = live.cost \/ live'.cost \in sources,
         \/ /\ live'.closed = live.closed
            /\ live'.source = live.source /\ live'.poll = live.poll /\ UNCHANGED <<sources, polls>>
         \/ /\ live'.closed /\ live'.source = None /\ live'.poll = None
            /\ sources' = sources \ {live.source} /\ polls' = polls \ {live.poll},
         \A r \in {trace', cost'} \ {trace, cost, None} :
            \/ r \in sources \/ (r = live.run /\ ~live.closed)
            \/ \E m \in SendIds : Finishing(m) /\ r \in {m, sends[m].from, live.cost},
         polling' \subseteq polling
  PROVE  ChatInv'
<1>1. SendIds' = SendIds
  BY DEF SendIds, Can
<1>2. /\ ChatKnown /\ (~mixed => LiveOK /\ PageOK) /\ None \notin Conversations /\ SendIds \subseteq Nat \ {0}
      /\ \A n \in SendIds : sends[n].stage # "ensure" /\ AwaitingAnswer(n) => sends[n].conv \in Conversations
  BY ChatFacts
<1> DEFINE after == sends'
<1>3. /\ DOMAIN after = SendIds
      /\ \A m \in SendIds :
            /\ SendFields \subseteq DOMAIN after[m] /\ after[m].conv = sends[m].conv
            /\ after[m].stage = sends[m].stage
               \/ (after[m].stage \notin {"ensure", "post"}
                     /\ (after[m].stage \in Stored => sends[m].stage \in Stored)
                     /\ (AwaitingAnswer(m) \/ m \in sources \cup polling))
  OBVIOUS
<1> HIDE DEF after
<1>4. ChatKnown'
  <2>1. \A n \in SendIds : /\ after[n].stage \in Stored => after[n].conv \in Conversations
                           /\ after[n].stage = "ensure" => after[n].conv = None
    BY <1>2, <1>3 DEF ChatKnown
  <2>2. \A i \in shown' : i.send \in SendIds \cup {0}
    BY <1>2 DEF ChatKnown
  <2>3. QED
    BY <1>1, <1>2, <1>3, <2>1, <2>2 DEF ChatKnown, after
<1>5. ASSUME ~mixed PROVE LiveOK' /\ PageOK'
  <2>1. LiveOK /\ PageOK
    BY <1>2, <1>5
  <2>2. \A r \in sources \cup polling : Here(r)
    BY <2>1 DEF LiveOK, PageOK
  <2>3. \A r : Here(r) => Here(r)'
    BY <1>1, <1>3 DEF Here, after
  <2>4. \A n \in SendIds : Unaccepted(n)' => Unaccepted(n)
    BY <1>3 DEF Unaccepted, after
  <2>11. \A r \in sources \cup polling : r = live.run /\ \A n \in SendIds : ~Unaccepted(n)
    BY <2>1 DEF LiveOK, HoldsOwn
  <2>12. HoldsOwn'
    <3>1. \A m \in SendIds : Finishing(m)' => live.run = m
      BY <2>1, <2>11 DEF LiveOK, HoldsOwn
    <3>2. \A m \in SendIds : after[m].from = m
      BY <2>1 DEF LiveOK, HoldsOwn, after
    <3>3. live'.cost \in {None, live'.run} /\ polling' \subseteq {live'.run}
      BY <2>1, <2>11 DEF LiveOK, HoldsOwn
    <3>4. ASSUME NEW n \in SendIds, Unaccepted(n)' PROVE polling' = {} /\ \A m \in SendIds : ~Finishing(m)'
      BY <2>1, <2>4, <2>11, <3>4 DEF LiveOK, HoldsOwn
    <3>5. QED
      BY <1>1, <3>1, <3>2, <3>3, <3>4 DEF HoldsOwn, after
  <2>5. LiveOK'
    BY <1>1, <2>1, <2>3, <2>4, <2>12 DEF LiveOK
  <2>6. \A n \in SendIds : AwaitingAnswer(n)' => after[n].conv = open
    <3> SUFFICES ASSUME NEW n \in SendIds, AwaitingAnswer(n)' PROVE after[n].conv = open
      OBVIOUS
    <3>1. after[n].stage \in {"ensure", "post", "events", "find", "cost"}
      BY DEF AwaitingAnswer, after
    <3>2. AwaitingAnswer(n) \/ n \in sources \cup polling
      BY <1>3, <3>1 DEF AwaitingAnswer
    <3>3. QED
      BY <1>3, <2>1, <2>2, <3>2 DEF PageOK, Here
  <2>7. \A r \in ({trace', cost'} \ {None}) \cup polling' : Here(r)
    <3>1. \A m \in SendIds : Finishing(m) => Here(m) /\ sends[m].from = m /\ live.cost \in {None, m}
      BY <1>2, <2>1 DEF LiveOK, HoldsOwn, PageOK, Here, Finishing, AwaitingAnswer
    <3>2. ~live.closed => Here(live.run)
      BY <2>1 DEF LiveOK
    <3>3. QED
      BY <2>1, <2>2, <3>1, <3>2 DEF PageOK
  <2>8. ASSUME opening = {}, NEW i \in shown' PROVE ConversationOf(i)' \in {None, open}
    <3>1. i.send \in SendIds \cup {0}
      BY <1>2 DEF ChatKnown
    <3>2. ConversationOf(i)' = ConversationOf(i)
      BY <1>3, <3>1 DEF ConversationOf, after
    <3>3. CASE i \in shown
      BY <2>1, <2>8, <3>2, <3>3 DEF PageOK
    <3>4. CASE i.send \in SendIds /\ AwaitingAnswer(i.send)
      BY <1>2, <2>1, <3>2, <3>4 DEF PageOK, ConversationOf
    <3>5. QED
      BY <3>3, <3>4
  <2>9. PageOK'
    BY <1>1, <2>1, <2>3, <2>6, <2>7, <2>8 DEF PageOK, after
  <2>10. QED
    BY <2>5, <2>9
<1>6. QED
  BY <1>4, <1>5 DEF ChatInv

\* What tearing the live run down leaves of it.
LEMMA TornDown ==
  ASSUME ChatInv, teardownLiveRun
  PROVE  /\ LiveFields \subseteq DOMAIN live' /\ live'.closed /\ live'.source = None /\ live'.poll = None
         /\ live'.run = live.run /\ live'.cost = live.cost
         /\ sources' = sources \ {live.source} /\ polls' = polls \ {live.poll}
BY DEF teardownLiveRun, ChatInv, ChatKnown, LiveFields

\* The catch of sendMessage.
LEMMA FailsChat ==
  ASSUME ChatInv, NEW n \in SendIds, sends[n].stage \in {"ensure", "post"}, SendFails(n),
         UNCHANGED <<session, open, known, crumb, opening, mixed, trace, cost, polling>>
  PROVE  ChatInv'
<1>1. sends' = Stage(n, "failed") /\ teardownLiveRun /\ shown' = Without(shown, n) \cup {Item(n, "error")}
  BY DEF SendFails
<1>2. /\ DOMAIN sends' = SendIds
      /\ \A m \in SendIds : /\ SendFields \subseteq DOMAIN sends'[m] /\ sends'[m].conv = sends[m].conv
                            /\ sends'[m].from = sends[m].from
                            /\ sends'[m].stage = IF m = n THEN "failed" ELSE sends[m].stage
  BY <1>1, StageMoves DEF Stored
<1>3. AwaitingAnswer(n) /\ "failed" \notin Stored
  BY DEF AwaitingAnswer, Stored
<1>4. \A i \in shown' : i \in shown \/ (i.send \in SendIds /\ AwaitingAnswer(i.send))
  BY <1>1, <1>3 DEF Without, Item
<1>5. QED
  BY <1>1, <1>2, <1>3, <1>4, TornDown, SendMoves DEF Finishing

\* DoneFrame, FinalEvents, findAssistantMessage, finalizeRun.
LEMMA FinishChat ==
  ASSUME ChatInv, NEW n \in SendIds,
         \/ applyCostFrame(n) \/ DoneFrame(n)
         \/ \E ok \in BOOLEAN : FinalEvents(n, ok) \/ findAssistantMessage(n, ok) \/ finalizeRun(n, ok)
  PROVE  ChatInv'
<1>1. LiveFields \subseteq DOMAIN live /\ DOMAIN sends = SendIds
      /\ \A m \in SendIds : SendFields \subseteq DOMAIN sends[m]
  BY DEF ChatInv, ChatKnown
<1>2. CASE applyCostFrame(n)
  <2> DEFINE l == live'
  <2>1. /\ n \in sources /\ l = [live EXCEPT !.cost = n] /\ cost' = n
        /\ UNCHANGED <<session, open, shown, crumb, trace, known, opening, sends, sources, polls, polling, mixed>>
    BY <1>2 DEF applyCostFrame
  <2>2. LiveFields \subseteq DOMAIN l /\ l.run = live.run /\ l.source = live.source /\ l.poll = live.poll
        /\ l.closed = live.closed /\ l.cost = n
    BY <1>1, <2>1 DEF LiveFields
  <2>3. QED
    BY <1>1, <2>1, <2>2, SendMoves DEF Finishing
<1>3. CASE DoneFrame(n)
  <2>1. n \in sources /\ sends[n].stage = "stream" /\ sends' = Stage(n, "events") /\ teardownLiveRun
        /\ UNCHANGED <<session, page, known, opening, polling, mixed>>
    BY <1>3 DEF DoneFrame, finishTerminal
  <2>2. sends[n].conv \in Conversations /\ sends[n].stage \in Stored
    BY <2>1 DEF ChatInv, ChatKnown, Stored
  <2>3. /\ DOMAIN sends' = SendIds
        /\ \A m \in SendIds : /\ SendFields \subseteq DOMAIN sends'[m] /\ sends'[m].conv = sends[m].conv
                              /\ sends'[m].from = sends[m].from
                              /\ sends'[m].stage = IF m = n THEN "events" ELSE sends[m].stage
    BY <2>1, <2>2, StageMoves
  <2>4. QED
    BY <2>1, <2>2, <2>3, TornDown, SendMoves DEF page, Finishing
<1>4. ASSUME NEW ok \in BOOLEAN, FinalEvents(n, ok) PROVE ChatInv'
  <2>1. sends[n].stage = "events" /\ UNCHANGED <<session, page, known, opening, stream, mixed>>
    BY <1>4 DEF FinalEvents
  <2>2. PICK x \in {n, live.run} : sends' = [sends EXCEPT ![n].stage = "find", ![n].from = x]
    BY <1>4 DEF FinalEvents
  <2>3. sends[n].stage \in Stored /\ AwaitingAnswer(n) /\ Finishing(n)
    BY <2>1 DEF Stored, AwaitingAnswer, Finishing
  <2> DEFINE after == sends'
  <2>4. /\ DOMAIN after = SendIds
        /\ \A m \in SendIds : m # n => after[m] = sends[m]
        /\ after[n] = [sends[n] EXCEPT !.stage = "find", !.from = x]
    BY <1>1, <2>2
  <2> HIDE DEF after
  <2>5. SendFields \subseteq DOMAIN after[n] /\ after[n].conv = sends[n].conv /\ after[n].from = x
        /\ after[n].stage = "find"
    BY <1>1, <2>4 DEF SendFields
  <2>6. /\ DOMAIN after = SendIds
        /\ \A m \in SendIds : /\ SendFields \subseteq DOMAIN after[m] /\ after[m].conv = sends[m].conv
                              /\ after[m].from = sends[m].from \/ (m = n /\ after[m].from = x)
                              /\ after[m].stage = sends[m].stage \/ (m = n /\ after[m].stage = "find")
    BY <1>1, <2>4, <2>5
  <2>7. QED
    BY <1>1, <2>1, <2>3, <2>6, SendMoves DEF page, stream, Finishing, after
<1>5. ASSUME NEW ok \in BOOLEAN, finalizeRun(n, ok) PROVE ChatInv'
  <2>1. sends[n].stage = "cost" /\ sends' = Stage(n, "done") /\ cost' \in {n, live.cost, cost}
        /\ trace' = sends[n].from
        /\ UNCHANGED <<session, open, crumb, known, opening, stream, mixed>>
    BY <1>5 DEF finalizeRun
  <2>2. sends[n].conv \in Conversations /\ sends[n].stage \in Stored /\ AwaitingAnswer(n) /\ Finishing(n)
    BY <2>1 DEF ChatInv, ChatKnown, Stored, AwaitingAnswer, Finishing
  <2>3. /\ DOMAIN sends' = SendIds
        /\ \A m \in SendIds : /\ SendFields \subseteq DOMAIN sends'[m] /\ sends'[m].conv = sends[m].conv
                              /\ sends'[m].from = sends[m].from
                              /\ sends'[m].stage = IF m = n THEN "done" ELSE sends[m].stage
    BY <2>1, <2>2, StageMoves
  <2>4. \A i \in shown' : i \in shown \/ (i.send \in SendIds /\ AwaitingAnswer(i.send))
    <3> DEFINE what == IF sends[n].finds = 0 THEN "answer" ELSE "no answer"
    <3>1. shown' = shown \cup {Item(n, what)}
      BY <1>5 DEF finalizeRun
    <3> HIDE DEF what
    <3>2. Item(n, what).send = n
      BY DEF Item
    <3>3. QED
      BY <2>2, <3>1, <3>2
  <2>5. QED
    BY <1>1, <2>1, <2>2, <2>3, <2>4, SendMoves DEF page, stream, Finishing
<1>6. ASSUME NEW ok \in BOOLEAN, findAssistantMessage(n, ok) PROVE ChatInv'
  <2>1. sends[n].stage = "find" /\ shown' \subseteq shown
        /\ UNCHANGED <<session, open, crumb, trace, cost, known, opening, stream, mixed>>
    BY <1>6 DEF findAssistantMessage, Without
  <2>2. sends[n].stage \in Stored /\ AwaitingAnswer(n)
    BY <2>1 DEF Stored, AwaitingAnswer
  <2>3. PICK x : sends' \in {[sends EXCEPT ![n].stage = "cost", ![n].finds = x], [sends EXCEPT ![n].finds = x]}
    BY <1>6 DEF findAssistantMessage
  <2>4. /\ DOMAIN sends' = SendIds
        /\ \A m \in SendIds : m # n => sends'[m] = sends[m]
        /\ sends'[n] \in {[sends[n] EXCEPT !.stage = "cost", !.finds = x], [sends[n] EXCEPT !.finds = x]}
    BY <1>1, <2>3
  <2>5. SendFields \subseteq DOMAIN sends'[n] /\ sends'[n].conv = sends[n].conv
        /\ sends'[n].from = sends[n].from /\ sends'[n].stage \in {"cost", sends[n].stage}
    BY <1>1, <2>4 DEF SendFields
  <2> DEFINE after == sends'
  <2> HIDE DEF after
  <2>6. /\ DOMAIN after = SendIds
        /\ \A m \in SendIds : /\ SendFields \subseteq DOMAIN after[m] /\ after[m].conv = sends[m].conv
                              /\ after[m].from = sends[m].from
                              /\ after[m].stage = sends[m].stage \/ (m = n /\ after[m].stage = "cost")
    BY <1>1, <2>4, <2>5 DEF after
  <2>7. QED
    BY <1>1, <2>1, <2>2, <2>6, SendMoves DEF page, stream, after, Finishing
<1>7. QED
  BY <1>2, <1>3, <1>4, <1>5, <1>6

\* SourceFails: the same run goes on being polled.
LEMMA SourceFailsChat ==
  ASSUME ChatInv, NEW r \in SendIds, SourceFails(r)
  PROVE  ChatInv'
<1>1. /\ r \in sources /\ sources' = sources \ {r}
      /\ polls' = IF live.poll = None THEN polls \cup {r} ELSE polls
      /\ live' = [live EXCEPT !.source = None, !.poll = IF @ = None THEN r ELSE @]
      /\ UNCHANGED <<session, page, known, opening, sends, polling, mixed>>
  BY DEF SourceFails
<1>2. LiveFields \subseteq DOMAIN live /\ None \notin SendIds
  BY ChatFacts DEF ChatKnown
<1> DEFINE l == live'
<1>3. LiveFields \subseteq DOMAIN l /\ l.run = live.run /\ l.closed = live.closed /\ l.source = None
      /\ l.cost = live.cost
      /\ l.poll = IF live.poll = None THEN r ELSE live.poll
  BY <1>1, <1>2 DEF LiveFields
<1> HIDE DEF l
<1>4. SendIds' = SendIds
  BY <1>1 DEF SendIds, Can
<1>5. ChatKnown'
  BY <1>1, <1>3, <1>4 DEF ChatInv, ChatKnown, page, l
<1>6. ASSUME ~mixed PROVE LiveOK' /\ PageOK'
  <2>1. LiveOK /\ PageOK
    BY <1>6 DEF ChatInv
  <2>2. live.source = r /\ r = live.run /\ ~live.closed /\ sources' = {}
    BY <1>1, <2>1 DEF LiveOK
  <2>3. \A n : Here(n)' = Here(n)
    BY <1>1, <1>4 DEF Here, page
  <2>8. HoldsOwn'
    BY <1>1, <1>3, <1>4, <2>1 DEF LiveOK, HoldsOwn, Finishing, Unaccepted, l
  <2>4. LiveOK'
    BY <1>1, <1>2, <1>3, <1>4, <2>1, <2>2, <2>3, <2>8 DEF LiveOK, Unaccepted, l
  <2>5. (\A n \in SendIds : AwaitingAnswer(n)' = AwaitingAnswer(n)) /\ \A i : ConversationOf(i)' = ConversationOf(i)
    BY <1>1 DEF AwaitingAnswer, ConversationOf
  <2>6. PageOK'
    BY <1>1, <1>4, <2>1, <2>3, <2>5 DEF PageOK, page
  <2>7. QED
    BY <2>4, <2>6
<1>7. QED
  BY <1>1, <1>5, <1>6 DEF ChatInv

\* PollAnswer: the run ends, or goes on being polled.
LEMMA PollAnswerChat ==
  ASSUME ChatInv, NEW r \in SendIds, NEW ok \in BOOLEAN, PollAnswer(r, ok)
  PROVE  ChatInv'
<1> DEFINE l == live'
<1>1. /\ r \in polling /\ polling' = polling \ {r}
      /\ UNCHANGED <<session, open, shown, crumb, cost, known, opening, mixed>>
      /\ trace' = trace \/ (~live.closed /\ trace' = live.run)
  BY DEF PollAnswer
<1>2. LiveFields \subseteq DOMAIN live /\ DOMAIN sends = SendIds
      /\ \A m \in SendIds : SendFields \subseteq DOMAIN sends[m]
  BY DEF ChatInv, ChatKnown
<1>3. CASE ok /\ runs[r].ended /\ sends[r].stage = "stream"
  <2>1. /\ sends' = Stage(r, "events") /\ sources' = sources \ {live.source} /\ polls' = polls \ {live.poll}
        /\ l = [Applied(live, r, runs[r].events) EXCEPT !.source = None, !.poll = None, !.closed = TRUE,
                                                         !.interrupt = FALSE, !.steer = FALSE]
    BY <1>3 DEF PollAnswer
  <2>2. Applied(live, r, runs[r].events) \in {live, [live EXCEPT !.events = @ \cup EventsOf(r, runs[r].events)]}
    BY DEF Applied
  <2>3. LiveFields \subseteq DOMAIN Applied(live, r, runs[r].events)
    BY <1>2, <2>2 DEF LiveFields
  <2>4. LiveFields \subseteq DOMAIN l /\ l.closed /\ l.source = None /\ l.poll = None
        /\ l.run = live.run /\ l.cost = live.cost
    <3>1. Applied(live, r, runs[r].events).run = live.run /\ Applied(live, r, runs[r].events).cost = live.cost
      BY <1>2, <2>2 DEF LiveFields
    <3>2. QED
      BY <2>1, <2>3, <3>1 DEF LiveFields
  <2>5. sends[r].conv \in Conversations /\ sends[r].stage \in Stored
    BY <1>3 DEF ChatInv, ChatKnown, Stored
  <2>6. /\ DOMAIN sends' = SendIds
        /\ \A m \in SendIds : /\ SendFields \subseteq DOMAIN sends'[m] /\ sends'[m].conv = sends[m].conv
                              /\ sends'[m].from = sends[m].from
                              /\ sends'[m].stage = IF m = r THEN "events" ELSE sends[m].stage
    BY <1>1, <2>1, <2>5, StageMoves
  <2>7. QED
    BY <1>1, <2>1, <2>4, <2>5, <2>6, SendMoves DEF Finishing
<1>4. CASE ~(ok /\ runs[r].ended /\ sends[r].stage = "stream")
  <2>1. /\ l \in {live, [live EXCEPT !.events = @ \cup EventsOf(r, runs[r].events)]}
        /\ UNCHANGED <<sends, sources, polls>>
    BY <1>4 DEF PollAnswer, Applied
  <2>2. LiveFields \subseteq DOMAIN l /\ l.run = live.run /\ l.source = live.source /\ l.poll = live.poll
        /\ l.closed = live.closed /\ l.cost = live.cost
    BY <1>2, <2>1 DEF LiveFields
  <2>3. QED
    BY <1>1, <2>1, <2>2, StillChat
<1>5. QED
  BY <1>3, <1>4

\* PostAnswer: the accepted message is the live run, of the conversation it was sent in.
LEMMA PostAnswerChat ==
  ASSUME ChatInv, NEW n \in SendIds, NEW ok \in BOOLEAN, PostAnswer(n, ok)
  PROVE  ChatInv'
<1>1. sends[n].stage = "post" /\ UNCHANGED <<session, open, known, crumb, opening, polling, trace, mixed>>
  BY DEF PostAnswer
<1>2. CASE ~ok
  BY <1>1, <1>2, FailsChat DEF PostAnswer
<1>3. CASE ok
  <2> DEFINE l == live'
             after == sends'
             s == IF Can.eventSource THEN n ELSE None
             p == IF Can.eventSource THEN None ELSE n
  <2>1. /\ after = Stage(n, "stream") /\ cost' = None /\ UNCHANGED shown
        /\ l = [beginLiveRun(n) EXCEPT !.source = s, !.poll = p]
        /\ sources' = sources \cup ({s} \ {None}) /\ polls' = polls \cup ({p} \ {None})
    <3>1. n # None
      BY ChatFacts
    <3>2. QED
      BY <1>3, <3>1 DEF PostAnswer
  <2>2. {s, p} = {n, None}
    OBVIOUS
  <2>3. LiveFields \subseteq DOMAIN l /\ l.run = n /\ l.source = s /\ l.poll = p /\ ~l.closed /\ l.cost = None
    BY <2>1 DEF beginLiveRun, Closed, LiveFields
  <2>4. sends[n].conv \in Conversations /\ sends[n].stage \in Stored /\ AwaitingAnswer(n)
    BY <1>1 DEF ChatInv, ChatKnown, Stored, AwaitingAnswer
  <2>5. /\ DOMAIN after = SendIds /\ SendIds' = SendIds
        /\ \A m \in SendIds : /\ SendFields \subseteq DOMAIN after[m] /\ after[m].conv = sends[m].conv
                              /\ after[m].from = sends[m].from
                              /\ after[m].stage = IF m = n THEN "stream" ELSE sends[m].stage
                              /\ after[m].stage \in Stored => after[m].conv \in Conversations
                              /\ after[m].stage = "ensure" => after[m].conv = None
    BY <1>1, <2>1, <2>4, StageMoves
  <2> HIDE DEF l, after, s, p
  <2>6. ChatKnown'
    BY <1>1, <2>1, <2>3, <2>5 DEF ChatInv, ChatKnown, l, after
  <2>7. ASSUME ~mixed PROVE LiveOK' /\ PageOK'
    <3>1. LiveOK /\ PageOK /\ None \notin Conversations
      BY <2>7, ChatFacts
    <3>2. \A m \in SendIds : Unaccepted(m) => m = n
      BY <1>1, <3>1 DEF LiveOK, Unaccepted
    <3>3. sources = {} /\ polls = {}
      BY <1>1, <3>1 DEF LiveOK, Unaccepted
    <3>4. \A m \in SendIds : ~Unaccepted(m)'
      BY <2>5, <3>2 DEF Unaccepted, after
    <3>5. \A r : Here(r) => Here(r)'
      BY <1>1, <2>5 DEF Here, after
    <3>6. Here(n)
      BY <2>4, <3>1 DEF PageOK, Here
    <3>12. HoldsOwn'
      <4>1. Unaccepted(n)
        BY <1>1 DEF Unaccepted
      <4>2. \A m \in SendIds : sends[m].from = m /\ ~Finishing(m) /\ polling = {}
        BY <3>1, <4>1 DEF LiveOK, HoldsOwn
      <4>3. \A m \in SendIds : ~Finishing(m)'
        BY <2>5, <4>2 DEF Finishing, after
      <4>4. polling = {}
        BY <4>2
      <4>5. QED
        BY <1>1, <2>3, <2>5, <3>4, <4>2, <4>3, <4>4 DEF HoldsOwn, after, l
    <3>7. LiveOK'
      BY <2>1, <2>2, <2>3, <2>5, <3>3, <3>4, <3>5, <3>6, <3>12 DEF LiveOK, l
    <3>8. \A m \in SendIds : AwaitingAnswer(m)' => AwaitingAnswer(m)
      BY <2>5 DEF AwaitingAnswer, after
    <3>9. \A i \in shown : ConversationOf(i)' = ConversationOf(i)
      BY <2>5 DEF ConversationOf, after, ChatInv, ChatKnown
    <3>10. PageOK'
      BY <1>1, <2>1, <2>5, <3>1, <3>5, <3>8, <3>9 DEF PageOK, after
    <3>11. QED
      BY <3>7, <3>10
  <2>8. QED
    BY <1>1, <2>6, <2>7 DEF ChatInv
<1>4. QED
  BY <1>2, <1>3

\* ensureConversation: what an unnamed conversation shows goes into the one that is made for it.
LEMMA EnsureChat ==
  ASSUME ChatInv, NEW n \in SendIds, NEW ok \in BOOLEAN, ensureConversation(n, ok)
  PROVE  ChatInv'
<1> DEFINE new == CHOOSE c \in Conversations \ known : \A d \in Conversations \ known : c <= d
<1>1. /\ sends[n].stage = "ensure"
      /\ UNCHANGED <<session, crumb, opening, polling, trace, cost, mixed>>
  BY DEF ensureConversation
<1>2. CASE ~(ok /\ Conversations # known)
  <2>1. SendFails(n) /\ UNCHANGED <<known, open>>
    BY <1>2 DEF ensureConversation
  <2>2. QED
    BY <1>1, <2>1, FailsChat
<1>3. CASE ok /\ Conversations # known
  <2>1. known' = known \cup {new} /\ open' = new /\ UNCHANGED <<shown, live, sources, polls>>
        /\ sends' = [sends EXCEPT ![n].stage = "post", ![n].conv = new]
    BY <1>3 DEF ensureConversation
  <2>2. /\ ChatKnown /\ (~mixed => LiveOK /\ PageOK) /\ None \notin Conversations /\ SendIds \subseteq Nat \ {0}
    BY ChatFacts
  <2>3. new \in Conversations
    <3> DEFINE T == Conversations \ known
    <3>1. T \subseteq Nat /\ T # {}
      BY <1>3, <2>2, SessionsAssumption DEF ChatKnown
    <3> HIDE DEF T
    <3>2. \E c \in T : \A d \in T : ~(<<d, c>> \in OpToRel(<, Nat))
      BY <3>1, WFMin, NatLessThanWellFounded
    <3>3. \E c \in T : \A d \in T : c <= d
      <4>1. PICK c \in T : \A d \in T : ~(<<d, c>> \in OpToRel(<, Nat))
        BY <3>2
      <4>2. \A d \in T : ~(d < c)
        BY <3>1, <4>1 DEF OpToRel
      <4>3. QED
        BY <3>1, <4>2
    <3>4. QED
      BY <3>3 DEF T
  <2> HIDE DEF new
  <2>4. SendIds' = SendIds
    BY <1>1 DEF SendIds, Can
  <2> DEFINE after == sends'
  <2>5. /\ DOMAIN after = SendIds /\ \A m \in SendIds : m # n => after[m] = sends[m]
        /\ after[n] = [sends[n] EXCEPT !.stage = "post", !.conv = new]
    BY <2>1, <2>2 DEF ChatKnown
  <2>6. SendFields \subseteq DOMAIN after[n] /\ after[n].stage = "post" /\ after[n].conv = new
        /\ after[n].from = sends[n].from
    BY <2>2, <2>5 DEF ChatKnown, SendFields
  <2> HIDE DEF after
  <2>7. ChatKnown'
    <3>1. \A m \in SendIds : /\ SendFields \subseteq DOMAIN after[m]
                             /\ after[m].stage \in Stored => after[m].conv \in Conversations
                             /\ after[m].stage = "ensure" => after[m].conv = None
      <4> SUFFICES ASSUME NEW m \in SendIds
                   PROVE  /\ SendFields \subseteq DOMAIN after[m]
                          /\ after[m].stage \in Stored => after[m].conv \in Conversations
                          /\ after[m].stage = "ensure" => after[m].conv = None
        OBVIOUS
      <4>1. CASE m = n
        BY <2>3, <2>6, <4>1
      <4>2. CASE m # n
        BY <2>2, <2>5, <4>2 DEF ChatKnown
      <4>3. QED
        BY <4>1, <4>2
    <3>2. QED
      BY <1>1, <2>1, <2>2, <2>3, <2>4, <2>5, <3>1 DEF ChatKnown, after
  <2>8. ASSUME ~mixed PROVE LiveOK' /\ PageOK'
    <3>1. LiveOK /\ PageOK
      BY <2>2, <2>8
    <3>2. open = None /\ sends[n].conv = None /\ live.closed
      <4>1. AwaitingAnswer(n) /\ Unaccepted(n)
        BY <1>1 DEF AwaitingAnswer, Unaccepted
      <4>2. QED
        BY <1>1, <2>2, <3>1, <4>1 DEF ChatKnown, LiveOK, PageOK
    <3>3. opening = {}
      BY <2>2, <3>1, <3>2 DEF ChatKnown, PageOK
    <3>4. trace = None /\ cost = None /\ polling = {} /\ sources = {} /\ polls = {}
          /\ live.source = None /\ live.poll = None
      BY <3>1, <3>2 DEF LiveOK, PageOK, Here
    <3>5. \A m \in SendIds : Unaccepted(m)' => m = n
      <4> SUFFICES ASSUME NEW m \in SendIds, Unaccepted(m)', m # n PROVE FALSE
        OBVIOUS
      <4>1. Unaccepted(m) /\ Unaccepted(n)
        BY <1>1, <2>5 DEF Unaccepted, after
      <4>2. QED
        BY <3>1, <4>1 DEF LiveOK
    <3>6. \A m \in SendIds : AwaitingAnswer(m)' => after[m].conv = new
      <4> SUFFICES ASSUME NEW m \in SendIds, AwaitingAnswer(m)', m # n PROVE FALSE
        BY <2>6
      <4>1. AwaitingAnswer(m) /\ sends[m].conv = None
        BY <2>5, <3>1, <3>2 DEF AwaitingAnswer, PageOK, after
      <4>2. sends[m].stage = "ensure"
        BY <4>1, ChatFacts
      <4>3. Unaccepted(m) /\ Unaccepted(n)
        BY <1>1, <4>2 DEF Unaccepted
      <4>4. QED
        BY <3>1, <4>3 DEF LiveOK
    <3>12. HoldsOwn'
      <4>1. Unaccepted(n)
        BY <1>1 DEF Unaccepted
      <4>2. \A m \in SendIds : sends[m].from = m /\ ~Finishing(m)
        BY <3>1, <4>1 DEF LiveOK, HoldsOwn
      <4>3. \A m \in SendIds : after[m].from = m /\ ~Finishing(m)'
        BY <2>5, <2>6, <4>2 DEF Finishing, after
      <4>4. live.cost \in {None, live.run}
        BY <3>1 DEF LiveOK, HoldsOwn
      <4>5. QED
        BY <1>1, <2>1, <2>4, <3>4, <4>3, <4>4 DEF HoldsOwn, after
    <3>7. LiveOK'
      BY <2>1, <2>4, <3>2, <3>4, <3>5, <3>12 DEF LiveOK
    <3>8. \A i \in shown : ConversationOf(i)' \in {None, new}
      <4> SUFFICES ASSUME NEW i \in shown PROVE ConversationOf(i)' \in {None, new}
        OBVIOUS
      <4>1. ConversationOf(i) = None /\ i.send \in SendIds \cup {0}
        BY <2>2, <3>1, <3>2, <3>3 DEF ChatKnown, PageOK
      <4>2. CASE i.send = n
        BY <2>2, <2>6, <4>2 DEF ConversationOf, after
      <4>3. CASE i.send # n
        BY <2>5, <4>1, <4>3 DEF ConversationOf, after
      <4>4. QED
        BY <4>2, <4>3
    <3>9. crumb = None
      BY <3>1, <3>2, <3>3 DEF PageOK
    <3>10. PageOK'
      BY <1>1, <2>1, <2>4, <3>3, <3>4, <3>6, <3>8, <3>9 DEF PageOK, after
    <3>11. QED
      BY <3>7, <3>10
  <2>9. QED
    BY <1>1, <2>7, <2>8 DEF ChatInv
<1>4. QED
  BY <1>2, <1>3

(***************************************************************************)
(* Clicks that leave what is shown, and the answers they wait for.         *)
(***************************************************************************)
\* With the live run torn down and no request under way, the run of no other conversation is left.
LEMMA LeavesChat ==
  ASSUME ChatInv, startNewConversation \/ \E c \in Conversations : openConversation(c)
  PROVE  ChatInv'
<1>1. /\ teardownLiveRun /\ trace' = None /\ cost' = None /\ UNCHANGED <<session, known, sends, polling>>
      /\ mixed' = (mixed \/ Overtakes)
      /\ open' \in Conversations \cup {None} /\ opening' \in {opening, opening \cup {open'}}
      /\ opening' = opening => open' = None \/ open' \in opening
      /\ shown' \subseteq shown /\ (opening' = {} => shown' = {} /\ crumb' = None)
  BY DEF startNewConversation, openConversation, resetTrace, ChatInv, ChatKnown
<1>2. SendIds' = SendIds
  BY <1>1 DEF SendIds, Can
<1>3. /\ ChatKnown /\ (~mixed => LiveOK /\ PageOK) /\ None \notin Conversations
  BY ChatFacts
<1>4. /\ LiveFields \subseteq DOMAIN live' /\ live'.closed /\ live'.source = None /\ live'.poll = None
      /\ live'.run = live.run /\ live'.cost = live.cost
      /\ sources' = sources \ {live.source} /\ polls' = polls \ {live.poll}
  BY <1>1, TornDown
<1>5. opening' \subseteq Conversations
  BY <1>3 DEF startNewConversation, openConversation, ChatKnown
<1>6. ChatKnown'
  BY <1>1, <1>2, <1>3, <1>4, <1>5 DEF ChatKnown
<1>7. ASSUME ~mixed' PROVE LiveOK' /\ PageOK'
  <2>1. LiveOK /\ opening = {} /\ polling = {} /\ \A n \in SendIds : ~AwaitingAnswer(n)
    BY <1>1, <1>3, <1>7 DEF Overtakes
  <2>2. \A n \in SendIds : ~AwaitingAnswer(n)' /\ ~Unaccepted(n)'
    BY <1>1, <2>1 DEF AwaitingAnswer, Unaccepted
  <2>6. \A n \in SendIds : ~Finishing(n)'
    BY <2>2 DEF AwaitingAnswer, Finishing
  <2>7. HoldsOwn'
    BY <1>1, <1>2, <1>4, <2>1, <2>2, <2>6 DEF LiveOK, HoldsOwn
  <2>3. LiveOK'
    BY <1>2, <1>4, <2>1, <2>2, <2>7 DEF LiveOK
  <2>4. PageOK'
    BY <1>1, <1>2, <2>1, <2>2 DEF PageOK
  <2>5. QED
    BY <2>3, <2>4
<1>8. QED
  BY <1>6, <1>7 DEF ChatInv

\* The conversation that was asked for is shown; the lineage only of the open one.
LEMMA ConversationChat ==
  ASSUME ChatInv, NEW c \in Conversations,
         loadConversationLineage(c) \/ \E ok \in BOOLEAN : ConversationAnswer(c, ok)
  PROVE  ChatInv'
<1>1. /\ UNCHANGED <<session, open, known, sends, stream, trace, cost>> /\ opening' \subseteq opening
      /\ (mixed => mixed')
  BY DEF loadConversationLineage, ConversationAnswer
<1>2. SendIds' = SendIds
  BY <1>1 DEF SendIds, Can
<1>3. \A i \in shown' : i \in shown \/ (i.send = 0 /\ i.conv = c /\ c \in opening)
  BY DEF loadConversationLineage, ConversationAnswer
<1>4. ChatKnown'
  BY <1>1, <1>2, <1>3 DEF ChatInv, ChatKnown, stream
<1>5. ASSUME ~mixed' PROVE LiveOK' /\ PageOK'
  <2>1. LiveOK /\ PageOK
    BY <1>1, <1>5 DEF ChatInv
  <2>2. \A r : Here(r)' = Here(r)
    BY <1>1, <1>2 DEF Here
  <2>3. /\ \A n \in SendIds : AwaitingAnswer(n)' = AwaitingAnswer(n) /\ Unaccepted(n)' = Unaccepted(n)
        /\ \A i : ConversationOf(i)' = ConversationOf(i)
    BY <1>1 DEF AwaitingAnswer, Unaccepted, ConversationOf
  <2>8. \A n \in SendIds : Finishing(n)' = Finishing(n)
    BY <1>1 DEF Finishing
  <2>9. HoldsOwn'
    BY <1>1, <1>2, <2>1, <2>3, <2>8 DEF LiveOK, HoldsOwn, stream
  <2>4. LiveOK'
    BY <1>1, <1>2, <2>1, <2>2, <2>3, <2>9 DEF LiveOK, stream
  <2>5. ASSUME opening' = {} PROVE (\A i \in shown' : ConversationOf(i)' \in {None, open}) /\ crumb' \in {None, open}
    <3>1. CASE loadConversationLineage(c)
      BY <2>1, <2>3, <2>5, <3>1 DEF PageOK, loadConversationLineage
    <3>2. CASE \E ok \in BOOLEAN : ConversationAnswer(c, ok)
      <4>1. c \in opening /\ crumb' = c /\ shown' = {[conv |-> c, send |-> 0, what |-> "history"]}
        BY <1>5, <3>2 DEF ConversationAnswer
      <4>2. c = open
        BY <2>1, <4>1 DEF PageOK
      <4>3. QED
        BY <2>3, <4>1, <4>2 DEF ConversationOf
    <3>3. QED
      BY <3>1, <3>2
  <2>6. PageOK'
    BY <1>1, <1>2, <2>1, <2>2, <2>3, <2>5 DEF PageOK, stream
  <2>7. QED
    BY <2>4, <2>6
<1>6. QED
  BY <1>4, <1>5 DEF ChatInv

\* A message is sent in the open conversation, or in none yet.
LEMMA SendChat ==
  ASSUME ChatInv, NEW n \in SendIds, sendMessage(n)
  PROVE  ChatInv'
<1> DEFINE after == sends'
           stage == IF open = None THEN "ensure" ELSE "post"
<1>1. /\ teardownLiveRun /\ cost' = None
      /\ shown' = shown \cup {Item(n, "user"), Item(n, "pending")}
      /\ after = [sends EXCEPT ![n] = [stage |-> stage, conv |-> open, finds |-> 0, from |-> n]]
      /\ mixed' = (mixed \/ Overtakes)
      /\ UNCHANGED <<session, open, known, crumb, opening, polling, trace>>
  BY DEF sendMessage
<1>2. SendIds' = SendIds
  BY <1>1 DEF SendIds, Can
<1>3. /\ ChatKnown /\ (~mixed => LiveOK /\ PageOK) /\ None \notin Conversations /\ SendIds \subseteq Nat \ {0}
  BY ChatFacts
<1>4. /\ LiveFields \subseteq DOMAIN live' /\ live'.closed /\ live'.source = None /\ live'.poll = None
      /\ live'.run = live.run /\ live'.cost = live.cost
      /\ sources' = sources \ {live.source} /\ polls' = polls \ {live.poll}
  BY <1>1, TornDown
<1>5. stage = (IF open = None THEN "ensure" ELSE "post")
  OBVIOUS
<1> HIDE DEF stage
<1>6. /\ DOMAIN after = SendIds /\ \A m \in SendIds : m # n => after[m] = sends[m]
      /\ after[n] = [stage |-> stage, conv |-> open, finds |-> 0, from |-> n]
  BY <1>1, <1>3 DEF ChatKnown
<1>7. SendFields \subseteq DOMAIN after[n] /\ after[n].stage = stage /\ after[n].conv = open /\ after[n].from = n
  BY <1>6 DEF SendFields
<1> HIDE DEF after
<1>8. \A i \in shown' : i \in shown \/ i.send = n
  BY <1>1 DEF Item
<1>9. ChatKnown'
  <2>1. \A m \in SendIds : /\ SendFields \subseteq DOMAIN after[m]
                           /\ after[m].stage \in Stored => after[m].conv \in Conversations
                           /\ after[m].stage = "ensure" => after[m].conv = None
    <3> SUFFICES ASSUME NEW m \in SendIds
                 PROVE  /\ SendFields \subseteq DOMAIN after[m]
                        /\ after[m].stage \in Stored => after[m].conv \in Conversations
                        /\ after[m].stage = "ensure" => after[m].conv = None
      OBVIOUS
    <3>1. CASE m = n
      BY <1>3, <1>5, <1>7, <3>1 DEF ChatKnown, Stored
    <3>2. CASE m # n
      BY <1>3, <1>6, <3>2 DEF ChatKnown
    <3>3. QED
      BY <3>1, <3>2
  <2>2. \A i \in shown' : i.send \in SendIds \cup {0}
    BY <1>3, <1>8 DEF ChatKnown
  <2>3. QED
    BY <1>1, <1>2, <1>3, <1>4, <1>6, <2>1, <2>2 DEF ChatKnown, after
<1>10. ASSUME ~mixed' PROVE LiveOK' /\ PageOK'
  <2>1. LiveOK /\ PageOK /\ opening = {} /\ polling = {} /\ \A m \in SendIds : ~AwaitingAnswer(m)
    BY <1>1, <1>3, <1>10 DEF Overtakes
  <2>2. \A m \in SendIds : (AwaitingAnswer(m)' \/ Unaccepted(m)') => m = n
    BY <1>6, <2>1 DEF AwaitingAnswer, Unaccepted, after
  <2>8. \A m \in SendIds : ~Finishing(m)'
    <3>1. stage \notin {"events", "find", "cost"}
      BY <1>5
    <3>2. \A m \in SendIds : after[m].stage \notin {"events", "find", "cost"}
      BY <1>6, <1>7, <2>1, <3>1 DEF AwaitingAnswer
    <3>3. QED
      BY <3>2 DEF Finishing, after
  <2>9. HoldsOwn'
    <3>1. \A m \in SendIds : after[m].from = m
      BY <1>6, <1>7, <2>1 DEF LiveOK, HoldsOwn
    <3>2. QED
      BY <1>1, <1>2, <1>4, <2>1, <2>8, <3>1 DEF LiveOK, HoldsOwn, after
  <2>3. LiveOK'
    BY <1>2, <1>4, <2>1, <2>2, <2>9 DEF LiveOK
  <2>4. \A r : Here(r) => Here(r)'
    BY <1>1, <1>2, <1>6, <1>7 DEF Here, after
  <2>5. \A i \in shown' : ConversationOf(i)' \in {None, open}
    <3> SUFFICES ASSUME NEW i \in shown' PROVE ConversationOf(i)' \in {None, open}
      OBVIOUS
    <3>1. CASE i.send = n
      BY <1>3, <1>7, <3>1 DEF ConversationOf, after
    <3>2. CASE i.send # n
      <4>1. i \in shown /\ i.send \in SendIds \cup {0}
        BY <1>3, <1>8, <3>2 DEF ChatKnown
      <4>2. ConversationOf(i)' = ConversationOf(i)
        BY <1>6, <3>2, <4>1 DEF ConversationOf, after
      <4>3. QED
        BY <2>1, <4>1, <4>2 DEF PageOK
    <3>3. QED
      BY <3>1, <3>2
  <2>6. PageOK'
    BY <1>1, <1>2, <1>7, <2>1, <2>2, <2>4, <2>5 DEF PageOK, after
  <2>7. QED
    BY <2>3, <2>6
<1>11. QED
  BY <1>9, <1>10 DEF ChatInv

\* A step of the chat, or of the panels, keeps the invariant.
LEMMA ChatKeeps ==
  ASSUME ChatInv, [ClientNext]_<<chatVars, panelVars>>
  PROVE  ChatInv'
<1>1. CASE UserStep
  <2>1. ASSUME NEW n \in SendIds, sendMessage(n) PROVE ChatInv'
    BY <2>1, SendChat
  <2>2. CASE startNewConversation \/ \E c \in Conversations : openConversation(c)
    BY <2>2, LeavesChat
  <2>3. CASE \/ requestRunInterrupt \/ submitRunSteer \/ submitApprovalDecision
             \/ \E q \in Queries : typeQuery(q)
    BY <2>3, QuietChat
  <2>4. QED
    BY <1>1, <2>1, <2>2, <2>3 DEF UserStep
<1>2. CASE AnswerStep
  <2>1. ASSUME NEW ok \in BOOLEAN, NEW n \in SendIds,
               \/ ensureConversation(n, ok) \/ PostAnswer(n, ok) \/ PollAnswer(n, ok)
               \/ FinalEvents(n, ok) \/ findAssistantMessage(n, ok) \/ finalizeRun(n, ok)
        PROVE  ChatInv'
    BY <2>1, EnsureChat, PostAnswerChat, PollAnswerChat, FinishChat
  <2>2. ASSUME NEW c \in Conversations, loadConversationLineage(c) \/ \E ok \in BOOLEAN : ConversationAnswer(c, ok)
        PROVE  ChatInv'
    BY <2>2, ConversationChat
  <2>3. CASE \/ \E ok \in BOOLEAN : (\E a \in asked : ControlAnswer(a, ok))
                                      \/ (\E s \in searches : SearchAnswer(s, ok))
             \/ runConversationSearch \/ \E n \in SendIds : RunEventFrame(n) \/ PollTick(n) \/ ServerStep(n)
    BY <2>3, QuietChat
  <2>4. ASSUME NEW n \in SendIds, applyCostFrame(n) \/ DoneFrame(n)
        PROVE  ChatInv'
    BY <2>4, FinishChat
  <2>5. ASSUME NEW n \in SendIds, SourceFails(n) PROVE ChatInv'
    BY <2>5, SourceFailsChat
  <2>6. QED
    BY <1>2, <2>1, <2>2, <2>3, <2>4, <2>5 DEF AnswerStep
<1>3. CASE UNCHANGED chatVars
  <2>1. /\ UNCHANGED <<session, open, shown, crumb, cost, known, opening, sends, sources, polls, mixed,
                       polling, trace>>
        /\ UNCHANGED live
    BY <1>3 DEF chatVars, page, stream
  <2>2. LiveFields \subseteq DOMAIN live
    BY DEF ChatInv, ChatKnown
  <2>3. QED
    BY <2>1, <2>2, StillChat
<1>4. QED
  BY <1>1, <1>2, <1>3 DEF ClientNext, ChatNext

\* The page shows what belongs to the open conversation as long as no click overtakes a request,
\* for every user, every number of messages and of conversations (sendMessage, openConversation).
THEOREM ShownBelongsToOpenCorrect == ClientSpec => []ShownBelongsToOpen
<1>1. ClientInit => ChatInv
  BY ChatInitial DEF ClientInit
<1>2. ChatInv /\ [ClientNext]_<<chatVars, panelVars>> => ChatInv'
  BY ChatKeeps
<1>3. ChatInv => ShownBelongsToOpen
  BY DEF ChatInv, LiveOK, PageOK, Here, ShownBelongsToOpen
<1>4. QED
  BY <1>1, <1>2, <1>3, PTL DEF ClientSpec

(***************************************************************************)
(* What the panels show.  While handlers do not overlap and no call fails, *)
(* what is not shown as it is, is about to be.                             *)
(***************************************************************************)
CallFields == {"handler", "panel", "program", "ui", "asked", "phase", "got", "ok"}
PickFields == {"select", "manual", "verified", "warned", "ui"}
Instructions ==
    [op : {"put", "get", "query"}, res : SUBSET Resources, shows : SUBSET Resources,
     onError : {"end", "clear", "clearAll", "keep"}]

\* What it changes of its panel, a program shows at once or later.
Reloads(program, p) ==
    \A i \in 1 .. Len(program) : \A r \in program[i].res \cap Loads(p) :
        \E j \in i .. Len(program) : r \in program[j].shows
Shows(program, r) == \E i \in 1 .. Len(program) : r \in program[i].shows
ProgramOK(program, p) == program \in Seq(Instructions) /\ program # << >> /\ Reloads(program, p)

CallOK(c) == CallFields \subseteq DOMAIN c /\ ProgramOK(c.program, c.panel)
CallIsCurrent(c) ==
    /\ c.ok /\ c.asked = chosen
    /\ c.phase = "answered" => \A r \in Head(c.program).shows : c.got[r] = Current(r)

\* The cards remember as verified what was probed.
PickerOK ==
    /\ visit \in DOMAIN Visits /\ PickFields \subseteq DOMAIN picker
    /\ {picker.select, picker.manual} \subseteq Has.models \cup {Nothing}
    /\ picker.verified \in probed \cup {Nothing}
    /\ savedVerified \subseteq probed

CallsOK ==
    /\ DOMAIN display = Resources /\ DOMAIN chosen = ByChoice /\ DOMAIN calls = Slots
    /\ \A k \in UnderWay : CallOK(calls[k])
    /\ fresh \subseteq DOMAIN Panels

AboutToShow(p, r) == display[r] = Current(r) \/ \E k \in UnderWay : Shows(calls[k].program, r)
PanelsOK ==
    /\ \A j, k \in UnderWay : j = k
    /\ \A k \in UnderWay : CallIsCurrent(calls[k])
    /\ \A p \in fresh : \A r \in Loads(p) : AboutToShow(p, r)

PanelInv == PickerOK /\ CallsOK /\ (~disturbed => PanelsOK)

(***************************************************************************)
(* The programs of the handlers.                                           *)
(***************************************************************************)
\* What short programs are made of.
LEMMA Joined ==
  ASSUME NEW a, NEW b, NEW c
  PROVE  <<a>> \o <<b>> = <<a, b>> /\ <<a>> \o <<b, c>> = <<a, b, c>> /\ <<a, b>> \o <<c>> = <<a, b, c>>
<1> DEFINE S == {a, b, c}
<1>1. a \in S /\ b \in S /\ c \in S
  OBVIOUS
<1> HIDE DEF S
<1>2. <<a>> \in Seq(S) /\ <<a, b>> \in Seq(S)
  BY <1>1
<1>3. <<a>> \o <<b>> = Append(<<a>>, b) /\ <<a>> \o <<b, c>> = Append(Append(<<a>>, b), c)
  BY <1>1, <1>2
<1>4. <<a, b>> \o <<c>> = Append(<<a, b>>, c)
  BY <1>1, <1>2
<1>5. Append(<<a>>, b) = <<a, b>>
  <2> DEFINE s == Append(<<a>>, b)
             t == <<a, b>>
  <2>1. /\ s \in Seq(S) /\ Len(s) = 2 /\ s[1] = a /\ s[2] = b
        /\ t \in Seq(S) /\ Len(t) = 2 /\ t[1] = a /\ t[2] = b
    BY <1>1, <1>2
  <2> HIDE DEF s, t
  <2>2. \A i \in 1 .. 2 : s[i] = t[i]
    BY <2>1
  <2>3. s = t
    BY <2>1, <2>2, SeqEqual
  <2>4. QED
    BY <2>3 DEF s, t
<1>6. Append(<<a, b>>, c) = <<a, b, c>>
  <2> DEFINE s == Append(<<a, b>>, c)
             t == <<a, b, c>>
  <2>1. /\ s \in Seq(S) /\ Len(s) = 3 /\ s[1] = a /\ s[2] = b /\ s[3] = c
        /\ t \in Seq(S) /\ Len(t) = 3 /\ t[1] = a /\ t[2] = b /\ t[3] = c
    BY <1>1, <1>2
  <2> HIDE DEF s, t
  <2>2. \A i \in 1 .. 3 : s[i] = t[i]
    BY <2>1
  <2>3. s = t
    BY <2>1, <2>2, SeqEqual
  <2>4. QED
    BY <2>3 DEF s, t
<1>7. QED
  BY <1>3, <1>4, <1>5, <1>6

\* A change, and what its answer shows at once.
LEMMA PutIs ==
  ASSUME NEW rs \in SUBSET Resources, NEW shows \in SUBSET Resources
  PROVE  PutShow(rs, shows) \in Instructions /\ PutShow(rs, shows).res = rs /\ PutShow(rs, shows).shows = shows
BY DEF PutShow, Instructions

\* A load shows one resource and changes none.
LEMMA GetIs ==
  ASSUME NEW r \in Resources, NEW e \in {"end", "clear", "clearAll", "keep"}
  PROVE  Get(r, e) \in Instructions /\ Get(r, e).res = {} /\ Get(r, e).shows = {r}
BY DEF Get, Instructions

\* A query changes and shows nothing.
LEMMA QueryIs == Query \in Instructions /\ Query.res = {} /\ Query.shows = {}
BY DEF Query, Instructions

\* A program of one step is in order if that step shows what it changes of the panel.
LEMMA OneStep ==
  ASSUME NEW p, NEW a \in Instructions,
         a.res \cap Loads(p) \subseteq a.shows
  PROVE  ProgramOK(<<a>>, p)
<1> DEFINE s == <<a>>
           L == Loads(p)
<1>1. s \in Seq(Instructions) /\ s # << >> /\ Len(s) = 1 /\ s[1] = a
  OBVIOUS
<1>2. a.res \cap L \subseteq a.shows
  OBVIOUS
<1> HIDE DEF s, L
<1>3. \A r \in s[1].res \cap L : \E j \in 1 .. 1 : r \in s[j].shows
  BY <1>1, <1>2
<1>4. \A i \in 1 .. 1 : i = 1
  OBVIOUS
<1>5. QED
  BY <1>1, <1>3, <1>4 DEF ProgramOK, Reloads, s, L

\* One of two steps, if each change is shown by its own step or by the next.
LEMMA TwoSteps ==
  ASSUME NEW p, NEW a \in Instructions, NEW b \in Instructions,
         a.res \cap Loads(p) \subseteq a.shows \cup b.shows, b.res \cap Loads(p) \subseteq b.shows
  PROVE  ProgramOK(<<a, b>>, p)
<1> DEFINE s == <<a, b>>
           L == Loads(p)
<1>1. s \in Seq(Instructions) /\ s # << >> /\ Len(s) = 2 /\ s[1] = a /\ s[2] = b
  OBVIOUS
<1>2. a.res \cap L \subseteq a.shows \cup b.shows /\ b.res \cap L \subseteq b.shows
  OBVIOUS
<1> HIDE DEF s, L
<1>3. \A r \in s[1].res \cap L : \E j \in 1 .. 2 : r \in s[j].shows
  BY <1>1, <1>2
<1>4. \A r \in s[2].res \cap L : \E j \in 2 .. 2 : r \in s[j].shows
  BY <1>1, <1>2
<1>5. \A i \in 1 .. 2 : i = 1 \/ i = 2
  OBVIOUS
<1>6. QED
  BY <1>1, <1>3, <1>4, <1>5 DEF ProgramOK, Reloads, s, L

\* One of three steps likewise.
LEMMA ThreeSteps ==
  ASSUME NEW p, NEW a \in Instructions, NEW b \in Instructions, NEW c \in Instructions,
         a.res \cap Loads(p) \subseteq a.shows \cup b.shows \cup c.shows,
         b.res \cap Loads(p) \subseteq b.shows \cup c.shows, c.res \cap Loads(p) \subseteq c.shows
  PROVE  ProgramOK(<<a, b, c>>, p)
<1> DEFINE s == <<a, b, c>>
           L == Loads(p)
<1>1. s \in Seq(Instructions) /\ s # << >> /\ Len(s) = 3 /\ s[1] = a /\ s[2] = b /\ s[3] = c
  OBVIOUS
<1>2. /\ a.res \cap L \subseteq a.shows \cup b.shows \cup c.shows /\ b.res \cap L \subseteq b.shows \cup c.shows
      /\ c.res \cap L \subseteq c.shows
  OBVIOUS
<1> HIDE DEF s, L
<1>3. \A r \in s[1].res \cap L : \E j \in 1 .. 3 : r \in s[j].shows
  BY <1>1, <1>2
<1>4. \A r \in s[2].res \cap L : \E j \in 2 .. 3 : r \in s[j].shows
  BY <1>1, <1>2
<1>5. \A r \in s[3].res \cap L : \E j \in 3 .. 3 : r \in s[j].shows
  BY <1>1, <1>2
<1>6. \A i \in 1 .. 3 : i = 1 \/ i = 2 \/ i = 3
  OBVIOUS
<1>7. QED
  BY <1>1, <1>3, <1>4, <1>5, <1>6 DEF ProgramOK, Reloads, s, L

\* The steps that load a panel.
LEMMA PanelsLoad ==
  /\ Panels["providers"].load = <<Get("providers", "clear")>> /\ Panels["models"].load = <<Get("models", "clear")>>
  /\ Panels["memory"].load = <<Get("memory", "clearAll"), Get("memoryRoles", "clear")>>
  /\ Panels["modules"].load = <<Get("modules", "end")>> /\ Panels["browser"].load = <<Get("entries", "clear")>>
  /\ Panels["safety"].load = <<Get("safety", "clear")>> /\ Panels["test"].load = << >>
  /\ Panels["wizard"].load = << >> /\ Panels["shell"].load = <<Get("readiness", "keep")>>
  /\ Panels["templates"].load = <<Get("templates", "end"), Get("preview", "keep")>>
<1>1. Panels["templates"].load = <<Get("templates", "end"), Get("preview", "keep")>>
  BY Joined DEF Panels, Panel, loadTemplates, previewTemplateById
<1>2. QED
  BY <1>1 DEF Panels, Panel, loadProviderConfig, loadOrchestrationModelConfig, loadMemoryProviderConfig,
              loadModuleManager, loadMemoryBrowser, loadWorkspaceSafety, loadProductReadiness

\* What each panel loads.
LEMMA LoadsAre ==
  /\ DOMAIN Panels = {"providers", "models", "memory", "modules", "templates", "browser", "safety", "test", "wizard",
                      "shell"}
  /\ Loads("providers") = {"providers"} /\ Loads("models") = {"models"} /\ Loads("memory") = {"memory", "memoryRoles"}
  /\ Loads("modules") = {"modules"} /\ Loads("templates") = {"templates", "preview"} /\ Loads("browser") = {"entries"}
  /\ Loads("safety") = {"safety"} /\ Loads("test") = {} /\ Loads("wizard") = {} /\ Loads("shell") = {"readiness"}
<1>1. ASSUME NEW p, NEW a, NEW b
      PROVE  /\ Panels[p].load = <<a>> => Loads(p) = a.shows
             /\ Panels[p].load = <<a, b>> => Loads(p) = a.shows \cup b.shows
             /\ Panels[p].load = << >> => Loads(p) = {}
  <2>1. CASE Panels[p].load = <<a>>
    <3>1. DOMAIN <<a>> = {1} /\ <<a>>[1] = a /\ <<a>> # <<a, b>> /\ <<a>> # << >>
      OBVIOUS
    <3>2. QED
      BY <2>1, <3>1 DEF Loads
  <2>2. CASE Panels[p].load = <<a, b>>
    <3>1. DOMAIN <<a, b>> = {1, 2} /\ <<a, b>>[1] = a /\ <<a, b>>[2] = b /\ <<a>> # <<a, b>> /\ <<a, b>> # << >>
      OBVIOUS
    <3>2. QED
      BY <2>2, <3>1 DEF Loads
  <2>3. CASE Panels[p].load = << >>
    <3>1. DOMAIN << >> = {} /\ << >> # <<a>> /\ << >> # <<a, b>>
      OBVIOUS
    <3>2. QED
      BY <2>3, <3>1 DEF Loads
  <2>4. QED
    BY <2>1, <2>2, <2>3
<1>2. \A r, e : Get(r, e).shows = {r}
  BY DEF Get
<1>3. /\ Loads("providers") = {"providers"} /\ Loads("models") = {"models"} /\ Loads("modules") = {"modules"}
      /\ Loads("browser") = {"entries"} /\ Loads("safety") = {"safety"} /\ Loads("shell") = {"readiness"}
  BY <1>1, <1>2, PanelsLoad
<1>4. Loads("memory") = {"memory", "memoryRoles"}
  BY <1>1, <1>2, PanelsLoad
<1>5. Loads("templates") = {"templates", "preview"}
  BY <1>1, <1>2, PanelsLoad
<1>6. Loads("test") = {} /\ Loads("wizard") = {}
  BY <1>1, PanelsLoad
<1>7. DOMAIN Panels = {"providers", "models", "memory", "modules", "templates", "browser", "safety", "test", "wizard",
                       "shell"}
  BY DEF Panels
<1>8. QED
  BY <1>3, <1>4, <1>5, <1>6, <1>7

\* Loading a panel changes nothing.
LEMMA LoadPrograms ==
  ASSUME NEW p \in DOMAIN Panels
  PROVE  Panels[p].load \in Seq(Instructions) /\ \A i \in 1 .. Len(Panels[p].load) : Panels[p].load[i].res = {}
<1>1. ASSUME NEW a \in Instructions, NEW b \in Instructions, a.res = {}, b.res = {},
             NEW s \in {<< >>, <<a>>, <<a, b>>}
      PROVE  s \in Seq(Instructions) /\ \A i \in 1 .. Len(s) : s[i].res = {}
  <2>1. CASE s = << >>
    BY <2>1
  <2>2. CASE s = <<a>>
    <3>1. s \in Seq(Instructions) /\ Len(s) = 1 /\ s[1] = a
      BY <2>2
    <3>2. QED
      BY <1>1, <3>1
  <2>3. CASE s = <<a, b>>
    <3>1. s \in Seq(Instructions) /\ Len(s) = 2 /\ s[1] = a /\ s[2] = b
      BY <2>3
    <3>2. QED
      BY <1>1, <3>1
  <2>4. QED
    BY <1>1, <2>1, <2>2, <2>3
<1>2. \A r \in Resources : \A e \in {"end", "clear", "clearAll", "keep"} :
          Get(r, e) \in Instructions /\ Get(r, e).res = {}
  BY GetIs
<1>3. {"providers", "models", "memory", "memoryRoles", "modules", "templates", "preview", "entries", "safety",
       "readiness"} \subseteq Resources
  BY DEF Resources, ByChoice
<1>4. CASE p = "providers"
  <2> DEFINE a == Get("providers", "clear")
             b == Get("providers", "clear")
  <2>1. a \in Instructions /\ b \in Instructions /\ a.res = {} /\ b.res = {}
    BY <1>2, <1>3
  <2>2. Panels[p].load \in {<< >>, <<a>>, <<a, b>>}
    BY <1>4, PanelsLoad
  <2> HIDE DEF a, b
  <2>3. QED
    BY <1>1, <2>1, <2>2
<1>5. CASE p = "models"
  <2> DEFINE a == Get("models", "clear")
             b == Get("models", "clear")
  <2>1. a \in Instructions /\ b \in Instructions /\ a.res = {} /\ b.res = {}
    BY <1>2, <1>3
  <2>2. Panels[p].load \in {<< >>, <<a>>, <<a, b>>}
    BY <1>5, PanelsLoad
  <2> HIDE DEF a, b
  <2>3. QED
    BY <1>1, <2>1, <2>2
<1>6. CASE p = "memory"
  <2> DEFINE a == Get("memory", "clearAll")
             b == Get("memoryRoles", "clear")
  <2>1. a \in Instructions /\ b \in Instructions /\ a.res = {} /\ b.res = {}
    BY <1>2, <1>3
  <2>2. Panels[p].load \in {<< >>, <<a>>, <<a, b>>}
    BY <1>6, PanelsLoad
  <2> HIDE DEF a, b
  <2>3. QED
    BY <1>1, <2>1, <2>2
<1>7. CASE p = "modules"
  <2> DEFINE a == Get("modules", "end")
             b == Get("modules", "end")
  <2>1. a \in Instructions /\ b \in Instructions /\ a.res = {} /\ b.res = {}
    BY <1>2, <1>3
  <2>2. Panels[p].load \in {<< >>, <<a>>, <<a, b>>}
    BY <1>7, PanelsLoad
  <2> HIDE DEF a, b
  <2>3. QED
    BY <1>1, <2>1, <2>2
<1>8. CASE p = "browser"
  <2> DEFINE a == Get("entries", "clear")
             b == Get("entries", "clear")
  <2>1. a \in Instructions /\ b \in Instructions /\ a.res = {} /\ b.res = {}
    BY <1>2, <1>3
  <2>2. Panels[p].load \in {<< >>, <<a>>, <<a, b>>}
    BY <1>8, PanelsLoad
  <2> HIDE DEF a, b
  <2>3. QED
    BY <1>1, <2>1, <2>2
<1>9. CASE p = "safety"
  <2> DEFINE a == Get("safety", "clear")
             b == Get("safety", "clear")
  <2>1. a \in Instructions /\ b \in Instructions /\ a.res = {} /\ b.res = {}
    BY <1>2, <1>3
  <2>2. Panels[p].load \in {<< >>, <<a>>, <<a, b>>}
    BY <1>9, PanelsLoad
  <2> HIDE DEF a, b
  <2>3. QED
    BY <1>1, <2>1, <2>2
<1>10. CASE p = "shell"
  <2> DEFINE a == Get("readiness", "keep")
             b == Get("readiness", "keep")
  <2>1. a \in Instructions /\ b \in Instructions /\ a.res = {} /\ b.res = {}
    BY <1>2, <1>3
  <2>2. Panels[p].load \in {<< >>, <<a>>, <<a, b>>}
    BY <1>10, PanelsLoad
  <2> HIDE DEF a, b
  <2>3. QED
    BY <1>1, <2>1, <2>2
<1>11. CASE p = "templates"
  <2> DEFINE a == Get("templates", "end")
             b == Get("preview", "keep")
  <2>1. a \in Instructions /\ b \in Instructions /\ a.res = {} /\ b.res = {}
    BY <1>2, <1>3
  <2>2. Panels[p].load \in {<< >>, <<a>>, <<a, b>>}
    BY <1>11, PanelsLoad
  <2> HIDE DEF a, b
  <2>3. QED
    BY <1>1, <2>1, <2>2
<1>12. CASE p \in {"test", "wizard"}
  <2>1. Panels[p].load = << >>
    BY <1>12, PanelsLoad
  <2>2. << >> \in Seq(Instructions) /\ Len(<< >>) = 0
    BY EmptySeq
  <2>3. QED
    BY <2>1, <2>2
<1>13. QED
  BY <1>4, <1>5, <1>6, <1>7, <1>8, <1>9, <1>10, <1>11, <1>12, LoadsAre

\* Whatever a handler changes of the panel it belongs to, it shows, in the answer or with a load.
LEMMA HandlersAre ==
  ASSUME NEW p \in DOMAIN Panels, NEW h \in Panels[p].handlers
  PROVE  h \in DOMAIN Handlers /\ ProgramOK(Handlers[h], p)
<1>1. /\ ProgramOK(Handlers["saveProviderConfig"], "providers")
      /\ ProgramOK(Handlers["removeProviderConfig"], "providers")
      /\ ProgramOK(Handlers["toggleActiveRole"], "providers")
      /\ ProgramOK(Handlers["addOpenAICompatibleProvider"], "providers")
  <2> DEFINE a == Put(ProviderChange)
             b == Get("providers", "clear")
  <2>1. /\ Handlers["saveProviderConfig"] = <<a, b>>
        /\ Handlers["removeProviderConfig"] = <<a, b>>
        /\ Handlers["toggleActiveRole"] = <<a, b>>
        /\ Handlers["addOpenAICompatibleProvider"] = <<a, b>>
    BY Joined DEF Handlers, saveProviderConfig, removeProviderConfig, toggleActiveRole,
                 addOpenAICompatibleProvider, loadProviderConfig
  <2>2. a \in Instructions /\ a.res = ProviderChange /\ a.shows = {}
    BY PutIs DEF Resources, ByChoice, Put, ProviderChange
  <2>3. b \in Instructions /\ b.res = {} /\ b.shows = {"providers"}
    BY GetIs DEF Resources, ByChoice
  <2> HIDE DEF a, b
  <2>4. /\ a.res \cap Loads("providers") \subseteq a.shows \cup b.shows
        /\ b.res \cap Loads("providers") \subseteq b.shows
    BY <2>2, <2>3, LoadsAre DEF ProviderChange
  <2>5. QED
    BY <2>1, <2>2, <2>3, <2>4, TwoSteps
<1>2. /\ ProgramOK(Handlers["saveOrchestrationModelRow"], "models")
      /\ ProgramOK(Handlers["resetOrchestrationModelAssignments"], "models")
  <2> DEFINE a == Put(ModelChange)
             b == Get("models", "clear")
  <2>1. /\ Handlers["saveOrchestrationModelRow"] = <<a, b>>
        /\ Handlers["resetOrchestrationModelAssignments"] = <<a, b>>
    BY Joined DEF Handlers, saveOrchestrationModelRow, resetOrchestrationModelAssignments,
                 loadOrchestrationModelConfig
  <2>2. a \in Instructions /\ a.res = ModelChange /\ a.shows = {}
    BY PutIs DEF Resources, ByChoice, Put, ModelChange
  <2>3. b \in Instructions /\ b.res = {} /\ b.shows = {"models"}
    BY GetIs DEF Resources, ByChoice
  <2> HIDE DEF a, b
  <2>4. /\ a.res \cap Loads("models") \subseteq a.shows \cup b.shows
        /\ b.res \cap Loads("models") \subseteq b.shows
    BY <2>2, <2>3, LoadsAre DEF ModelChange
  <2>5. QED
    BY <2>1, <2>2, <2>3, <2>4, TwoSteps
<1>3. /\ ProgramOK(Handlers["saveMemoryProviderConfig"], "memory")
      /\ ProgramOK(Handlers["removeMemoryProviderConfig"], "memory")
      /\ ProgramOK(Handlers["toggleActiveMemoryProvider"], "memory")
      /\ ProgramOK(Handlers["addMemoryProviderFromForm"], "memory")
  <2> DEFINE a == Put(MemoryChange)
             b == Get("memory", "clearAll")
             c == Get("memoryRoles", "clear")
  <2>1. /\ Handlers["saveMemoryProviderConfig"] = <<a, b, c>>
        /\ Handlers["removeMemoryProviderConfig"] = <<a, b, c>>
        /\ Handlers["toggleActiveMemoryProvider"] = <<a, b, c>>
        /\ Handlers["addMemoryProviderFromForm"] = <<a, b, c>>
    BY Joined DEF Handlers, saveMemoryProviderConfig, removeMemoryProviderConfig, toggleActiveMemoryProvider,
                 addMemoryProviderFromForm,
                  loadMemoryProviderConfig
  <2>2. a \in Instructions /\ a.res = MemoryChange /\ a.shows = {}
    BY PutIs DEF Resources, ByChoice, Put, MemoryChange
  <2>3. b \in Instructions /\ b.res = {} /\ b.shows = {"memory"}
    BY GetIs DEF Resources, ByChoice
  <2>4. c \in Instructions /\ c.res = {} /\ c.shows = {"memoryRoles"}
    BY GetIs DEF Resources, ByChoice
  <2> HIDE DEF a, b, c
  <2>5. /\ a.res \cap Loads("memory") \subseteq a.shows \cup b.shows \cup c.shows
        /\ b.res \cap Loads("memory") \subseteq b.shows \cup c.shows
        /\ c.res \cap Loads("memory") \subseteq c.shows
    BY <2>2, <2>3, <2>4, LoadsAre DEF MemoryChange
  <2>6. QED
    BY <2>1, <2>2, <2>3, <2>4, <2>5, ThreeSteps
<1>4. /\ ProgramOK(Handlers["saveMemoryAssignment"], "memory")
      /\ ProgramOK(Handlers["resetMemoryAssignments"], "memory")
  <2> DEFINE a == Put({"memoryRoles"})
             b == Get("memoryRoles", "end")
  <2>1. /\ Handlers["saveMemoryAssignment"] = <<a, b>>
        /\ Handlers["resetMemoryAssignments"] = <<a, b>>
    BY Joined DEF Handlers, saveMemoryAssignment, resetMemoryAssignments, loadMemoryAssignments
  <2>2. a \in Instructions /\ a.res = {"memoryRoles"} /\ a.shows = {}
    BY PutIs DEF Resources, ByChoice, Put
  <2>3. b \in Instructions /\ b.res = {} /\ b.shows = {"memoryRoles"}
    BY GetIs DEF Resources, ByChoice
  <2> HIDE DEF a, b
  <2>4. /\ a.res \cap Loads("memory") \subseteq a.shows \cup b.shows
        /\ b.res \cap Loads("memory") \subseteq b.shows
    BY <2>2, <2>3, LoadsAre
  <2>5. QED
    BY <2>1, <2>2, <2>3, <2>4, TwoSteps
<1>5. ProgramOK(Handlers["testMemoryAssignment"], "memory")
  <2> DEFINE a == Query
             b == Get("memoryRoles", "end")
  <2>1. Handlers["testMemoryAssignment"] = <<a, b>>
    BY Joined DEF Handlers, testMemoryAssignment, loadMemoryAssignments
  <2>2. a \in Instructions /\ a.res = {} /\ a.shows = {}
    BY QueryIs
  <2>3. b \in Instructions /\ b.res = {} /\ b.shows = {"memoryRoles"}
    BY GetIs DEF Resources, ByChoice
  <2> HIDE DEF a, b
  <2>4. /\ a.res \cap Loads("memory") \subseteq a.shows \cup b.shows
        /\ b.res \cap Loads("memory") \subseteq b.shows
    BY <2>2, <2>3, LoadsAre
  <2>5. QED
    BY <2>1, <2>2, <2>3, <2>4, TwoSteps
<1>6. ProgramOK(Handlers["toggleModule"], "modules")
  <2> DEFINE a == PutShow({"modules"}, {"modules"})
  <2>1. Handlers["toggleModule"] = <<a>>
    BY DEF Handlers, toggleModule
  <2>2. a \in Instructions /\ a.res = {"modules"} /\ a.shows = {"modules"}
    BY PutIs DEF Resources, ByChoice
  <2> HIDE DEF a
  <2>3. a.res \cap Loads("modules") \subseteq a.shows
    BY <2>2, LoadsAre
  <2>4. QED
    BY <2>1, <2>2, <2>3, OneStep
<1>7. /\ ProgramOK(Handlers["previewTemplateById"], "templates")
      /\ ProgramOK(Handlers["suggestCheapByokTemplate"], "templates")
  <2> DEFINE a == Get("preview", "keep")
  <2>1. /\ Handlers["previewTemplateById"] = <<a>>
        /\ Handlers["suggestCheapByokTemplate"] = <<a>>
    BY DEF Handlers, previewTemplateById, suggestCheapByokTemplate
  <2>2. a \in Instructions /\ a.res = {} /\ a.shows = {"preview"}
    BY GetIs DEF Resources, ByChoice
  <2> HIDE DEF a
  <2>3. a.res \cap Loads("templates") \subseteq a.shows
    BY <2>2, LoadsAre
  <2>4. QED
    BY <2>1, <2>2, <2>3, OneStep
<1>8. ProgramOK(Handlers["applySelectedTemplate"], "templates")
  <2> DEFINE a == PutShow(TemplateChange, {"preview"})
             b == Get("readiness", "keep")
  <2>1. Handlers["applySelectedTemplate"] = <<a, b>>
    BY Joined DEF Handlers, applySelectedTemplate, loadProductReadiness
  <2>2. a \in Instructions /\ a.res = TemplateChange /\ a.shows = {"preview"}
    BY PutIs DEF Resources, ByChoice, TemplateChange
  <2>3. b \in Instructions /\ b.res = {} /\ b.shows = {"readiness"}
    BY GetIs DEF Resources, ByChoice
  <2> HIDE DEF a, b
  <2>4. /\ a.res \cap Loads("templates") \subseteq a.shows \cup b.shows
        /\ b.res \cap Loads("templates") \subseteq b.shows
    BY <2>2, <2>3, LoadsAre DEF TemplateChange
  <2>5. QED
    BY <2>1, <2>2, <2>3, <2>4, TwoSteps
<1>9. ProgramOK(Handlers["applyImportedTemplate"], "templates")
  <2> DEFINE a == Put(TemplateChange \cup {"templates"})
             b == Get("templates", "end")
             c == Get("preview", "keep")
  <2>1. loadTemplates = <<b, c>>
    BY Joined DEF loadTemplates, previewTemplateById
  <2>2. Handlers["applyImportedTemplate"] = <<a, b, c>>
    BY <2>1, Joined DEF Handlers, applyImportedTemplate
  <2>3. a \in Instructions /\ a.res = TemplateChange \cup {"templates"} /\ a.shows = {}
    BY PutIs DEF Resources, ByChoice, Put, TemplateChange
  <2>4. b \in Instructions /\ b.res = {} /\ b.shows = {"templates"}
    BY GetIs DEF Resources, ByChoice
  <2>5. c \in Instructions /\ c.res = {} /\ c.shows = {"preview"}
    BY GetIs DEF Resources, ByChoice
  <2> HIDE DEF a, b, c
  <2>6. /\ a.res \cap Loads("templates") \subseteq a.shows \cup b.shows \cup c.shows
        /\ b.res \cap Loads("templates") \subseteq b.shows \cup c.shows
        /\ c.res \cap Loads("templates") \subseteq c.shows
    BY <2>3, <2>4, <2>5, LoadsAre DEF TemplateChange
  <2>7. QED
    BY <2>2, <2>3, <2>4, <2>5, <2>6, ThreeSteps
<1>10. ProgramOK(Handlers["saveCurrentTemplate"], "templates")
  <2> DEFINE a == Put({"templates"})
             b == Get("templates", "end")
             c == Get("preview", "keep")
  <2>1. loadTemplates = <<b, c>>
    BY Joined DEF loadTemplates, previewTemplateById
  <2>2. Handlers["saveCurrentTemplate"] = <<a, b, c>>
    BY <2>1, Joined DEF Handlers, saveCurrentTemplate
  <2>3. a \in Instructions /\ a.res = {"templates"} /\ a.shows = {}
    BY PutIs DEF Resources, ByChoice, Put
  <2>4. b \in Instructions /\ b.res = {} /\ b.shows = {"templates"}
    BY GetIs DEF Resources, ByChoice
  <2>5. c \in Instructions /\ c.res = {} /\ c.shows = {"preview"}
    BY GetIs DEF Resources, ByChoice
  <2> HIDE DEF a, b, c
  <2>6. /\ a.res \cap Loads("templates") \subseteq a.shows \cup b.shows \cup c.shows
        /\ b.res \cap Loads("templates") \subseteq b.shows \cup c.shows
        /\ c.res \cap Loads("templates") \subseteq c.shows
    BY <2>3, <2>4, <2>5, LoadsAre
  <2>7. QED
    BY <2>2, <2>3, <2>4, <2>5, <2>6, ThreeSteps
<1>11. ProgramOK(Handlers["loadMemoryBrowser"], "browser")
  <2> DEFINE a == Get("entries", "clear")
  <2>1. Handlers["loadMemoryBrowser"] = <<a>>
    BY DEF Handlers, loadMemoryBrowser
  <2>2. a \in Instructions /\ a.res = {} /\ a.shows = {"entries"}
    BY GetIs DEF Resources, ByChoice
  <2> HIDE DEF a
  <2>3. a.res \cap Loads("browser") \subseteq a.shows
    BY <2>2, LoadsAre
  <2>4. QED
    BY <2>1, <2>2, <2>3, OneStep
<1>12. /\ ProgramOK(Handlers["loadProductReadiness"], "shell")
      /\ ProgramOK(Handlers["refreshOrchestrationMode"], "shell")
  <2> DEFINE a == Get("readiness", "keep")
  <2>1. /\ Handlers["loadProductReadiness"] = <<a>>
        /\ Handlers["refreshOrchestrationMode"] = <<a>>
    BY DEF Handlers, loadProductReadiness, refreshOrchestrationMode
  <2>2. a \in Instructions /\ a.res = {} /\ a.shows = {"readiness"}
    BY GetIs DEF Resources, ByChoice
  <2> HIDE DEF a
  <2>3. a.res \cap Loads("shell") \subseteq a.shows
    BY <2>2, LoadsAre
  <2>4. QED
    BY <2>1, <2>2, <2>3, OneStep
<1>13. ProgramOK(Handlers["activateProduct"], "shell")
  <2> DEFINE a == PutShow({"readiness"}, {"readiness"})
  <2>1. Handlers["activateProduct"] = <<a>>
    BY DEF Handlers, activateProduct
  <2>2. a \in Instructions /\ a.res = {"readiness"} /\ a.shows = {"readiness"}
    BY PutIs DEF Resources, ByChoice
  <2> HIDE DEF a
  <2>3. a.res \cap Loads("shell") \subseteq a.shows
    BY <2>2, LoadsAre
  <2>4. QED
    BY <2>1, <2>2, <2>3, OneStep
<1>14. ProgramOK(Handlers["submitQuickNote"], "shell")
  <2> DEFINE a == Put({"notes"})
  <2>1. Handlers["submitQuickNote"] = <<a>>
    BY DEF Handlers, submitQuickNote
  <2>2. a \in Instructions /\ a.res = {"notes"} /\ a.shows = {}
    BY PutIs DEF Resources, ByChoice, Put
  <2> HIDE DEF a
  <2>3. a.res \cap Loads("shell") \subseteq a.shows
    BY <2>2, LoadsAre
  <2>4. QED
    BY <2>1, <2>2, <2>3, OneStep
<1>15. ASSUME NEW x \in {"discoverProviderModels", "testOrchestrationModelRow", "previewMemoryAssignmentMigration",
                       "previewImportedTemplate", "exportCurrentTemplate"}
      PROVE  ProgramOK(Handlers[x], p)
  <2> DEFINE a == Query
  <2>1. Handlers[x] = <<a>>
    BY <1>15 DEF Handlers, discoverProviderModels, testOrchestrationModelRow, previewMemoryAssignmentMigration,
           previewImportedTemplate, exportCurrentTemplate
  <2>2. a \in Instructions /\ a.res \cap Loads(p) \subseteq a.shows
    BY QueryIs
  <2> HIDE DEF a
  <2>3. QED
    BY <2>1, <2>2, OneStep
<1>16. h \in DOMAIN Handlers
  BY LoadsAre DEF Panels, Panel, Handlers, providerCard, orchestrationModelRow, memoryAssignmentRow,
     memoryProviderCard, moduleCard, templateManager, onboarding
<1>17. CASE p = "providers"
  <2>1. Panels["providers"].handlers = providerCard \cup {"addOpenAICompatibleProvider"}
    BY DEF Panels, Panel
  <2>2. QED
    BY <1>16, <1>17, <2>1, <1>1, <1>15 DEF providerCard
<1>18. CASE p = "models"
  <2>1. Panels["models"].handlers = orchestrationModelRow \cup {"resetOrchestrationModelAssignments"}
    BY DEF Panels, Panel
  <2>2. QED
    BY <1>16, <1>18, <2>1, <1>2, <1>15 DEF orchestrationModelRow
<1>19. CASE p = "memory"
  <2>1. Panels["memory"].handlers = memoryProviderCard \cup memoryAssignmentRow
                                   \cup {"resetMemoryAssignments", "addMemoryProviderFromForm"}
    BY DEF Panels, Panel
  <2>2. QED
    BY <1>16, <1>19, <2>1, <1>3, <1>4, <1>5, <1>15 DEF memoryProviderCard, memoryAssignmentRow
<1>20. CASE p = "modules"
  <2>1. Panels["modules"].handlers = moduleCard
    BY DEF Panels, Panel
  <2>2. QED
    BY <1>16, <1>20, <2>1, <1>6 DEF moduleCard
<1>21. CASE p = "templates"
  <2>1. Panels["templates"].handlers = templateManager
    BY DEF Panels, Panel
  <2>2. QED
    BY <1>16, <1>21, <2>1, <1>7, <1>8, <1>9, <1>10, <1>15 DEF templateManager
<1>22. CASE p = "browser"
  <2>1. Panels["browser"].handlers = {"loadMemoryBrowser"}
    BY DEF Panels, Panel
  <2>2. QED
    BY <1>16, <1>22, <2>1, <1>11
<1>23. CASE p = "safety"
  <2>1. Panels["safety"].handlers = {}
    BY DEF Panels, Panel
  <2>2. QED
    BY <1>16, <1>23, <2>1
<1>24. CASE p = "test"
  <2>1. Panels["test"].handlers = {}
    BY DEF Panels, Panel
  <2>2. QED
    BY <1>16, <1>24, <2>1
<1>25. CASE p = "wizard"
  <2>1. Panels["wizard"].handlers = {}
    BY DEF Panels, Panel
  <2>2. QED
    BY <1>16, <1>25, <2>1
<1>26. CASE p = "shell"
  <2>1. Panels["shell"].handlers = onboarding \cup {"submitQuickNote"}
    BY DEF Panels, Panel
  <2>2. QED
    BY <1>16, <1>26, <2>1, <1>12, <1>13, <1>14 DEF onboarding
<1>27. QED
  BY <1>16, <1>17, <1>18, <1>19, <1>20, <1>21, <1>22, <1>23, <1>24, <1>25, <1>26, LoadsAre

\* The program that saves the selected route.
LEMMA RouteIsSaved == ProgramOK(saveRouteSelection, "providers")
<1> DEFINE a == Put(ProviderChange)
           c == Get("providers", "clear")
<1>1. saveRouteSelection = <<a, a, c>>
  BY Joined DEF saveRouteSelection, loadProviderConfig
<1>2. /\ a \in Instructions /\ a.res = ProviderChange /\ a.shows = {}
      /\ c \in Instructions /\ c.res = {} /\ c.shows = {"providers"}
  BY PutIs, GetIs DEF Resources, ByChoice, ProviderChange, Put
<1> HIDE DEF a, c
<1>3. a.res \cap Loads("providers") \subseteq a.shows \cup a.shows \cup c.shows
  BY <1>2, LoadsAre DEF ProviderChange
<1>4. a.res \cap Loads("providers") \subseteq a.shows \cup c.shows
  BY <1>3
<1>5. c.res \cap Loads("providers") \subseteq c.shows
  BY <1>2
<1>6. QED
  BY <1>1, <1>2, <1>3, <1>4, <1>5, ThreeSteps

(***************************************************************************)
(* The picker remembers what was probed.                                   *)
(***************************************************************************)
\* A selection that counts as verified was probed.
LEMMA VerifiedIsProbed ==
  ASSUME PickerOK, isVerified(resolveRoleSelection)
  PROVE  resolveRoleSelection \in probed
<1> DEFINE names == Has.models \cup {Nothing}
<1>1. Nothing \notin [model : names, deployment : names]
  BY VisitsAssumption DEF PickerOK, Has
<1>2. resolveRoleSelection \in [model : names, deployment : names]
  BY DEF PickerOK, resolveRoleSelection
<1>3. resolveRoleSelection # Nothing
  BY <1>1, <1>2
<1>4. QED
  BY <1>3 DEF PickerOK, isVerified

\* However selections, cards and the answers of probes interleave.
LEMMA PickerKeeps ==
  ASSUME PickerOK, [PanelNext]_panelVars
  PROVE  PickerOK'
<1> DEFINE pk == picker'
           names == Has.models \cup {Nothing}
<1>1. /\ visit \in DOMAIN Visits /\ PickFields \subseteq DOMAIN picker
      /\ picker.select \in names /\ picker.manual \in names /\ picker.verified \in probed \cup {Nothing}
      /\ savedVerified \subseteq probed
  BY DEF PickerOK
<1>2. CASE UNCHANGED <<visit, picking>>
  BY <1>1, <1>2 DEF PickerOK, Has, picking
<1>3. ASSUME UNCHANGED visit, probed \subseteq probed', savedVerified' \subseteq probed',
             PickFields \subseteq DOMAIN pk,
             pk.select \in names, pk.manual \in names, pk.verified \in probed' \cup {Nothing}
      PROVE  PickerOK'
  BY <1>1, <1>3 DEF PickerOK, Has
<1>4. ASSUME NEW k \in Slots, Answer(k) PROVE PickerOK'
  <2>1. UNCHANGED <<visit, probed, savedVerified>> /\ pk \in {picker, Rebuilt, [picker EXCEPT !.select = Nothing]}
    BY <1>4 DEF Answer
  <2>2. PickFields \subseteq DOMAIN pk /\ pk.select \in names /\ pk.manual \in names
        /\ pk.verified \in probed \cup {Nothing}
    BY <1>1, <2>1 DEF Rebuilt, NoPick, PickFields
  <2>3. QED
    BY <1>1, <1>3, <2>1, <2>2
<1>5. ASSUME NEW field \in {"select", "manual"}, NEW m \in Has.models, onSelectionChange(field, m) PROVE PickerOK'
  <2>1. /\ UNCHANGED <<visit, probed, savedVerified>>
        /\ pk = [picker EXCEPT ![field] = m, !.verified = Nothing, !.warned = FALSE]
    BY <1>5 DEF onSelectionChange
  <2>2. PickFields \subseteq DOMAIN pk /\ pk.select \in names /\ pk.manual \in names /\ pk.verified = Nothing
    BY <1>1, <2>1 DEF PickFields
  <2>3. QED
    BY <1>1, <1>3, <2>1, <2>2
<1>6. CASE probeRoleModel
  BY <1>1, <1>3, <1>6 DEF probeRoleModel
<1>7. ASSUME NEW q \in probes, NEW ok \in BOOLEAN, ProbeAnswer(q, ok) PROVE PickerOK'
  <2>1. /\ UNCHANGED <<visit, savedVerified>> /\ probed \subseteq probed'
        /\ pk = picker \/ (ok /\ pk = [picker EXCEPT !.verified = q.sel] /\ q.sel \in probed')
           \/ pk = [picker EXCEPT !.verified = Nothing]
    BY <1>7 DEF ProbeAnswer
  <2>2. /\ PickFields \subseteq DOMAIN pk /\ pk.select \in names /\ pk.manual \in names
        /\ pk.verified \in probed' \cup {Nothing}
    BY <1>1, <2>1 DEF PickFields
  <2>3. QED
    BY <1>1, <1>3, <2>1, <2>2
<1>8. CASE saveVerifiedRoute
  <2>1. UNCHANGED <<visit, picker, probed>> /\ savedVerified' = savedVerified \cup {resolveRoleSelection}
    BY <1>8 DEF saveVerifiedRoute
  <2>2. resolveRoleSelection \in probed
    BY <1>8, VerifiedIsProbed DEF saveVerifiedRoute
  <2>3. QED
    BY <1>1, <1>3, <2>1, <2>2
<1>9. CASE saveUnverifiedRoute
  <2>1. UNCHANGED <<visit, probed, savedVerified>> /\ pk = [picker EXCEPT !.warned = ~picker.warned]
    BY <1>9 DEF saveUnverifiedRoute
  <2>2. /\ PickFields \subseteq DOMAIN pk /\ pk.select \in names /\ pk.manual \in names
        /\ pk.verified \in probed \cup {Nothing}
    BY <1>1, <2>1 DEF PickFields
  <2>3. QED
    BY <1>1, <1>3, <2>1, <2>2
<1>10. CASE \/ \E p \in DOMAIN Panels : openPanel(p) \/ closePanel(p)
            \/ \E p \in DOMAIN Panels : \E h \in DOMAIN Handlers : runHandler(p, h)
            \/ \E p \in DOMAIN Panels : \E r \in ByChoice, c \in 1 .. 2 : choose(p, r, c)
  BY <1>2, <1>10 DEF openPanel, closePanel, runHandler, choose
<1>11. CASE \/ \E k \in Slots, done, heard \in BOOLEAN : Serve(k, done, heard)
            \/ \E g \in DOMAIN Guards : startTest(g) \/ TestServed(g) \/ TestAnswer(g) \/ TestTimeout(g)
            \/ UNCHANGED panelVars
  BY <1>2, <1>11 DEF Serve, startTest, TestServed, TestAnswer, TestTimeout, panelVars
<1>12. QED
  BY <1>4, <1>5, <1>6, <1>7, <1>8, <1>9, <1>10, <1>11 DEF PanelNext

(***************************************************************************)
(* Handlers start, the server answers, the page shows.                     *)
(***************************************************************************)
\* A handler starts on its own, or the visit is disturbed.
LEMMA StartsPanel ==
  ASSUME CallsOK, ~disturbed => PanelsOK, NEW p \in DOMAIN Panels, NEW h, NEW program, NEW choices,
         ProgramOK(program, p), Start(p, h, program, choices), choices = chosen', DOMAIN choices = ByChoice,
         UNCHANGED <<version, display>>,
         \A r \in ByChoice : choices[r] = chosen[r] \/ Shows(program, r),
         \A q \in fresh' : q \in DOMAIN Panels /\ (q \in fresh \/ \A r \in Loads(q) : Shows(program, r))
  PROVE  CallsOK' /\ (~disturbed' => PanelsOK')
<1> DEFINE c == [handler |-> h, panel |-> p, program |-> program, ui |-> picker.ui,
                 asked |-> choices, phase |-> "sent", got |-> 0, ok |-> TRUE]
           after == calls'
<1>1. PICK k \in Slots : /\ calls[k] = Free /\ after = [calls EXCEPT ![k] = c]
                         /\ disturbed' = (disturbed \/ UnderWay # {})
  BY DEF Start
<1>2. /\ CallFields \subseteq DOMAIN c /\ c.panel = p /\ c.program = program /\ c.asked = choices
      /\ c.phase = "sent" /\ c.ok
  BY DEF CallFields
<1>3. c # Free
  <2>1. "panel" \in DOMAIN c /\ "panel" \notin DOMAIN Free
    BY DEF Free
  <2>2. QED
    BY <2>1
<1> HIDE DEF c, after
<1>4. DOMAIN after = Slots /\ after[k] = c /\ \A j \in Slots : j # k => after[j] = calls[j]
  BY <1>1 DEF CallsOK
<1>5. UnderWay' = {j \in Slots : after[j] # Free}
  BY DEF UnderWay, after
<1>6. UnderWay' = UnderWay \cup {k}
  BY <1>3, <1>4, <1>5 DEF UnderWay
<1>7. \A j \in UnderWay' : CallOK(after[j])
  BY <1>2, <1>4, <1>5 DEF CallsOK, CallOK, UnderWay
<1>8. CallsOK'
  BY <1>4, <1>7 DEF CallsOK, after
<1>9. ASSUME ~disturbed' PROVE PanelsOK'
  <2>1. UnderWay = {} /\ PanelsOK
    BY <1>1, <1>9
  <2>2. UnderWay' = {k}
    BY <1>6, <2>1
  <2>3. CallIsCurrent(calls[k])'
    BY <1>2, <1>4 DEF CallIsCurrent, after
  <2>4. ASSUME NEW q \in fresh', NEW r \in Loads(q) PROVE AboutToShow(q, r)'
    <3>1. CASE Shows(program, r)
      BY <1>2, <1>4, <2>2, <3>1 DEF AboutToShow, after
    <3>2. CASE ~Shows(program, r)
      <4>1. q \in fresh
        BY <3>2
      <4>2. display[r] = Current(r)
        BY <2>1, <4>1 DEF PanelsOK, AboutToShow
      <4>3. Current(r)' = Current(r)
        BY <3>2 DEF Current
      <4>4. QED
        BY <4>2, <4>3 DEF AboutToShow
    <3>3. QED
      BY <3>1, <3>2
  <2>5. \A j \in UnderWay' : CallIsCurrent(calls[j])'
    BY <2>2, <2>3
  <2>6. QED
    BY <2>2, <2>4, <2>5 DEF PanelsOK, after
<1>10. QED
  BY <1>8, <1>9

\* Nothing under way and nothing shown changes; a panel that loads nothing may open.
LEMMA StillPanels ==
  ASSUME CallsOK, ~disturbed => PanelsOK, UNCHANGED <<version, display, chosen, calls>>, disturbed => disturbed',
         \A q \in fresh' : q \in fresh \/ (q \in DOMAIN Panels /\ Loads(q) = {})
  PROVE  CallsOK' /\ (~disturbed' => PanelsOK')
<1>1. UnderWay' = UnderWay
  BY DEF UnderWay
<1>2. CallsOK'
  BY <1>1 DEF CallsOK
<1>3. \A q, r : AboutToShow(q, r)' = AboutToShow(q, r)
  BY <1>1 DEF AboutToShow, Current
<1>4. \A c : CallIsCurrent(c)' = CallIsCurrent(c)
  BY DEF CallIsCurrent, Current
<1>5. ASSUME ~disturbed' PROVE PanelsOK'
  BY <1>1, <1>3, <1>4, <1>5 DEF PanelsOK
<1>6. QED
  BY <1>2, <1>5

\* A handler under way is no free slot.
LEMMA CallIsNotFree ==
  ASSUME NEW c, "panel" \in DOMAIN c
  PROVE  c # Free
BY DEF Free

\* What remains of a program when its first step is done.
LEMMA TailOfProgram ==
  ASSUME NEW program, NEW p, ProgramOK(program, p)
  PROVE  /\ Tail(program) # << >> => ProgramOK(Tail(program), p)
         /\ \A r : Shows(program, r) => r \in Head(program).shows
                                              \/ (Tail(program) # << >> /\ Shows(Tail(program), r))
         /\ \A r \in Head(program).res \cap Loads(p) : Shows(program, r)
<1> DEFINE rest == Tail(program)
           n == Len(program)
<1>1. program \in Seq(Instructions) /\ program # << >> /\ Reloads(program, p)
  BY DEF ProgramOK
<1>2. /\ n \in Nat /\ n > 0 /\ Head(program) = program[1]
      /\ rest \in Seq(Instructions) /\ Len(rest) = n - 1 /\ (rest # << >> <=> n > 1)
      /\ \A i \in 1 .. n - 1 : rest[i] = program[i + 1]
  <2>1. n \in Nat /\ n > 0 /\ Head(program) = program[1]
    BY <1>1
  <2>2. rest \in Seq(Instructions) /\ Len(rest) = n - 1 /\ \A i \in 1 .. n - 1 : rest[i] = program[i + 1]
    BY <1>1, HeadTailProperties
  <2>3. rest = << >> <=> Len(rest) = 0
    BY <2>2, EmptySeq
  <2>4. QED
    BY <2>1, <2>2, <2>3
<1> HIDE DEF rest, n
<1>3. \A i \in 1 .. n : \A r \in program[i].res \cap Loads(p) : \E j \in i .. n : r \in program[j].shows
  BY <1>1 DEF Reloads, n
<1>4. ASSUME NEW i \in 1 .. n - 1, NEW r \in rest[i].res \cap Loads(p)
      PROVE  \E j \in i .. n - 1 : r \in rest[j].shows
  <2>1. i + 1 \in 1 .. n /\ r \in program[i + 1].res \cap Loads(p)
    BY <1>2, <1>4
  <2>2. PICK j \in i + 1 .. n : r \in program[j].shows
    BY <1>3, <2>1
  <2>3. j - 1 \in i .. n - 1 /\ rest[j - 1] = program[j]
    BY <1>2, <2>2
  <2>4. QED
    BY <2>2, <2>3
<1>5. rest # << >> => ProgramOK(rest, p)
  BY <1>2, <1>4 DEF ProgramOK, Reloads
<1>6. ASSUME NEW r, Shows(program, r) PROVE r \in Head(program).shows \/ (rest # << >> /\ Shows(rest, r))
  <2>1. PICK i \in 1 .. n : r \in program[i].shows
    BY <1>6 DEF Shows, n
  <2>2. CASE i = 1
    BY <1>2, <2>1, <2>2
  <2>3. CASE i # 1
    <3>1. i - 1 \in 1 .. n - 1 /\ rest[i - 1] = program[i] /\ n > 1
      BY <1>2, <2>1, <2>3
    <3>2. QED
      BY <1>2, <2>1, <3>1 DEF Shows
  <2>4. QED
    BY <2>2, <2>3
<1>7. ASSUME NEW r \in Head(program).res \cap Loads(p) PROVE Shows(program, r)
  <2>1. 1 \in 1 .. n /\ r \in program[1].res \cap Loads(p)
    BY <1>2, <1>7
  <2>2. \E j \in 1 .. n : r \in program[j].shows
    BY <1>3, <2>1
  <2>3. QED
    BY <2>2 DEF Shows, n
<1>8. QED
  BY <1>5, <1>6, <1>7 DEF rest

\* What panels load, and what steps show, are resources.
LEMMA AllAreResources ==
  /\ \A p \in DOMAIN Panels : Loads(p) \subseteq Resources
  /\ \A program, p : ProgramOK(program, p) => Head(program).shows \subseteq Resources
<1>1. \A p \in DOMAIN Panels : Loads(p) \subseteq Resources
  BY LoadsAre DEF Resources, ByChoice
<1>2. ASSUME NEW program, NEW p, ProgramOK(program, p) PROVE Head(program).shows \subseteq Resources
  <2>1. Head(program) \in Instructions
    BY <1>2 DEF ProgramOK
  <2>2. QED
    BY <2>1 DEF Instructions
<1>3. QED
  BY <1>1, <1>2

\* What the server changes, the handler of that panel is about to show; other panels are no longer fresh.
LEMMA ServesPanel ==
  ASSUME CallsOK, ~disturbed => PanelsOK, NEW k \in Slots, NEW done \in BOOLEAN, NEW heard \in BOOLEAN,
         Serve(k, done, heard)
  PROVE  CallsOK' /\ (~disturbed' => PanelsOK')
<1> DEFINE c == calls[k]
           changed == IF done THEN Step(k).res ELSE {}
           got == [r \in Step(k).shows |-> IF r \in ByChoice THEN calls[k].asked[r] ELSE version'[r]]
           after == calls'
           v == version'
<1>1. /\ c # Free
      /\ v = [r \in Resources |-> IF r \in changed THEN version[r] + 1 ELSE version[r]]
      /\ fresh' = {p \in fresh : p = c.panel \/ changed \cap Loads(p) = {}}
      /\ after = [calls EXCEPT ![k].phase = "answered", ![k].ok = heard, ![k].got = got]
      /\ disturbed' = (disturbed \/ ~heard) /\ (heard => done)
      /\ UNCHANGED <<display, chosen>>
  BY DEF Serve
<1>2. k \in UnderWay /\ CallOK(c)
  BY <1>1 DEF UnderWay, CallsOK
<1>3. CallFields \subseteq DOMAIN c /\ ProgramOK(c.program, c.panel) /\ Step(k) = Head(c.program)
  BY <1>2 DEF CallOK, Step
<1>4. \A r \in Step(k).shows : got[r] = IF r \in ByChoice THEN c.asked[r] ELSE v[r]
  OBVIOUS
<1>5. \A r \in Resources : r \notin changed => v[r] = version[r]
  BY <1>1
<1>6. changed \subseteq Step(k).res
  OBVIOUS
<1> HIDE DEF changed, got, v
<1>7. /\ DOMAIN after = Slots /\ \A j \in Slots : j # k => after[j] = calls[j]
      /\ after[k] = [calls[k] EXCEPT !.phase = "answered", !.ok = heard, !.got = got]
  BY <1>1 DEF CallsOK
<1>8. /\ CallFields \subseteq DOMAIN after[k] /\ after[k].program = c.program /\ after[k].panel = c.panel
      /\ after[k].asked = c.asked /\ after[k].ok = heard /\ after[k].got = got
  BY <1>3, <1>7 DEF CallFields
<1> HIDE DEF after
<1>9. after[k] # Free
  BY <1>8, CallIsNotFree DEF CallFields
<1>10. UnderWay' = {j \in Slots : after[j] # Free}
  BY DEF UnderWay, after
<1>11. UnderWay' = UnderWay
  BY <1>2, <1>7, <1>9, <1>10 DEF UnderWay
<1>12. \A j \in UnderWay : CallOK(after[j])
  BY <1>2, <1>3, <1>7, <1>8 DEF CallsOK, CallOK, UnderWay
<1>13. CallsOK'
  BY <1>1, <1>7, <1>11, <1>12 DEF CallsOK, after
<1>14. ASSUME ~disturbed' PROVE PanelsOK'
  <2>1. heard /\ done /\ PanelsOK
    BY <1>1, <1>14
  <2>2. UnderWay = {k} /\ CallIsCurrent(c)
    BY <1>2, <2>1 DEF PanelsOK
  <2>3. \A r \in Step(k).shows : got[r] = Current(r)'
    BY <1>1, <1>4, <2>2 DEF CallIsCurrent, Current, v
  <2>4. CallIsCurrent(calls[k])'
    BY <1>1, <1>3, <1>8, <2>1, <2>2, <2>3 DEF CallIsCurrent, after
  <2>5. \A r : Shows(c.program, r) => \E j \in UnderWay' : Shows(after[j].program, r)
    BY <1>2, <1>8, <1>11
  <2>6. ASSUME NEW p \in fresh', NEW r \in Loads(p) PROVE AboutToShow(p, r)'
    <3>1. p \in fresh /\ (p = c.panel \/ changed \cap Loads(p) = {}) /\ r \in Resources
      BY <1>1, AllAreResources DEF CallsOK
    <3>2. CASE r \in changed
      <4>1. p = c.panel /\ r \in Head(c.program).res \cap Loads(c.panel)
        BY <1>3, <1>6, <3>1, <3>2
      <4>2. Shows(c.program, r)
        BY <1>3, <4>1, TailOfProgram
      <4>3. QED
        BY <2>5, <4>2 DEF AboutToShow, after
    <3>3. CASE r \notin changed
      <4>1. Current(r)' = Current(r)
        BY <1>1, <1>5, <3>1, <3>3 DEF Current, v
      <4>2. AboutToShow(p, r)
        BY <2>1, <3>1 DEF PanelsOK
      <4>3. display[r] = Current(r) \/ Shows(c.program, r)
        BY <2>2, <4>2 DEF AboutToShow
      <4>4. QED
        BY <1>1, <2>5, <4>1, <4>3 DEF AboutToShow, after
    <3>4. QED
      BY <3>2, <3>3
  <2>7. UnderWay' = {k}
    BY <1>11, <2>2
  <2>8. \A j \in UnderWay' : CallIsCurrent(calls[j])'
    BY <2>4, <2>7
  <2>9. QED
    BY <2>6, <2>7, <2>8 DEF PanelsOK
<1>15. QED
  BY <1>13, <1>14

\* What is answered is shown, and the rest of the program goes on.
LEMMA AnswersPanel ==
  ASSUME CallsOK, ~disturbed => PanelsOK, NEW k \in Slots, Answer(k)
  PROVE  CallsOK' /\ (~disturbed' => PanelsOK')
<1> DEFINE c == calls[k]
           st == Step(k)
           emptied == IF c.ok \/ st.op # "get" THEN {}
                      ELSE CASE st.onError = "clear" -> st.shows
                             [] st.onError = "clearAll" -> {"memory", "memoryRoles"}
                             [] OTHER -> {}
           goesOn == c.ok \/ st.onError \in {"keep", "clear"}
           rest == IF goesOn THEN Rest(k) ELSE << >>
           after == calls'
           d == display'
           next == [c EXCEPT !.program = rest, !.phase = "sent", !.asked = chosen, !.got = 0]
<1>1. /\ c # Free /\ c.phase = "answered"
      /\ d = [r \in Resources |-> IF c.ok /\ r \in st.shows THEN c.got[r]
                                ELSE IF r \in emptied THEN 0 ELSE display[r]]
      /\ after = [calls EXCEPT ![k] = IF rest = << >> THEN Free ELSE next]
      /\ UNCHANGED <<version, chosen, fresh, disturbed>>
  BY DEF Answer
<1>2. k \in UnderWay /\ CallOK(c)
  BY <1>1 DEF UnderWay, CallsOK
<1>3. CallFields \subseteq DOMAIN c /\ ProgramOK(c.program, c.panel) /\ st = Head(c.program)
  BY <1>2 DEF CallOK, Step
<1>4. rest \in {<< >>, Tail(c.program)} /\ (goesOn /\ UnderWay \ {k} = {} => rest = Tail(c.program))
  BY DEF Rest
<1>5. c.ok => goesOn /\ emptied = {}
  OBVIOUS
<1>6. /\ CallFields \subseteq DOMAIN next /\ next.program = rest /\ next.panel = c.panel /\ next.ok = c.ok
      /\ next.asked = chosen /\ next.phase = "sent"
  BY <1>3 DEF CallFields
<1> HIDE DEF emptied, goesOn, rest, after, d, next
<1>7. /\ DOMAIN after = Slots /\ \A j \in Slots : j # k => after[j] = calls[j]
      /\ after[k] = IF rest = << >> THEN Free ELSE next
  BY <1>1 DEF CallsOK
<1>8. next # Free
  BY <1>6, CallIsNotFree DEF CallFields
<1>9. UnderWay' = {j \in Slots : after[j] # Free}
  BY DEF UnderWay, after
<1>10. UnderWay' = IF rest = << >> THEN UnderWay \ {k} ELSE UnderWay
  BY <1>2, <1>7, <1>8, <1>9 DEF UnderWay
<1>11. rest # << >> => CallOK(next)
  BY <1>3, <1>4, <1>6, TailOfProgram DEF CallOK
<1>12. \A j \in UnderWay' : CallOK(after[j])
  BY <1>7, <1>10, <1>11 DEF CallsOK, UnderWay
<1>13. CallsOK'
  BY <1>1, <1>7, <1>12 DEF CallsOK, after, d
<1>14. ASSUME ~disturbed' PROVE PanelsOK'
  <2>1. PanelsOK
    BY <1>1, <1>14
  <2>2. UnderWay = {k} /\ CallIsCurrent(c)
    BY <1>2, <2>1 DEF PanelsOK
  <2>3. c.ok /\ emptied = {} /\ rest = Tail(c.program)
    BY <1>4, <1>5, <2>2 DEF CallIsCurrent
  <2>4. \A r : Current(r)' = Current(r)
    BY <1>1 DEF Current
  <2>5. \A r \in st.shows : c.got[r] = Current(r)
    BY <1>1, <1>3, <2>2 DEF CallIsCurrent
  <2>6. \A r \in Resources : d[r] = IF r \in st.shows THEN c.got[r] ELSE display[r]
    BY <1>1, <2>3
  <2>7. UnderWay' = IF rest = << >> THEN {} ELSE {k}
    BY <1>10, <2>2
  <2>8. rest # << >> => after[k] = next /\ CallIsCurrent(calls[k])'
    <3>1. rest # << >> => after[k] = next
      BY <1>7
    <3>2. next.ok /\ next.asked = chosen' /\ next.phase # "answered"
      BY <1>1, <1>6, <2>3
    <3>3. QED
      BY <3>1, <3>2 DEF CallIsCurrent, after
  <2>9. ASSUME NEW p \in fresh', NEW r \in Loads(p) PROVE AboutToShow(p, r)'
    <3>1. p \in fresh /\ r \in Resources
      BY <1>1, AllAreResources DEF CallsOK
    <3>2. AboutToShow(p, r)
      BY <2>1, <3>1 DEF PanelsOK
    <3>3. display[r] = Current(r) \/ Shows(c.program, r)
      BY <2>2, <3>2 DEF AboutToShow
    <3>4. CASE r \in st.shows \/ display[r] = Current(r)
      <4>1. d[r] = Current(r)
        BY <2>5, <2>6, <3>1, <3>4
      <4>2. QED
        BY <2>4, <4>1 DEF AboutToShow, d
    <3>5. CASE r \notin st.shows /\ Shows(c.program, r)
      <4>1. rest # << >> /\ Shows(rest, r)
        BY <1>3, <2>3, <3>5, TailOfProgram
      <4>2. Shows(after[k].program, r) /\ k \in UnderWay'
        BY <1>6, <2>7, <2>8, <4>1
      <4>3. QED
        BY <4>2 DEF AboutToShow, after
    <3>6. QED
      BY <3>3, <3>4, <3>5
  <2>10. \A j \in UnderWay' : CallIsCurrent(calls[j])'
    BY <2>7, <2>8
  <2>11. QED
    BY <2>7, <2>9, <2>10 DEF PanelsOK
<1>15. QED
  BY <1>13, <1>14

\* The wizard's answer is shown in the onboarding; if it is old by then, the visit is disturbed.
LEMMA TestAnswersPanel ==
  ASSUME CallsOK, ~disturbed => PanelsOK, NEW g \in DOMAIN Guards, TestAnswer(g)
  PROVE  CallsOK' /\ (~disturbed' => PanelsOK')
<1>1. /\ UNCHANGED <<version, panels, chosen, calls, fresh>>
      /\ display' = IF g = "setupWizard" THEN [display EXCEPT !["readiness"] = tests[g].value] ELSE display
      /\ disturbed' = (disturbed \/ (g = "setupWizard" /\ tests[g].value # version["readiness"]))
  BY DEF TestAnswer
<1>2. UnderWay' = UnderWay
  BY <1>1 DEF UnderWay
<1>3. CallsOK'
  BY <1>1, <1>2 DEF CallsOK
<1>4. ASSUME ~disturbed' PROVE PanelsOK'
  <2>1. PanelsOK /\ (g = "setupWizard" => tests[g].value = version["readiness"])
    BY <1>1, <1>4
  <2>2. \A r : Current(r)' = Current(r)
    BY <1>1 DEF Current
  <2>3. \A r \in Resources : display'[r] = display[r] \/ display'[r] = Current(r)
    BY <1>1, <2>1 DEF CallsOK, Current, ByChoice
  <2>4. \A p \in fresh : \A r \in Loads(p) : AboutToShow(p, r)'
    BY <1>1, <1>2, <2>1, <2>2, <2>3, AllAreResources DEF PanelsOK, AboutToShow, CallsOK
  <2>5. \A c : CallIsCurrent(c)' = CallIsCurrent(c)
    BY <1>1, <2>2 DEF CallIsCurrent
  <2>6. QED
    BY <1>1, <1>2, <2>1, <2>4, <2>5 DEF PanelsOK
<1>5. QED
  BY <1>3, <1>4

\* What a panel loads when it opens, what a handler reloads, what a choice asks for.
LEMMA OpensPanel ==
  ASSUME CallsOK, ~disturbed => PanelsOK, NEW p \in DOMAIN Panels, openPanel(p)
  PROVE  CallsOK' /\ (~disturbed' => PanelsOK')
<1> DEFINE load == Panels[p].load
<1>1. UNCHANGED <<version, display, chosen>> /\ fresh' = fresh \cup {p}
  BY DEF openPanel
<1>2. \A r \in Loads(p) : Shows(load, r)
  <2>1. load \in Seq(Instructions) /\ \A i \in DOMAIN load : load[i].res = {}
    BY LoadPrograms
  <2>2. DOMAIN load = 1 .. Len(load)
    BY <2>1
  <2>3. QED
    BY <2>2 DEF Loads, Shows
<1>3. CASE load = << >>
  <2>1. Loads(p) = {}
    BY <1>3 DEF Loads
  <2>2. QED
    BY <1>1, <1>3, <2>1, StillPanels DEF openPanel
<1>4. CASE load # << >>
  <2>1. ProgramOK(load, p)
    BY <1>4, LoadPrograms DEF ProgramOK, Reloads
  <2>2. Start(p, "open", load, chosen)
    BY <1>4 DEF openPanel
  <2>3. DOMAIN chosen = ByChoice /\ fresh \subseteq DOMAIN Panels
    BY DEF CallsOK
  <2>4. \A q \in fresh' : q \in DOMAIN Panels /\ (q \in fresh \/ \A r \in Loads(q) : Shows(load, r))
    BY <1>1, <1>2, <2>3
  <2> HIDE DEF load
  <2>5. QED
    BY <1>1, <2>1, <2>2, <2>3, <2>4, StartsPanel
<1>5. QED
  BY <1>3, <1>4

\* A handler of the panel starts; asking for the readiness makes the onboarding fresh.
LEMMA RunsPanel ==
  ASSUME CallsOK, ~disturbed => PanelsOK, NEW p \in DOMAIN Panels, NEW h, runHandler(p, h)
  PROVE  CallsOK' /\ (~disturbed' => PanelsOK')
<1> DEFINE program == Handlers[h]
<1>1. /\ UNCHANGED <<version, display, chosen>> /\ h \in Panels[p].handlers
      /\ Start(p, h, program, chosen)
      /\ fresh' = IF h = "loadProductReadiness" THEN fresh \cup {p} ELSE fresh
  BY DEF runHandler
<1>2. ProgramOK(program, p)
  BY <1>1, HandlersAre
<1>3. ASSUME h = "loadProductReadiness" PROVE \A r \in Loads(p) : Shows(program, r)
  <2>1. p = "shell"
    BY <1>1, <1>3, LoadsAre DEF Panels, Panel, providerCard, orchestrationModelRow, memoryAssignmentRow,
       memoryProviderCard, moduleCard, templateManager
  <2>2. program = <<Get("readiness", "keep")>>
    BY <1>3 DEF Handlers, loadProductReadiness
  <2>3. Len(program) = 1 /\ program[1].shows = {"readiness"}
    BY <2>2 DEF Get
  <2> HIDE DEF program
  <2>4. Loads(p) = {"readiness"}
    BY <2>1, LoadsAre
  <2>5. QED
    BY <2>3, <2>4 DEF Shows
<1> HIDE DEF program
<1>4. DOMAIN chosen = ByChoice
      /\ \A q \in fresh' : q \in DOMAIN Panels /\ (q \in fresh \/ \A r \in Loads(q) : Shows(program, r))
  BY <1>1, <1>3 DEF CallsOK
<1>5. QED
  BY <1>1, <1>2, <1>4, StartsPanel

\* What is chosen is asked for at once.
LEMMA ChoosesPanel ==
  ASSUME CallsOK, ~disturbed => PanelsOK, NEW p \in DOMAIN Panels, NEW r \in ByChoice, NEW c, choose(p, r, c)
  PROVE  CallsOK' /\ (~disturbed' => PanelsOK')
<1> DEFINE program == IF r = "preview" THEN previewTemplateById ELSE loadMemoryBrowser
           after == chosen'
           e == IF r = "preview" THEN "keep" ELSE "clear"
           a == Get(r, e)
<1>1. /\ UNCHANGED <<version, display, fresh>> /\ after = [chosen EXCEPT ![r] = c]
      /\ Start(p, "choose", program, after)
  BY DEF choose
<1>2. program = <<a>>
  BY DEF previewTemplateById, loadMemoryBrowser, ByChoice
<1>3. a \in Instructions /\ a.res = {} /\ a.shows = {r}
  BY GetIs DEF Resources
<1> HIDE DEF a, program, after
<1>4. ProgramOK(program, p)
  <2>1. a.res \cap Loads(p) \subseteq a.shows
    BY <1>3
  <2>2. QED
    BY <1>2, <1>3, <2>1, OneStep
<1>5. Shows(program, r)
  <2>1. Len(program) = 1 /\ program[1] = a
    BY <1>2
  <2>2. QED
    BY <1>3, <2>1 DEF Shows
<1>6. DOMAIN after = ByChoice /\ (\A s \in ByChoice : after[s] = chosen[s] \/ Shows(program, s))
      /\ fresh \subseteq DOMAIN Panels
  BY <1>1, <1>5 DEF CallsOK
<1>7. QED
  BY <1>1, <1>4, <1>6, StartsPanel DEF after

\* The selected route is saved like any record of the providers.
LEMMA SavesPanel ==
  ASSUME CallsOK, ~disturbed => PanelsOK, saveVerifiedRoute \/ saveUnverifiedRoute
  PROVE  CallsOK' /\ (~disturbed' => PanelsOK')
<1>1. UNCHANGED <<version, display, chosen, fresh>>
  BY DEF saveVerifiedRoute, saveUnverifiedRoute
<1>2. CASE UNCHANGED <<calls, disturbed>>
  BY <1>1, <1>2, StillPanels
<1>3. CASE Start("providers", "saveRouteSelection", saveRouteSelection, chosen)
  <2>1. DOMAIN chosen = ByChoice /\ fresh \subseteq DOMAIN Panels /\ "providers" \in DOMAIN Panels
    BY LoadsAre DEF CallsOK
  <2>2. QED
    BY <1>1, <1>3, <2>1, RouteIsSaved, StartsPanel
<1>4. QED
  BY <1>2, <1>3 DEF saveVerifiedRoute, saveUnverifiedRoute

\* The visit starts with nothing loaded and nothing under way.
LEMMA PanelInitial ==
  ASSUME PanelInit
  PROVE  PanelInv
<1>1. /\ visit \in DOMAIN Visits /\ display = [r \in Resources |-> 0] /\ fresh = {} /\ chosen = [r \in ByChoice |-> 1]
      /\ calls = [k \in Slots |-> Free] /\ picker = NoPick /\ savedVerified = {}
  BY DEF PanelInit
<1>2. UnderWay = {}
  BY <1>1 DEF UnderWay
<1>3. PickerOK
  BY <1>1 DEF PickerOK, NoPick, PickFields
<1>4. CallsOK
  BY <1>1, <1>2 DEF CallsOK
<1>5. PanelsOK
  BY <1>1, <1>2 DEF PanelsOK
<1>6. QED
  BY <1>3, <1>4, <1>5 DEF PanelInv

\* A step of the panels, or of the chat, keeps the invariant.
LEMMA PanelKeeps ==
  ASSUME PanelInv, [ClientNext]_<<chatVars, panelVars>>
  PROVE  PanelInv'
<1> DEFINE Kept == CallsOK' /\ (~disturbed' => PanelsOK')
<1>1. CallsOK /\ (~disturbed => PanelsOK) /\ PickerOK
  BY DEF PanelInv
<1>2. [PanelNext]_panelVars
  BY DEF ClientNext
<1>3. ASSUME UNCHANGED panelVars PROVE Kept
  BY <1>1, <1>3, StillPanels DEF panelVars
<1>4. ASSUME NEW p \in DOMAIN Panels, openPanel(p) PROVE Kept
  BY <1>1, <1>4, OpensPanel
<1>5. ASSUME NEW p \in DOMAIN Panels, closePanel(p) PROVE Kept
  BY <1>1, <1>5, StillPanels DEF closePanel
<1>6. ASSUME NEW p \in DOMAIN Panels, NEW h \in DOMAIN Handlers, runHandler(p, h) PROVE Kept
  BY <1>1, <1>6, RunsPanel
<1>7. ASSUME NEW p \in DOMAIN Panels, NEW r \in ByChoice, NEW c \in 1 .. 2, choose(p, r, c) PROVE Kept
  BY <1>1, <1>7, ChoosesPanel
<1>8. ASSUME NEW k \in Slots, NEW done \in BOOLEAN, NEW heard \in BOOLEAN, Serve(k, done, heard) PROVE Kept
  BY <1>1, <1>8, ServesPanel
<1>9. ASSUME NEW k \in Slots, Answer(k) PROVE Kept
  BY <1>1, <1>9, AnswersPanel
<1>10. ASSUME NEW g \in DOMAIN Guards, TestAnswer(g) PROVE Kept
  BY <1>1, <1>10, TestAnswersPanel
<1>11. ASSUME NEW g \in DOMAIN Guards, startTest(g) \/ TestServed(g) \/ TestTimeout(g) PROVE Kept
  BY <1>1, <1>11, StillPanels DEF startTest, TestServed, TestTimeout
<1>12. ASSUME probeRoleModel PROVE Kept
  BY <1>1, <1>12, StillPanels DEF probeRoleModel
<1>13. ASSUME NEW field \in {"select", "manual"}, NEW m \in Has.models, onSelectionChange(field, m) PROVE Kept
  BY <1>1, <1>13, StillPanels DEF onSelectionChange
<1>14. ASSUME NEW q \in probes, NEW ok \in BOOLEAN, ProbeAnswer(q, ok) PROVE Kept
  BY <1>1, <1>14, StillPanels DEF ProbeAnswer
<1>15. ASSUME saveVerifiedRoute \/ saveUnverifiedRoute PROVE Kept
  BY <1>1, <1>15, SavesPanel
<1> HIDE DEF Kept
<1>16. Kept
  BY <1>2, <1>3, <1>4, <1>5, <1>6, <1>7, <1>8, <1>9, <1>10, <1>11, <1>12, <1>13, <1>14, <1>15
    DEF PanelNext
<1>17. QED
  BY <1>1, <1>2, <1>16, PickerKeeps DEF PanelInv, Kept

\* The settings pages show what the server holds and save as verified what was probed, for every
\* visit: any panels, models and clicks, and any number of handlers
\* at once (createModelPickerRoleRow, the loads of app.js).
THEOREM PanelsAgreeCorrect == ClientSpec => []PanelsAgree
<1>1. ClientInit => PanelInv
  BY PanelInitial DEF ClientInit
<1>2. PanelInv /\ [ClientNext]_<<chatVars, panelVars>> => PanelInv'
  BY PanelKeeps
<1>3. PanelInv => PanelsAgree
  BY DEF PanelInv, PickerOK, PanelsOK, CallsOK, AboutToShow, PanelsAgree, VerifiedWasProbed, PanelsAreCurrent
<1>4. QED
  BY <1>1, <1>2, <1>3, PTL DEF ClientSpec
===============================================================================
