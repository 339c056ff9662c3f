--------------------------- MODULE StandingProofs ---------------------------
(***************************************************************************)
(* What a run decides once and stands by, for any writers, scopes, ttl and *)
(* behaviour of the store, and for any stop test however it is composed,   *)
(* asked and reset.                                                        *)
(***************************************************************************)
EXTENDS MCStanding, Sequences, SequenceTheorems, TLAPS

-----------------------------------------------------------------------------
(***************************************************************************)
(* What a writer is told.  BeliefBounded speaks of writers that have their *)
(* answer, and an answer may come from the cache; so the induction carries *)
(* what the cache knows: behind every cached verdict there is a probe, no  *)
(* earlier than its stamp, that came to the same.  The history only moves  *)
(* forward, so a verdict filed late and over a newer one keeps its ground. *)
(***************************************************************************)
Call ==
  [at : {"idle", "stored", "timed", "probed", "done"}, scope : Scopes,
   kept : BOOLEAN, now : Nat, answer : {"none", "ok", "refused"}]

MemTypeOK ==
  /\ clock \in Nat
  /\ keeps \in BOOLEAN
  /\ verdicts \in [Scopes -> [durable : BOOLEAN, at : Nat]]
  /\ writer \in [Writer -> Call]
  /\ proven \in [Scopes -> Nat]
  /\ refuted \in [Scopes -> Nat]

\* Probes of this kind in a scope: one past the latest reading, or 0.
Ground(s, durable) == IF durable THEN proven[s] ELSE refuted[s]

VerdictsGrounded ==
  \A s \in Scopes : verdicts[s] # Mem!NoVerdict =>
    verdicts[s].at < Ground(s, verdicts[s].durable)

ProbesHonest ==
  \A w \in Writer : writer[w].at = "probed" => writer[w].answer = Mem!Answers(writer[w].kept)

Grounded == MemTypeOK /\ VerdictsGrounded /\ ProbesHonest /\ Mem!BeliefBounded

-----------------------------------------------------------------------------
\* A memory begins with no verdicts and no writer told anything.
LEMMA MemoryInit == ASSUME Mem!Init PROVE Grounded
<1> Mem!Idle \in Call
  <2>1. (CHOOSE s \in Scopes : TRUE) \in Scopes BY StandingAssumption
  <2> QED BY <2>1 DEF Mem!Idle, Call
<1>1. MemTypeOK BY StandingAssumption DEF Mem!Init, MemTypeOK, Mem!NoVerdict
<1>2. \A w \in Writer : writer[w].at = "idle" BY DEF Mem!Init, Mem!Idle
<1>3. VerdictsGrounded BY DEF Mem!Init, VerdictsGrounded
<1> QED BY <1>1, <1>2, <1>3 DEF Grounded, ProbesHonest, Mem!BeliefBounded

\* A step of one writer that leaves the cache and the history alone keeps the
\* rest if what that writer is left with is in order.
LEMMA OneWriterMoves ==
  ASSUME Grounded, NEW w \in Writer, NEW call \in Call,
         writer' = [writer EXCEPT ![w] = call],
         UNCHANGED <<clock, keeps, verdicts, proven, refuted>>,
         call.at = "probed" => call.answer = Mem!Answers(call.kept),
         call.at = "done" /\ (call.answer = "ok") # call.kept =>
           Mem!Recent(Ground(call.scope, call.answer = "ok"), call.now)
  PROVE  Grounded'
<1> USE DEF Grounded
<1>1. MemTypeOK' BY DEF MemTypeOK
<1>2. VerdictsGrounded' BY DEF VerdictsGrounded, Ground, Mem!NoVerdict
<1>3. \A v \in Writer : writer'[v] = IF v = w THEN call ELSE writer[v]
  BY DEF MemTypeOK
<1>4. ProbesHonest' BY <1>3 DEF ProbesHonest, Mem!Answers
<1>5. Mem!BeliefBounded'
  <2> SUFFICES ASSUME NEW v \in Writer, writer'[v].at = "done",
                      (writer'[v].answer = "ok") # writer'[v].kept
               PROVE  Mem!Recent(Ground(writer'[v].scope, writer'[v].answer = "ok"),
                             writer'[v].now)
    BY DEF Mem!BeliefBounded, Mem!Told, Ground, Mem!Recent
  <2>1. CASE v = w BY <1>3, <2>1
  <2>2. CASE v # w BY <1>3, <2>2 DEF Mem!BeliefBounded, Mem!Told, Ground, Mem!Recent
  <2> QED BY <2>1, <2>2
<1> QED BY <1>1, <1>2, <1>4, <1>5

\* A writer that stored has no answer yet.
LEMMA StoreHolds == ASSUME Grounded, NEW w \in Writer, NEW s \in Scopes, Mem!Store(w, s)
       PROVE  Grounded'
<1> DEFINE call == [Mem!Idle EXCEPT !.at = "stored", !.scope = s, !.kept = keeps]
<1>1. call \in Call
  <2>1. (CHOOSE u \in Scopes : TRUE) \in Scopes BY StandingAssumption
  <2> QED BY <2>1 DEF Mem!Idle, Call, Grounded, MemTypeOK
<1>2. call.at = "stored" BY DEF Mem!Idle
<1>3. writer' = [writer EXCEPT ![w] = call] /\ UNCHANGED <<clock, keeps, verdicts, proven, refuted>>
  BY DEF Mem!Store
<1> HIDE DEF call
<1> QED BY <1>1, <1>2, <1>3, OneWriterMoves

\* Reading the clock settles nothing.
LEMMA ReadClockHolds == ASSUME Grounded, NEW w \in Writer, Mem!ReadClock(w) PROVE Grounded'
<1> DEFINE call == [writer[w] EXCEPT !.at = "timed", !.now = clock]
<1>1. call \in Call /\ call.at = "timed" BY DEF Call, Grounded, MemTypeOK
<1>2. writer' = [writer EXCEPT ![w] = call] /\ UNCHANGED <<clock, keeps, verdicts, proven, refuted>>
  BY DEF Mem!ReadClock, Mem!Moves
<1> HIDE DEF call
<1> QED BY <1>1, <1>2, OneWriterMoves

\* A probe answers for the memory it was shown.
LEMMA ProbeHolds == ASSUME Grounded, NEW w \in Writer, Mem!Probe(w) PROVE Grounded'
<1> DEFINE call == [writer[w] EXCEPT !.at = "probed", !.answer = Mem!Answers(writer[w].kept)]
<1>1. /\ call \in Call
      /\ call.at = "probed"
      /\ call.answer = Mem!Answers(call.kept)
  BY DEF Call, Grounded, MemTypeOK, Mem!Answers
<1>2. writer' = [writer EXCEPT ![w] = call] /\ UNCHANGED <<clock, keeps, verdicts, proven, refuted>>
  BY DEF Mem!Probe, Mem!Moves
<1> HIDE DEF call
<1> QED BY <1>1, <1>2, OneWriterMoves

\* The verdict believed is no older than a Ttl, and its ground no older than it.
LEMMA BelieveHolds == ASSUME Grounded, NEW w \in Writer, Mem!Believe(w) PROVE Grounded'
<1> DEFINE s == writer[w].scope
           call == [writer[w] EXCEPT !.at = "done", !.answer = Mem!Answers(verdicts[s].durable)]
<1>1. /\ call \in Call
      /\ call.at = "done"
      /\ call.now = writer[w].now
      /\ call.scope = s
      /\ call.answer = Mem!Answers(verdicts[s].durable)
  BY DEF Call, Grounded, MemTypeOK, Mem!Answers
<1>2. writer' = [writer EXCEPT ![w] = call] /\ UNCHANGED <<clock, keeps, verdicts, proven, refuted>>
  BY DEF Mem!Believe, Mem!Moves
<1>3. Mem!Recent(Ground(s, verdicts[s].durable), writer[w].now)
  <2>1. s \in Scopes /\ writer[w].now \in Nat BY DEF Grounded, MemTypeOK, Call
  <2>2. verdicts[s] # Mem!NoVerdict /\ writer[w].now < verdicts[s].at + Ttl
    BY DEF Mem!Believe, Mem!Unexpired
  <2>3. verdicts[s].at < Ground(s, verdicts[s].durable) BY <2>1, <2>2 DEF Grounded, VerdictsGrounded
  <2>4. verdicts[s].at \in Nat /\ Ground(s, verdicts[s].durable) \in Nat
    BY <2>1 DEF Grounded, MemTypeOK, Ground
  <2> QED BY StandingAssumption, <2>1, <2>2, <2>3, <2>4 DEF Mem!Recent
<1>4. Ground(call.scope, call.answer = "ok") = Ground(s, verdicts[s].durable)
  BY <1>1 DEF Mem!Answers, Ground
<1> HIDE DEF call, s
<1> QED BY <1>1, <1>2, <1>3, <1>4, OneWriterMoves

\* The verdict filed is the probe's own, and the history takes it in.
LEMMA RecordHolds == ASSUME Grounded, NEW w \in Writer, Mem!Record(w) PROVE Grounded'
<1> USE DEF Grounded
<1> DEFINE s == writer[w].scope
           n == writer[w].now
           k == writer[w].kept
<1>1. s \in Scopes /\ n \in Nat /\ k \in BOOLEAN BY DEF MemTypeOK, Call
<1>2. /\ writer[w].at = "probed"
      /\ writer' = [writer EXCEPT ![w] = [writer[w] EXCEPT !.at = "done"]]
      /\ proven' = IF k THEN [proven EXCEPT ![s] = Mem!Later(@, n + 1)] ELSE proven
      /\ refuted' = IF k THEN refuted ELSE [refuted EXCEPT ![s] = Mem!Later(@, n + 1)]
      /\ verdicts' = [verdicts EXCEPT ![s] = [durable |-> k, at |-> n]]
      /\ UNCHANGED <<clock, keeps>>
  BY DEF Mem!Record, Mem!Probed, Mem!Moves
<1>3. /\ proven' \in [Scopes -> Nat] /\ refuted' \in [Scopes -> Nat]
      /\ \A u \in Scopes : proven[u] <= proven'[u] /\ refuted[u] <= refuted'[u]
      /\ k => n < proven'[s]
      /\ ~k => n < refuted'[s]
  <2> HIDE DEF s, n, k
  <2>1. CASE k BY <1>1, <1>2, <2>1 DEF MemTypeOK, Mem!Later
  <2>2. CASE ~k BY <1>1, <1>2, <2>2 DEF MemTypeOK, Mem!Later
  <2> QED BY <2>1, <2>2
<1>4. MemTypeOK'
  <2>1. [writer[w] EXCEPT !.at = "done"] \in Call BY DEF MemTypeOK, Call
  <2>2. writer' \in [Writer -> Call] BY <1>2, <2>1 DEF MemTypeOK
  <2>3. [durable |-> k, at |-> n] \in [durable : BOOLEAN, at : Nat] BY <1>1
  <2>4. verdicts' \in [Scopes -> [durable : BOOLEAN, at : Nat]]
    BY <1>1, <1>2, <2>3 DEF MemTypeOK
  <2> QED BY <1>2, <1>3, <2>2, <2>4 DEF MemTypeOK
<1>5. VerdictsGrounded'
  <2> SUFFICES ASSUME NEW u \in Scopes, verdicts'[u] # Mem!NoVerdict
               PROVE  verdicts'[u].at <
                        IF verdicts'[u].durable THEN proven'[u] ELSE refuted'[u]
    BY DEF VerdictsGrounded, Mem!NoVerdict, Ground
  <2> HIDE DEF s, n, k
  <2>1. CASE u = s
    <3>1. verdicts'[u] = [durable |-> k, at |-> n] BY <1>1, <1>2, <2>1 DEF MemTypeOK
    <3>2. CASE k BY <1>3, <2>1, <3>1, <3>2 DEF Ground
    <3>3. CASE ~k BY <1>3, <2>1, <3>1, <3>3 DEF Ground
    <3> QED BY <3>2, <3>3
  <2>2. CASE u # s
    <3>1. verdicts'[u] = verdicts[u] BY <1>1, <1>2, <2>2 DEF MemTypeOK
    <3>2. verdicts[u].at < Ground(u, verdicts[u].durable)
      BY <3>1 DEF VerdictsGrounded
    <3>3. verdicts[u].at \in Nat /\ proven[u] \in Nat /\ refuted[u] \in Nat
          /\ proven'[u] \in Nat /\ refuted'[u] \in Nat
      BY <1>3 DEF MemTypeOK
    <3>4. CASE verdicts[u].durable BY <1>3, <3>1, <3>2, <3>3, <3>4 DEF Ground
    <3>5. CASE ~verdicts[u].durable BY <1>3, <3>1, <3>2, <3>3, <3>5 DEF Ground
    <3> QED BY <3>4, <3>5
  <2> QED BY <2>1, <2>2
<1>6. \A v \in Writer : v # w => writer'[v] = writer[v] BY <1>2 DEF MemTypeOK
<1>7. writer'[w] = [writer[w] EXCEPT !.at = "done"] BY <1>2 DEF MemTypeOK
<1>8. ProbesHonest' BY <1>6, <1>7 DEF ProbesHonest, Mem!Answers, MemTypeOK, Call
<1>9. Mem!BeliefBounded'
  <2> SUFFICES ASSUME NEW v \in Writer, writer'[v].at = "done",
                      (writer'[v].answer = "ok") # writer'[v].kept
               PROVE  Mem!Recent(IF writer'[v].answer = "ok" THEN proven'[writer'[v].scope]
                                                    ELSE refuted'[writer'[v].scope],
                             writer'[v].now)
    BY DEF Mem!BeliefBounded, Mem!Told, Ground, Mem!Recent
  <2>1. v # w
    <3> SUFFICES ASSUME v = w PROVE FALSE OBVIOUS
    <3>1. writer'[w].answer = writer[w].answer /\ writer'[w].kept = writer[w].kept
      BY <1>7 DEF MemTypeOK, Call
    <3>2. writer[w].answer = Mem!Answers(writer[w].kept) BY <1>2 DEF ProbesHonest
    <3> QED BY <1>1, <3>1, <3>2 DEF Mem!Answers
  <2>2. Mem!Recent(Ground(writer[v].scope, writer[v].answer = "ok"), writer[v].now)
    BY <1>6, <2>1 DEF Mem!BeliefBounded, Mem!Told, Ground
  <2>3. writer[v].scope \in Scopes /\ writer[v].now \in Nat BY DEF MemTypeOK, Call
  <2>4. CASE writer[v].answer = "ok"
    BY StandingAssumption, <1>3, <1>6, <2>1, <2>2, <2>3, <2>4 DEF Ground, Mem!Recent, MemTypeOK
  <2>5. CASE writer[v].answer # "ok"
    BY StandingAssumption, <1>3, <1>6, <2>1, <2>2, <2>3, <2>5 DEF Ground, Mem!Recent, MemTypeOK
  <2> QED BY <2>4, <2>5
<1> QED BY <1>4, <1>5, <1>8, <1>9

\* The clock, the store's ways, and a cache that is emptied.
LEMMA OthersHold == ASSUME Grounded, Mem!Tick \/ Mem!Flip \/ Mem!Clear PROVE Grounded'
<1> USE DEF Grounded
<1>1. /\ UNCHANGED <<writer, proven, refuted>>
      /\ verdicts' = verdicts \/ verdicts' = [s \in Scopes |-> Mem!NoVerdict]
  BY DEF Mem!Tick, Mem!Flip, Mem!Clear
<1>2. MemTypeOK'
  <2>1. keeps' \in BOOLEAN BY Zenon DEF MemTypeOK, Mem!Tick, Mem!Flip, Mem!Clear
  <2>2. clock' \in Nat BY DEF MemTypeOK, Mem!Tick, Mem!Flip, Mem!Clear
  <2>3. Mem!NoVerdict \in [durable : BOOLEAN, at : Nat] BY StandingAssumption DEF Mem!NoVerdict
  <2>4. verdicts' \in [Scopes -> [durable : BOOLEAN, at : Nat]]
    BY <1>1, <2>3, Zenon DEF MemTypeOK
  <2> QED BY <1>1, <2>1, <2>2, <2>4 DEF MemTypeOK
<1>3. VerdictsGrounded' BY <1>1 DEF VerdictsGrounded, Ground, Mem!NoVerdict
<1>4. ProbesHonest' BY <1>1 DEF ProbesHonest, Mem!Answers
<1>5. Mem!BeliefBounded' BY <1>1 DEF Mem!BeliefBounded, Mem!Told, Mem!Recent
<1> QED BY <1>2, <1>3, <1>4, <1>5

\* Every step of the memory keeps its beliefs grounded.
LEMMA MemoryStep == ASSUME Grounded, [Mem!Next]_memVars PROVE Grounded'
<1>1. ASSUME NEW w \in Writer, NEW s \in Scopes, Mem!Store(w, s) PROVE Grounded'
  BY <1>1, StoreHolds
<1>2. ASSUME NEW w \in Writer, Mem!ReadClock(w) PROVE Grounded' BY <1>2, ReadClockHolds
<1>3. ASSUME NEW w \in Writer, Mem!Believe(w) PROVE Grounded' BY <1>3, BelieveHolds
<1>4. ASSUME NEW w \in Writer, Mem!Probe(w) PROVE Grounded' BY <1>4, ProbeHolds
<1>5. ASSUME NEW w \in Writer, Mem!Record(w) PROVE Grounded' BY <1>5, RecordHolds
<1>6. ASSUME Mem!Tick \/ Mem!Flip \/ Mem!Clear PROVE Grounded' BY <1>6, OthersHold
<1>7. ASSUME UNCHANGED memVars PROVE Grounded'
  BY <1>7 DEF memVars, Grounded, MemTypeOK, VerdictsGrounded, Ground, Mem!NoVerdict, ProbesHonest,
              Mem!Answers, Mem!BeliefBounded, Mem!Told, Mem!Recent
<1> QED BY <1>1, <1>2, <1>3, <1>4, <1>5, <1>6, <1>7 DEF Mem!Next

(***************************************************************************)
(* BeliefHolds: `remember` (memory/mod.rs) tells a writer the opposite of  *)
(* what became of its write only within a Ttl of a probe in that scope     *)
(* that came to what it is told, for any writers, scopes, Ttl and store.   *)
(***************************************************************************)
THEOREM BeliefHolds == AllSpec => []BeliefBounded
<1>1. AllInit => Grounded
  BY MemoryInit DEF AllInit
<1>2. [AllNext]_all => [Mem!Next]_memVars
  BY DEF AllNext, all, memVars
<1>3. Grounded /\ [Mem!Next]_memVars => Grounded'
  BY MemoryStep
<1>4. Grounded => BeliefBounded
  BY DEF Grounded, BeliefBounded
<1> QED  BY <1>1, <1>2, <1>3, <1>4, PTL DEF AllSpec

-----------------------------------------------------------------------------
(***************************************************************************)
(* What a stop test is: every condition is one of the five kinds, holds    *)
(* those it is composed of ahead of it, and the last one is the whole.     *)
(***************************************************************************)
Rules == Stp!Leaf \cup Stp!Operator

Condition == [rule : Rules, inner : Seq(Nat), fired : Outcome \cup {Stp!NotFired}]

Composed ==
  /\ cond \in Seq(Condition)
  /\ Stp!Whole >= 1
  /\ \A c \in DOMAIN cond : \A i \in DOMAIN cond[c].inner : cond[c].inner[i] \in 1 .. c - 1
  /\ acc \in States

\* The compositions, resets and readings of a stop test keep it one.
LEMMA ComposedInit == AllInit => Composed
<1> SUFFICES ASSUME AllInit PROVE Composed
  OBVIOUS
<1>1. PICK rule \in Rules : cond = <<Stp!New(rule, << >>)>>
  BY DEF AllInit, Stp!Init, Rules
<1>2. acc \in States
  BY DEF AllInit, Stp!Init
<1>3. Stp!New(rule, << >>) \in Condition
  BY DEF Condition, Stp!New
<1> QED  BY <1>1, <1>2, <1>3 DEF Composed, Stp!Whole, Stp!New

\* Every step of a stop test keeps it one.
LEMMA ComposedStep == ASSUME Composed, [Stp!Next]_stpVars PROVE Composed'
<1>0. /\ Len(cond) \in Nat /\ DOMAIN cond = 1 .. Len(cond)
      /\ \A c \in DOMAIN cond : cond[c] \in Condition
      /\ \A c \in DOMAIN cond : \A i \in DOMAIN cond[c].inner : cond[c].inner[i] \in 1 .. c - 1
      /\ Len(cond) >= 1
  BY DEF Composed, Stp!Whole
<1>1. CASE Stp!Move
  BY <1>1 DEF Composed, Stp!Move, Stp!Whole
<1>2. ASSUME NEW fired, fired \in Outcome \cup {Stp!NotFired},
             cond' = [cond EXCEPT ![Stp!Whole].fired = fired], acc' = acc
      PROVE  Composed'
  <2>1. \A c \in DOMAIN cond : [cond[c] EXCEPT !.fired = fired] \in Condition
    BY <1>0, <1>2 DEF Condition
  <2>2. cond' = [c \in 1 .. Len(cond) |->
                   IF c = Len(cond) THEN [cond[c] EXCEPT !.fired = fired] ELSE cond[c]]
    BY <1>0, <1>2 DEF Stp!Whole
  <2>3. cond' \in Seq(Condition) /\ Len(cond') = Len(cond)
    BY <1>0, <2>1, <2>2
  <2>4. \A c \in DOMAIN cond : cond'[c].inner = cond[c].inner
    BY <1>0, <2>2 DEF Condition
  <2> QED  BY <1>0, <1>2, <2>2, <2>3, <2>4 DEF Composed, Stp!Whole
<1>3. CASE Stp!Evaluate
  <2>1. Stp!Classify(acc) \in Outcome
    BY DEF Stp!Classify, Outcome
  <2>2. acc' = acc
    BY <1>3 DEF Stp!Evaluate
  <2>3. CASE cond' = [cond EXCEPT ![Stp!Whole].fired = Stp!Classify(acc)]
    BY <1>2, <2>1, <2>2, <2>3
  <2>4. CASE cond' = cond
    BY <2>2, <2>4 DEF Composed, Stp!Whole
  <2> QED  BY <1>3, <2>3, <2>4 DEF Stp!Evaluate
<1>4. ASSUME NEW op \in Stp!Operator, NEW leaf \in Stp!Leaf, Stp!Compose(op, leaf)
      PROVE  Composed'
  <2>1. /\ Stp!New(leaf, << >>) \in Condition
        /\ Stp!New(op, <<Len(cond), Len(cond) + 1>>) \in Condition
    BY <1>0 DEF Condition, Rules, Stp!New
  <2>2. cond' = cond \o <<Stp!New(leaf, << >>), Stp!New(op, <<Len(cond), Len(cond) + 1>>)>>
    BY <1>4 DEF Stp!Compose, Stp!Whole
  <2>3. acc' = acc
    BY <1>4 DEF Stp!Compose
  <2>4. /\ cond' \in Seq(Condition)
        /\ Len(cond') = Len(cond) + 2
        /\ \A c \in DOMAIN cond : cond'[c] = cond[c]
        /\ cond'[Len(cond) + 1] = Stp!New(leaf, << >>)
        /\ cond'[Len(cond) + 2] = Stp!New(op, <<Len(cond), Len(cond) + 1>>)
    <3> HIDE DEF Condition
    <3>1. cond \in Seq(Condition)
      BY DEF Composed
    <3> QED  BY <1>0, <2>1, <2>2, <3>1
  <2>5. ASSUME NEW c \in DOMAIN cond', NEW i \in DOMAIN cond'[c].inner
        PROVE  cond'[c].inner[i] \in 1 .. c - 1
    <3>0. c \in DOMAIN cond \/ c = Len(cond) + 1 \/ c = Len(cond) + 2
      BY <1>0, <2>4
    <3>1. CASE c \in DOMAIN cond
      BY <1>0, <2>4, <2>5, <3>1
    <3>2. CASE c = Len(cond) + 1
      BY <2>4, <2>5, <3>2 DEF Stp!New
    <3>3. CASE c = Len(cond) + 2
      BY <1>0, <2>4, <2>5, <3>3 DEF Stp!New
    <3> QED  BY <3>0, <3>1, <3>2, <3>3
  <2> QED  BY <1>0, <2>3, <2>4, <2>5 DEF Composed, Stp!Whole
<1>5. CASE Stp!Reset
  <2>1. cond' = [c \in 1 .. Len(cond) |-> [cond[c] EXCEPT !.fired = Stp!NotFired]]
    BY <1>0, <1>5 DEF Stp!Reset
  <2>2. \A c \in DOMAIN cond : /\ [cond[c] EXCEPT !.fired = Stp!NotFired] \in Condition
                              /\ cond'[c].inner = cond[c].inner
    BY <1>0, <2>1 DEF Condition
  <2>3. cond' \in Seq(Condition) /\ Len(cond') = Len(cond)
    BY <1>0, <2>1, <2>2
  <2>4. acc' = acc
    BY <1>5 DEF Stp!Reset
  <2> QED  BY <1>0, <2>1, <2>2, <2>3, <2>4 DEF Composed, Stp!Whole
<1>6. CASE UNCHANGED stpVars
  BY <1>6 DEF stpVars, Composed, Stp!Whole
<1> QED  BY <1>1, <1>3, <1>4, <1>5, <1>6 DEF Stp!Next

\* So it is one throughout.
LEMMA ComposedHolds == AllSpec => []Composed
<1>1. [AllNext]_all => [Stp!Next]_stpVars
  BY DEF AllNext, all, stpVars
<1>2. Composed /\ [AllNext]_all => Composed'
  BY <1>1, ComposedStep
<1> QED  BY <1>2, ComposedInit, PTL DEF AllSpec

(***************************************************************************)
(* OneEndingHolds: however a stop test is asked, composed with others and  *)
(* reset while the run's state moves, the ending it reports is that of the *)
(* first state it was asked about and held for.                            *)
(***************************************************************************)
THEOREM OneEndingHolds == AllSpec => []OneEnding
<1>1. AllInit => OneEnding
  <2> SUFFICES ASSUME AllInit PROVE OneEnding
    OBVIOUS
  <2>1. PICK rule : cond = <<Stp!New(rule, << >>)>> /\ first = Stp!NotFired
    BY DEF AllInit, Stp!Init
  <2> QED  BY <2>1 DEF OneEnding, Stp!OneEnding, Stp!Whole, Stp!New
<1>2. Composed /\ OneEnding /\ [Stp!Next]_stpVars => OneEnding'
  <2> SUFFICES ASSUME Composed, OneEnding, [Stp!Next]_stpVars
               PROVE  OneEnding'
    OBVIOUS
  <2>0. /\ cond \in Seq(Condition) /\ Len(cond) \in Nat /\ Len(cond) >= 1
        /\ DOMAIN cond = 1 .. Len(cond)
        /\ cond[Len(cond)].fired = first
        /\ \A c \in DOMAIN cond : cond[c] \in Condition
    BY DEF Composed, OneEnding, Stp!OneEnding, Stp!Whole
  <2> SUFFICES cond'[Len(cond')].fired = first'
    BY DEF OneEnding, Stp!OneEnding, Stp!Whole
  <2>1. CASE Stp!Evaluate
    <3>1. cond[Len(cond)] \in Condition
      BY <2>0
    <3>2. CASE first = Stp!NotFired /\ Stp!HoldsFor(acc)
      <4>1. /\ cond' = [cond EXCEPT ![Len(cond)].fired = Stp!Classify(acc)]
            /\ first' = Stp!Classify(acc)
        BY <2>0, <2>1, <3>2 DEF Stp!Evaluate, Stp!FirstHeld, Stp!Whole
      <4>2. Len(cond') = Len(cond)
        BY <2>0, <4>1
      <4> QED  BY <2>0, <3>1, <4>1, <4>2 DEF Condition
    <3>3. CASE ~ (first = Stp!NotFired /\ Stp!HoldsFor(acc))
      BY <2>0, <2>1, <3>3 DEF Stp!Evaluate, Stp!FirstHeld, Stp!Whole
    <3> QED  BY <3>2, <3>3
  <2>2. ASSUME NEW op \in Stp!Operator, NEW leaf \in Stp!Leaf, Stp!Compose(op, leaf)
        PROVE  cond'[Len(cond')].fired = first'
    BY <2>0, <2>2 DEF Stp!Compose, Stp!Whole, Stp!New
  <2>3. CASE Stp!Reset
    <3>1. /\ cond' = [c \in 1 .. Len(cond) |-> [cond[c] EXCEPT !.fired = Stp!NotFired]]
          /\ first' = Stp!NotFired
      BY <2>0, <2>3 DEF Stp!Reset
    <3>2. Len(cond') = Len(cond)
      BY <2>0, <3>1
    <3>3. cond[Len(cond)] \in Condition
      BY <2>0
    <3> QED  BY <2>0, <3>1, <3>2, <3>3 DEF Condition
  <2>4. CASE Stp!Move \/ UNCHANGED stpVars
    BY <2>0, <2>4 DEF Stp!Move, stpVars
  <2> QED  BY <2>1, <2>2, <2>3, <2>4 DEF Stp!Next
<1>3. [AllNext]_all => [Stp!Next]_stpVars
  BY DEF AllNext, all, stpVars
<1> QED  BY <1>1, <1>2, <1>3, ComposedHolds, PTL DEF AllSpec

(***************************************************************************)
(* The rendered rule and the Rust one agree.  Each is a recursion over the *)
(* tree, and the two recur by one equation: where the leaves agree, and an *)
(* empty join is what "all" and "any" of nothing are.                      *)
(***************************************************************************)
LEMMA RenderingAgrees ==
  ASSUME NEW state \in States
  PROVE  Stp!TerminalCondition(state) <=> Stp!IsTerminal(state)
<1>1. \A c \in Counter, f \in ThresholdField :
        Stp!Reached(state, c, f) <=> state.counts[c] >= state.profile.thresholds[f]
  BY StandingAssumption DEF Stp!Reached, Stp!Counted, Stp!Addressed, Thresholds
<1>2. /\ Stp!Reached(state, "blocked", "blocked")
           <=> state.counts["blocked"] >= state.profile.thresholds["blocked"]
      /\ Stp!Reached(state, "attempts", "max_attempts")
           <=> state.counts["attempts"] >= state.profile.thresholds["max_attempts"]
      /\ Stp!Reached(state, "unverified", "unverified")
           <=> state.counts["unverified"] >= state.profile.thresholds["unverified"]
      /\ Stp!Reached(state, "restarts", "max_restarts")
           <=> state.counts["restarts"] >= state.profile.thresholds["max_restarts"]
  BY <1>1 DEF Counter, ThresholdField
<1>3. Stp!RouteOf(state) \in Stp!TerminalRoute <=>
        \/ state.counts["blocked"] >= state.profile.thresholds["blocked"]
        \/ state.solved
        \/ state.counts["attempts"] >= state.profile.thresholds["max_attempts"]
        \/ state.counts["unverified"] >= state.profile.thresholds["unverified"]
  BY DEF Stp!RouteOf, Stp!TerminalRoute
<1> QED  BY <1>2, <1>3 DEF Stp!TerminalCondition, Stp!IsTerminal

\* In a stop test the rendered rule and the Rust rule hold of the same states.
LEMMA HeadStands == Composed => HeadAgrees
<1> SUFFICES ASSUME Composed, NEW state \in States
             PROVE  Stp!Program(state) <=> Stp!HoldsFor(state)
  BY DEF HeadAgrees, Stp!HeadAgrees
<1> DEFINE Rule(c) == cond[c].rule
           Inner(c) == Stp!ToSet(cond[c].inner)
           Holds(f, c) ==
             \/ Rule(c) = "terminal" /\ Stp!IsTerminal(state)
             \/ Rule(c) = "expired" /\ state.expired
             \/ Rule(c) = "solved" /\ state.solved
             \/ Rule(c) = "all" /\ \A i \in Inner(c) : f[i]
             \/ Rule(c) = "any" /\ \E i \in Inner(c) : f[i]
           Runs(f, c) ==
             \/ Rule(c) = "terminal" /\ Stp!TerminalCondition(state)
             \/ Rule(c) = "expired" /\ state.expired
             \/ Rule(c) = "solved" /\ state.solved
             \/ Rule(c) \in Stp!Operator /\ Inner(c) = {} /\ Stp!EmptyJoin(Rule(c))
             \/ Rule(c) = "all" /\ Inner(c) # {} /\ \A i \in Inner(c) : f[i]
             \/ Rule(c) = "any" /\ Inner(c) # {} /\ \E i \in Inner(c) : f[i]
<1>1. ASSUME NEW f, NEW c \in DOMAIN cond
      PROVE  Holds(f, c) = Runs(f, c)
  <2>1. Stp!TerminalCondition(state) <=> Stp!IsTerminal(state)
    BY RenderingAgrees
  <2>2. Rule(c) \in Rules
    <3>1. cond[c] \in Condition
      <4> HIDE DEF Holds, Runs, Rule, Inner, Condition
      <4> QED  BY ElementOfSeq DEF Composed
    <3> QED  BY <3>1 DEF Condition
  <2> HIDE DEF Rule, Inner
  <2> QED  BY <2>1, <2>2 DEF Rules, Stp!Leaf, Stp!Operator, Stp!EmptyJoin
<1>2. (CHOOSE f : f = [c \in DOMAIN cond |-> Holds(f, c)])
        = (CHOOSE f : f = [c \in DOMAIN cond |-> Runs(f, c)])
  <2>1. ASSUME NEW f
        PROVE  [c \in DOMAIN cond |-> Holds(f, c)] = [c \in DOMAIN cond |-> Runs(f, c)]
    <3> HIDE DEF Holds, Runs
    <3> QED  BY <1>1
  <2>2. \A f : (f = [c \in DOMAIN cond |-> Holds(f, c)])
                <=> (f = [c \in DOMAIN cond |-> Runs(f, c)])
    <3> HIDE DEF Holds, Runs
    <3> QED BY <2>1
  <2> DEFINE A(f) == f = [c \in DOMAIN cond |-> Holds(f, c)]
             B(f) == f = [c \in DOMAIN cond |-> Runs(f, c)]
  <2>3. \A f : A(f) <=> B(f)
    BY <2>2
  <2>4. (CHOOSE f : A(f)) = (CHOOSE f : B(f))
    <3> HIDE DEF A, B
    <3> QED  BY <2>3
  <2> QED  BY <2>4
<1>3. Stp!HoldsFor(state) = (CHOOSE f : f = [c \in DOMAIN cond |-> Holds(f, c)])[Stp!Whole]
  BY DEF Stp!HoldsFor
<1>4. Stp!Program(state) = (CHOOSE f : f = [c \in DOMAIN cond |-> Runs(f, c)])[Stp!Whole]
  BY DEF Stp!Program
<1> QED
  <2> HIDE DEF Holds, Runs
  <2> QED  BY <1>2, <1>3, <1>4

(***************************************************************************)
(* HeadHolds: for any stop test a host composes, the loop head of the      *)
(* emitted graph stops at exactly the states the Rust rule holds for.      *)
(***************************************************************************)
THEOREM HeadHolds == AllSpec => []HeadAgrees
<1> QED  BY ComposedHolds, HeadStands, PTL

-----------------------------------------------------------------------------
(***************************************************************************)
(* The meter, for every width of its counters, every budget and every      *)
(* fan-out of tool calls.  What is proved of it alone holds of it beside   *)
(* the other two.                                                          *)
(***************************************************************************)
LEMMA MeterRuns == AllSpec => Spec
<1>1. AllInit => Init
  BY DEF AllInit
<1>2. [AllNext]_all => [Next]_vars
  BY DEF AllNext, all
<1> QED  BY <1>1, <1>2, PTL DEF AllSpec, Spec

(***************************************************************************)
(* Saturating addition stays in its width, never falls, and moves by what  *)
(* is added until it reaches the top.                                      *)
(***************************************************************************)
LEMMA SaturatingAdd ==
  ASSUME NEW m \in U32, NEW n \in Nat
  PROVE  /\ SatAdd(m, n) \in U32
         /\ SatAdd(m, n) >= m
         /\ SatAdd(m, n) = m + n \/ (SatAdd(m, n) = MaxU32 /\ m + n > MaxU32)
  BY WidthAssumption DEF U32, SatAdd, Clamped

\* A saturating sum of tokens or time is in its width, and no smaller.
LEMMA SaturatingAdd64 ==
  ASSUME NEW m \in U64, NEW n \in Nat
  PROVE  SatAdd64(m, n) \in U64 /\ SatAdd64(m, n) >= m
  BY WidthAssumption DEF U64, SatAdd64, Clamped

\* A state of a meter no later than another.
NoLater(m, n) ==
  /\ m.iterations <= n.iterations
  /\ m.model_calls <= n.model_calls
  /\ m.tool_calls <= n.tool_calls
  /\ m.tokens <= n.tokens
  /\ m.elapsed <= n.elapsed

(***************************************************************************)
(* Every step leaves every reading inside its width.                       *)
(***************************************************************************)
LEMMA TypeStep ==
  ASSUME TypeOK, [Next]_vars
  PROVE  TypeOK'
<1> USE CallsPerTurnAssumption DEF TypeOK, Meter
<1>0. 1 \in Nat /\ Spends \subseteq Nat
  BY MeteringAssumption, WidthAssumption DEF U64
<1>1. ASSUME NEW signal \in BOOLEAN, Pass(signal)
      PROVE  TypeOK'
  <2>1. /\ SatAdd(meter.iterations, 1) \in U32
        /\ SatAdd(meter.effective, 1) \in U32
        /\ SatAdd(meter.inert, 1) \in U32
    BY <1>0, SaturatingAdd
  <2> QED  BY <1>1, <2>1 DEF Pass, MeterPass
<1>2. ASSUME NEW n \in Spends, ModelCall(n)
      PROVE  TypeOK'
  <2>1. SatAdd(meter.model_calls, 1) \in U32 /\ SatAdd64(meter.tokens, n) \in U64
    BY <1>0, SaturatingAdd, SaturatingAdd64
  <2>2. meter' \in Meter
    BY <1>2, <2>1 DEF ModelCall, MeterModelCall
  <2>3. caps' \in Caps /\ turn' \in 0 .. CallsPerTurn
    BY <1>2 DEF ModelCall
  <2> QED  BY <2>2, <2>3
<1>3. CASE ToolCall
  <2>1. SatAdd(meter.tool_calls, 1) \in U32
    BY <1>0, SaturatingAdd
  <2> QED  BY <1>3, <2>1 DEF ToolCall, MeterToolCall
<1>4. ASSUME NEW d \in Spends, Advance(d)
      PROVE  TypeOK'
  <2>1. SatAdd64(meter.elapsed, d) \in U64
    BY <1>0, SaturatingAdd64
  <2> QED  BY <1>4, <2>1 DEF Advance, MeterAdvance
<1>5. CASE UNCHANGED vars
  BY <1>5 DEF vars
<1> QED  BY <1>1, <1>2, <1>3, <1>4, <1>5 DEF Next

(***************************************************************************)
(* TypeCorrect: no reading of a meter ever leaves its width.               *)
(***************************************************************************)
THEOREM TypeCorrect == Spec => []TypeOK
<1>1. Init => TypeOK
  BY MeteringAssumption, CallsPerTurnAssumption, WidthAssumption
     DEF Init, TypeOK, FreshMeter, Meter, U32, U64
<1>2. TypeOK /\ [Next]_vars => TypeOK'
  BY TypeStep
<1> QED  BY <1>1, <1>2, PTL DEF Spec

(***************************************************************************)
(* No step, of any kind, takes a reading back, nor touches the caps.       *)
(***************************************************************************)
LEMMA NothingGoesBack ==
  ASSUME TypeOK, [Next]_vars
  PROVE  NoLater(meter, meter') /\ caps' = caps
<1> USE DEF TypeOK, Meter, NoLater
<1>0. 1 \in Nat /\ Spends \subseteq Nat
  BY MeteringAssumption, WidthAssumption DEF U64
<1>a. \A x \in U32 \cup U64 : x \in Int /\ x <= x
  BY WidthAssumption DEF U32, U64
<1>1. ASSUME NEW signal \in BOOLEAN, Pass(signal)
      PROVE  NoLater(meter, meter') /\ caps' = caps
  <2>1. SatAdd(meter.iterations, 1) >= meter.iterations
    BY <1>0, SaturatingAdd
  <2> QED  BY <1>1, <1>a, <2>1, WidthAssumption DEF Pass, MeterPass
<1>2. ASSUME NEW n \in Spends, ModelCall(n)
      PROVE  NoLater(meter, meter') /\ caps' = caps
  <2>1. /\ SatAdd(meter.model_calls, 1) >= meter.model_calls
        /\ SatAdd64(meter.tokens, n) >= meter.tokens
    BY <1>0, SaturatingAdd, SaturatingAdd64
  <2> QED  BY <1>2, <1>a, <2>1 DEF ModelCall, MeterModelCall
<1>3. CASE ToolCall
  <2>1. SatAdd(meter.tool_calls, 1) >= meter.tool_calls
    BY <1>0, SaturatingAdd
  <2> QED  BY <1>3, <1>a, <2>1 DEF ToolCall, MeterToolCall
<1>4. ASSUME NEW d \in Spends, Advance(d)
      PROVE  NoLater(meter, meter') /\ caps' = caps
  <2>1. SatAdd64(meter.elapsed, d) >= meter.elapsed
    BY <1>0, SaturatingAdd64
  <2> QED  BY <1>4, <1>a, <2>1 DEF Advance, MeterAdvance
<1>5. CASE UNCHANGED vars
  BY <1>5, <1>a DEF vars
<1> QED  BY <1>1, <1>2, <1>3, <1>4, <1>5 DEF Next

(***************************************************************************)
(* ReachedForGood: a bound once reached stays reached, and what is         *)
(* reported only moves outward (TrippedStays).                             *)
(***************************************************************************)
THEOREM ReachedForGood == Spec => TrippedStays
<1>1. ASSUME TypeOK, [Next]_vars
      PROVE  Scope(Tripped(caps, meter)') <= Scope(Tripped(caps, meter))
  <2>1. NoLater(meter, meter') /\ caps' = caps
    BY <1>1, NothingGoesBack
  <2>2. /\ meter' \in [iterations : Int, model_calls : Int, tool_calls : Int,
                       tokens : Int, elapsed : Int, effective : Int, inert : Int]
        /\ caps \in [CapName -> Int]
        /\ meter \in Meter
    <3>1. TypeOK'
      BY <1>1, TypeStep
    <3> QED  BY <1>1, <3>1, WidthAssumption DEF TypeOK, Meter, Caps, U32, U64
  <2> QED  BY <2>1, <2>2, WidthAssumption
           DEF NoLater, Tripped, Scope, CapName, NoBound, Meter, U32, U64
<1> QED  BY <1>1, TypeCorrect, PTL DEF Spec, TrippedStays

(***************************************************************************)
(* MetersAgree: effective and inert passes account for the raw ones, at    *)
(* the ceiling as below it (TwoMeters).                                    *)
(***************************************************************************)
THEOREM MetersAgree == Spec => []TwoMeters
<1>1. Init => TwoMeters
  BY WidthAssumption DEF Init, TwoMeters, FreshMeter, SatAdd, Clamped
<1>2. TypeOK /\ TwoMeters /\ [Next]_vars => TwoMeters'
  <2> SUFFICES ASSUME TypeOK, TwoMeters, [Next]_vars
               PROVE  TwoMeters'
    OBVIOUS
  <2>0. /\ meter \in Meter
        /\ meter.iterations \in 0 .. MaxU32
        /\ meter.effective \in 0 .. MaxU32
        /\ meter.inert \in 0 .. MaxU32
    BY DEF TypeOK, Meter, U32
  <2>1. ASSUME NEW signal \in BOOLEAN, Pass(signal)
        PROVE  TwoMeters'
    <3>1. CASE signal
      <4>1. /\ meter'.iterations = SatAdd(meter.iterations, 1)
            /\ meter'.effective = SatAdd(meter.effective, 1)
            /\ meter'.inert = meter.inert
        BY <2>0, <2>1, <3>1 DEF Pass, MeterPass, Meter
      <4> QED  BY <2>0, <4>1, WidthAssumption DEF TwoMeters, SatAdd, Clamped
    <3>2. CASE ~signal
      <4>1. /\ meter'.iterations = SatAdd(meter.iterations, 1)
            /\ meter'.effective = meter.effective
            /\ meter'.inert = SatAdd(meter.inert, 1)
        BY <2>0, <2>1, <3>2 DEF Pass, MeterPass, Meter
      <4> QED  BY <2>0, <4>1, WidthAssumption DEF TwoMeters, SatAdd, Clamped
    <3> QED  BY <3>1, <3>2
  <2>2. CASE \E n \in Spends : ModelCall(n)
    BY <2>0, <2>2 DEF ModelCall, MeterModelCall, TwoMeters, Meter
  <2>3. CASE ToolCall
    BY <2>0, <2>3 DEF ToolCall, MeterToolCall, TwoMeters, Meter
  <2>4. CASE \E d \in Spends : Advance(d)
    BY <2>0, <2>4 DEF Advance, MeterAdvance, TwoMeters, Meter
  <2>5. CASE UNCHANGED vars
    BY <2>5 DEF vars, TwoMeters
  <2> QED  BY <2>1, <2>2, <2>3, <2>4, <2>5 DEF Next
<1> QED  BY <1>1, <1>2, TypeCorrect, PTL DEF Spec

-----------------------------------------------------------------------------
(***************************************************************************)
(* Why the tool cap is out of reach.  Every tool call was issued by a model*)
(* call, so while model calls are left the tool calls made, and those the  *)
(* last model call may still issue, stay below what the cap admits.  It    *)
(* takes a fan-out that fits in a u32: RunBudget::new computes it with a   *)
(* saturating multiplication, and where it saturates a tool cap within     *)
(* reach is accepted.                                                      *)
(***************************************************************************)
FanOutFits ==
  \A c \in CapSets : c["max_model_calls"] * CallsPerTurn <= MaxU32

IssuedByModelCalls ==
  /\ caps \in CapSets
  /\ Legal(caps)
  /\ meter.model_calls < caps["max_model_calls"] =>
       meter.tool_calls + turn <= meter.model_calls * CallsPerTurn

\* One factor more, while below n, stays within n times k.
LEMMA OneMoreFits ==
  ASSUME NEW m \in Nat, NEW n \in Nat, NEW k \in Nat, m < n
  PROVE  /\ m * k + k = (m + 1) * k
         /\ (m + 1) * k <= n * k
         /\ n * k \in Nat
<1>1. PICK d \in Nat : n = (m + 1) + d
  BY n = (m + 1) + (n - m - 1), n - m - 1 \in Nat
<1>2. n * k = (m + 1) * k + d * k /\ d * k \in Nat
  BY <1>1
<1> QED  BY <1>2

(***************************************************************************)
(* NeverTheToolCap: in a validated budget whose fan-out fits in a u32, no  *)
(* run ever reports the tool-call cap (ToolCallsUnreachable).              *)
(***************************************************************************)
THEOREM NeverTheToolCap ==
  ASSUME FanOutFits
  PROVE  Spec => []ToolCallsUnreachable
<1> USE CallsPerTurnAssumption, WidthAssumption, MeteringAssumption
<1>1. Init => IssuedByModelCalls
  BY DEF Init, IssuedByModelCalls, FreshMeter
<1>2. TypeOK /\ IssuedByModelCalls /\ [Next]_vars => IssuedByModelCalls'
  <2> SUFFICES ASSUME TypeOK, IssuedByModelCalls, [Next]_vars
               PROVE  IssuedByModelCalls'
    OBVIOUS
  <2>0. /\ meter \in Meter
        /\ meter.model_calls \in 0 .. MaxU32
        /\ meter.tool_calls \in 0 .. MaxU32
        /\ turn \in 0 .. CallsPerTurn
        /\ caps["max_model_calls"] \in 0 .. MaxU32
    BY DEF TypeOK, Meter, U32, U64, Caps, CapName, WideCap
  <2>1. CASE \E signal \in BOOLEAN : Pass(signal)
    BY <2>0, <2>1 DEF Pass, MeterPass, IssuedByModelCalls, Meter
  <2>2. ASSUME NEW n \in Spends, ModelCall(n)
        PROVE  IssuedByModelCalls'
    <3>1. /\ meter'.model_calls = SatAdd(meter.model_calls, 1)
          /\ meter'.tool_calls = meter.tool_calls
          /\ turn' = CallsPerTurn /\ caps' = caps
      BY <2>0, <2>2 DEF ModelCall, MeterModelCall, Meter
    <3>2. CASE meter.model_calls < caps["max_model_calls"]
      <4>1. meter'.model_calls = meter.model_calls + 1
        BY <2>0, <3>1, <3>2 DEF SatAdd, Clamped
      <4>2. meter.model_calls * CallsPerTurn + CallsPerTurn
              = meter'.model_calls * CallsPerTurn
        BY <2>0, <3>2, <4>1, OneMoreFits
      <4>3. /\ meter.tool_calls <= meter.model_calls * CallsPerTurn
            /\ meter.model_calls * CallsPerTurn \in Nat
        BY <2>0, <3>2 DEF IssuedByModelCalls
      <4>4. meter'.tool_calls + turn' <= meter'.model_calls * CallsPerTurn
        BY <2>0, <3>1, <4>2, <4>3
      <4> QED  BY <3>1, <4>4 DEF IssuedByModelCalls
    <3>3. CASE ~(meter.model_calls < caps["max_model_calls"])
      <4>1. ~(meter'.model_calls < caps'["max_model_calls"])
        BY <2>0, <3>1, <3>3 DEF SatAdd, Clamped
      <4> QED  BY <3>1, <4>1 DEF IssuedByModelCalls
    <3> QED  BY <3>2, <3>3
  <2>3. CASE ToolCall
    <3>1. /\ meter'.model_calls = meter.model_calls
          /\ meter'.tool_calls = SatAdd(meter.tool_calls, 1)
          /\ turn > 0 /\ turn' = turn - 1 /\ caps' = caps
      BY <2>0, <2>3 DEF ToolCall, MeterToolCall, Meter
    <3>2. meter'.tool_calls + turn' <= meter.tool_calls + turn
      BY <2>0, <3>1 DEF SatAdd, Clamped
    <3>3. meter.model_calls * CallsPerTurn \in Nat /\ meter'.tool_calls \in Int
      BY <2>0, <3>1 DEF SatAdd, Clamped
    <3> QED  BY <2>0, <3>1, <3>2, <3>3 DEF IssuedByModelCalls
  <2>4. CASE \E d \in Spends : Advance(d)
    BY <2>0, <2>4 DEF Advance, MeterAdvance, IssuedByModelCalls, Meter
  <2>5. CASE UNCHANGED vars
    BY <2>5 DEF vars, IssuedByModelCalls
  <2> QED  BY <2>1, <2>2, <2>3, <2>4, <2>5 DEF Next
<1>3. TypeOK /\ IssuedByModelCalls => ToolCallsUnreachable
  <2> SUFFICES ASSUME TypeOK, IssuedByModelCalls,
                      Tripped(caps, meter) = "tool_calls"
               PROVE  FALSE
    BY DEF ToolCallsUnreachable
  <2>0. /\ meter.model_calls \in Nat
        /\ meter.tool_calls \in Nat
        /\ turn \in Nat
        /\ caps["max_model_calls"] \in Nat
        /\ caps["max_tool_calls"] \in Nat
    BY DEF TypeOK, Meter, U32, U64, Caps, CapName
  <2>1. /\ ~(meter.model_calls >= caps["max_model_calls"])
        /\ meter.tool_calls >= caps["max_tool_calls"]
    BY DEF Tripped, NoBound
  <2>2. caps["max_model_calls"] * CallsPerTurn \in Nat
        /\ caps["max_tool_calls"] >= caps["max_model_calls"] * CallsPerTurn
    <3>1. caps["max_model_calls"] * CallsPerTurn <= MaxU32
      BY DEF IssuedByModelCalls, FanOutFits
    <3>2. caps["max_tool_calls"] >= SatMul(caps["max_model_calls"], CallsPerTurn)
      BY DEF IssuedByModelCalls, Legal
    <3> QED  BY <2>0, <3>1, <3>2 DEF SatMul, Clamped
  <2>3. meter.tool_calls <= meter.model_calls * CallsPerTurn
        /\ meter.model_calls * CallsPerTurn \in Nat
    BY <2>0, <2>1 DEF IssuedByModelCalls
  <2>4. meter.model_calls * CallsPerTurn + CallsPerTurn
          <= caps["max_model_calls"] * CallsPerTurn
    BY <2>0, <2>1, OneMoreFits
  <2> QED  BY <2>0, <2>1, <2>2, <2>3, <2>4
<1> QED  BY <1>1, <1>2, <1>3, TypeCorrect, PTL DEF Spec
=============================================================================
