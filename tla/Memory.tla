------------------------------- MODULE Memory -------------------------------
(***************************************************************************)
(* Remembering through a store that may lie (memory/mod.rs): `remember`    *)
(* writes, and believes the write only if a read-back of this or a recent  *)
(* write into the same scope found it.  The verdict is cached per scope    *)
(* for `Ttl`.  Writers share the cache, each of its operations is a lock   *)
(* of its own, and the store may begin and cease to drop writes at any     *)
(* moment.                                                                 *)
(*                                                                         *)
(* Every write has an id of its own, so a read-back finds the write or     *)
(* nothing.  The clock is the caller's and only moves forward.             *)
(***************************************************************************)
EXTENDS Naturals

CONSTANTS
  Writer, Scopes,
  Ttl,                 \* how long a verdict stands
  MaxTime,             \* bound: the last reading of the clock
  MaxFlips             \* bound: times the store changes its ways

NoVerdict == [durable |-> TRUE, at |-> MaxTime + 1]

VARIABLES
  clock,
  keeps, flips,        \* whether the store keeps what it accepts now
  verdicts,            \* ProbeCache: the verdict of each scope
  writer,              \* where each writer is inside `remember`
  proven, refuted      \* history: by scope, one past the latest reading of a
                       \* writer whose probe found its write, or did not; or 0

vars == <<clock, keeps, flips, verdicts, writer, proven, refuted>>

Idle == [at |-> "idle", scope |-> CHOOSE s \in Scopes : TRUE, kept |-> FALSE,
         now |-> 0, answer |-> "none"]

Init ==
  /\ clock = 0
  /\ keeps \in BOOLEAN
  /\ flips = 0
  /\ verdicts = [s \in Scopes |-> NoVerdict]
  /\ writer = [w \in Writer |-> Idle]
  /\ proven = [s \in Scopes |-> 0]
  /\ refuted = [s \in Scopes |-> 0]

Moves(w, from, to) ==
  /\ writer[w].at = from
  /\ writer' = [writer EXCEPT ![w] = to]

\* `store` accepts, and keeps it or not.
Store(w, s) ==
  /\ writer[w].at \in {"idle", "done"}
  /\ writer' = [writer EXCEPT ![w] = [Idle EXCEPT !.at = "stored", !.scope = s,
                                                 !.kept = keeps]]
  /\ UNCHANGED <<clock, keeps, flips, verdicts, proven, refuted>>

\* `clock().now()`, after the write.
ReadClock(w) ==
  /\ Moves(w, "stored", [writer[w] EXCEPT !.at = "timed", !.now = clock])
  /\ UNCHANGED <<clock, keeps, flips, verdicts, proven, refuted>>

\* Mutant of Unexpired: a verdict stands a moment longer.
Lingering(s, now) == verdicts[s] # NoVerdict /\ now <= verdicts[s].at + Ttl

\* ProbeCache::verdict; the difference saturates, so a verdict from a later
\* reading than the writer's own is fresh.
Unexpired(s, now) == verdicts[s] # NoVerdict /\ now < verdicts[s].at + Ttl

Answers(durable) == IF durable THEN "ok" ELSE "refused"

\* A verdict is cached: the writer has its answer.
Believe(w) ==
  LET s == writer[w].scope
  IN  /\ Unexpired(s, writer[w].now)
      /\ Moves(w, "timed", [writer[w] EXCEPT !.at = "done",
                                             !.answer = Answers(verdicts[s].durable)])
      /\ UNCHANGED <<clock, keeps, flips, verdicts, proven, refuted>>

\* None is: the write itself is read back (`fetch`).
Probe(w) ==
  /\ ~Unexpired(writer[w].scope, writer[w].now)
  /\ Moves(w, "timed", [writer[w] EXCEPT !.at = "probed",
                                         !.answer = Answers(writer[w].kept)])
  /\ UNCHANGED <<clock, keeps, flips, verdicts, proven, refuted>>

Later(m, n) == IF m > n THEN m ELSE n

Probed(w) ==
  LET s == writer[w].scope
      past == writer[w].now + 1
  IN  /\ Moves(w, "probed", [writer[w] EXCEPT !.at = "done"])
      /\ proven' = IF writer[w].kept THEN [proven EXCEPT ![s] = Later(@, past)]
                                     ELSE proven
      /\ refuted' = IF writer[w].kept THEN refuted
                                      ELSE [refuted EXCEPT ![s] = Later(@, past)]

\* Mutant of Record: the verdict is filed for every scope.
RecordForAll(w) ==
  /\ Probed(w)
  /\ verdicts' = [s \in Scopes |-> [durable |-> writer[w].kept, at |-> writer[w].now]]
  /\ UNCHANGED <<clock, keeps, flips>>

\* ProbeCache::record, stamped with the reading taken before the probe.  It
\* overwrites whatever another writer filed meanwhile, newer or not.
Record(w) ==
  /\ Probed(w)
  /\ verdicts' = [verdicts EXCEPT ![writer[w].scope] =
                    [durable |-> writer[w].kept, at |-> writer[w].now]]
  /\ UNCHANGED <<clock, keeps, flips>>

Tick ==
  /\ clock < MaxTime
  /\ clock' = clock + 1
  /\ UNCHANGED <<keeps, flips, verdicts, writer, proven, refuted>>

Flip ==
  /\ flips < MaxFlips
  /\ flips' = flips + 1
  /\ keeps' = ~keeps
  /\ UNCHANGED <<clock, verdicts, writer, proven, refuted>>

\* ProbeCache::clear
Clear ==
  /\ verdicts' = [s \in Scopes |-> NoVerdict]
  /\ UNCHANGED <<clock, keeps, flips, writer, proven, refuted>>

Next ==
  \/ \E w \in Writer :
       \/ \E s \in Scopes : Store(w, s)
       \/ ReadClock(w) \/ Believe(w) \/ Probe(w) \/ Record(w)
  \/ Tick \/ Flip \/ Clear

Spec == Init /\ [][Next]_vars

-----------------------------------------------------------------------------
(***************************************************************************)
(* BeliefBounded: a writer is told the opposite of what became of its      *)
(* write only if it read the clock less than Ttl after a writer whose own  *)
(* write into that scope did come to what it is told.  So a store that     *)
(* begins dropping is caught by the first write a Ttl after the last one   *)
(* it kept, one that never drops is never disbelieved, and one that        *)
(* recovered is believed again, however the writers' probes and verdicts   *)
(* interleave (memory/mod.rs:160).                                         *)
(***************************************************************************)
Told(w) == writer[w].answer = "ok"

\* `latest` as in proven and refuted.
Recent(latest, now) == latest > 0 /\ now + 1 < latest + Ttl

BeliefBounded ==
  \A w \in Writer :
    writer[w].at = "done" /\ Told(w) # writer[w].kept =>
      Recent(IF Told(w) THEN proven[writer[w].scope] ELSE refuted[writer[w].scope],
             writer[w].now)
=============================================================================
