------------------------------ MODULE Recorder ------------------------------
(***************************************************************************)
(* One recorder and its views, shared by the threads of a run              *)
(* (observe/mod.rs).  `record` is up to three steps: what the event moves  *)
(* (the current pass, an atomic; the accounting, under a lock), the push   *)
(* to the journal, under a lock, and the sink, told with no lock held.  A  *)
(* node event is stamped with the current pass before any of them.         *)
(*                                                                         *)
(* The driver announces passes in order; every other thread records nodes  *)
(* and model calls.  `report` holds the journal while it reads the         *)
(* accounting, so it tells what the two hold at one moment.                *)
(***************************************************************************)
EXTENDS Naturals, Sequences, FiniteSets

CONSTANTS
  Driver,              \* the thread that announces passes
  Worker,              \* the threads that record nodes and calls
  MaxAnnounced,        \* bound: passes announced
  MaxEvents            \* bound: events a worker records

Thread == {Driver} \cup Worker

VARIABLES
  current,             \* the pass the run is in
  charged,             \* the model calls in the accounting
  entries,             \* the journal, as [from, number, kind, pass]
  lines,               \* what the sink wrote, in order
  sinkDrops,           \* how many it could not write
  hand,                \* by thread, the events inside `record`: none or one
  pushed,              \* the threads between the journal and the sink
  made                 \* by thread, how many events it has recorded

vars == <<current, charged, entries, lines, sinkDrops, hand, pushed, made>>

Init ==
  /\ current = 0
  /\ charged = 0
  /\ entries = << >>
  /\ lines = << >>
  /\ sinkDrops = 0
  /\ hand = [t \in Thread |-> << >>]
  /\ pushed = {}
  /\ made = [t \in Thread |-> 0]

Enters(t, kind, pass) ==
  /\ hand[t] = << >>
  /\ made' = [made EXCEPT ![t] = @ + 1]
  /\ hand' = [hand EXCEPT ![t] =
       <<[from |-> t, number |-> made[t] + 1, kind |-> kind, pass |-> pass]>>]
  /\ UNCHANGED <<entries, lines, sinkDrops, pushed>>

\* Mutant of Announce: the pass is left for the next one to move.
AnnounceTwoAhead ==
  /\ made[Driver] < MaxAnnounced
  /\ Enters(Driver, "pass_started", made[Driver] + 1)
  /\ current' = made[Driver] + 2
  /\ UNCHANGED charged

\* PassStarted: the current pass is stored.  Passes count from one here, so
\* that zero is a run that has announced none.
Announce ==
  /\ made[Driver] < MaxAnnounced
  /\ Enters(Driver, "pass_started", made[Driver] + 1)
  /\ current' = made[Driver] + 1
  /\ UNCHANGED charged

\* ModelCalled, under the pass the harness names: it is accounted for.
Charge(w) ==
  /\ made[w] < MaxEvents
  /\ Enters(w, "model_called", current)
  /\ charged' = charged + 1
  /\ UNCHANGED current

\* on_step_start and the other callbacks, which read the current pass.
Stamp(w) ==
  /\ made[w] < MaxEvents
  /\ Enters(w, "node_entered", current)
  /\ UNCHANGED <<current, charged>>

\* Mutant of Push: a call joins the accounting with its entry, again.
PushCharging(t) ==
  /\ hand[t] # << >>
  /\ t \notin pushed
  /\ entries' = entries \o hand[t]
  /\ pushed' = pushed \cup {t}
  /\ charged' = IF hand[t][1].kind = "model_called" THEN charged + 1 ELSE charged
  /\ UNCHANGED <<current, lines, sinkDrops, hand, made>>

Push(t) ==
  /\ hand[t] # << >>
  /\ t \notin pushed
  /\ entries' = entries \o hand[t]
  /\ pushed' = pushed \cup {t}
  /\ UNCHANGED <<current, charged, lines, sinkDrops, hand, made>>

\* Mutant of Emit: a line that cannot be written is gone.
EmitQuietly(t, written) ==
  /\ t \in pushed
  /\ lines' = IF written THEN lines \o hand[t] ELSE lines
  /\ pushed' = pushed \ {t}
  /\ hand' = [hand EXCEPT ![t] = << >>]
  /\ UNCHANGED <<current, charged, entries, sinkDrops, made>>

\* Sink::emit of the line and JSON sinks: written, or dropped and counted.
Emit(t, written) ==
  /\ t \in pushed
  /\ lines' = IF written THEN lines \o hand[t] ELSE lines
  /\ sinkDrops' = IF written THEN sinkDrops ELSE sinkDrops + 1
  /\ pushed' = pushed \ {t}
  /\ hand' = [hand EXCEPT ![t] = << >>]
  /\ UNCHANGED <<current, charged, entries, made>>

Next ==
  \/ Announce
  \/ \E w \in Worker : Charge(w) \/ Stamp(w)
  \/ \E t \in Thread : Push(t)
  \/ \E t \in Thread, written \in BOOLEAN : Emit(t, written)

Spec == Init /\ [][Next]_vars

-----------------------------------------------------------------------------
ElementsIn(s) == {s[i] : i \in DOMAIN s}

Called(s) == {i \in DOMAIN s : s[i].kind = "model_called"}

(***************************************************************************)
(* SpendCovers: at any moment a report's spend is for every model call its *)
(* journal shows and for those being recorded, no call twice.  It is never *)
(* short of the journal beside it (observe/mod.rs:547).                    *)
(***************************************************************************)
SpendCovers ==
  charged = Cardinality(Called(entries))
              + Cardinality({t \in Thread \ pushed : Called(hand[t]) # {}})

(***************************************************************************)
(* SinkFollows: what the sink has not written of the journal it counted as *)
(* dropped or is about to be told, and no thread's own events reach it out *)
(* of the order that thread recorded them in (observe/mod.rs:557).         *)
(***************************************************************************)
SinkFollows ==
  /\ ElementsIn(lines) \subseteq ElementsIn(entries)
  /\ Len(entries) = Len(lines) + sinkDrops + Cardinality(pushed)
  /\ \A i, j \in DOMAIN lines :
       i < j /\ lines[i].from = lines[j].from => lines[i].number < lines[j].number

(***************************************************************************)
(* StampNearlyAnnounced: a node event is stamped with a pass the journal   *)
(* has announced, or with the one the driver is about to journal: the pass *)
(* is stored first, so it may run ahead by one and no more.                *)
(***************************************************************************)
Announced(n) ==
  Cardinality({i \in 1 .. n : entries[i].kind = "pass_started"})

StampNearlyAnnounced ==
  \A i \in DOMAIN entries : entries[i].pass <= Announced(i) + 1
=============================================================================
