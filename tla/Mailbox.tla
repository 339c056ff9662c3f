------------------------------ MODULE Mailbox ------------------------------
(***************************************************************************)
(* The bounded queue of operator notes (harness/types.rs): threads post,   *)
(* the attempt step takes everything at the start of a pass, and a note    *)
(* that finds the queue full is dropped, counted and reported.  The count  *)
(* moves under the lock; the observer is told after it is released, so     *)
(* other posts and collects come in between.                               *)
(*                                                                         *)
(* A note is named by its poster and its number.  A poisoned lock is taken *)
(* all the same, so a thread that panics changes nothing here.  The pass a *)
(* drop event names is left out: it is whatever a host last set.           *)
(***************************************************************************)
EXTENDS Naturals, Sequences, FiniteSets

CONSTANTS
  Poster,              \* the threads that post
  Capacity,            \* notes held at once
  MaxPosts,            \* bound: notes a poster sends
  MaxPasses            \* bound: passes the loop collects for

ASSUME MailboxAssumption ==
  /\ Capacity \in Nat
  /\ MaxPosts \in Nat
  /\ MaxPasses \in Nat
  /\ IsFiniteSet(Poster)

VARIABLES
  queued,              \* the notes waiting, oldest first
  drops,               \* how many were dropped over the mailbox's life
  telling,             \* posters between the drop and its report
  sent,                \* how many posts each poster has made
  pass,                \* how many passes have collected
  events,              \* the NoteDropped events, by the note they are about
  delivered            \* history: the notes collected, in order

vars == <<queued, drops, telling, sent, pass, events, delivered>>

Note == Poster \X (1 .. MaxPosts)

\* The note a poster sends next, and the one it sent last.
Fresh(p)  == <<p, sent[p] + 1>>
Latest(p) == <<p, sent[p]>>

Init ==
  /\ queued = << >>
  /\ drops = 0
  /\ telling = {}
  /\ sent = [p \in Poster |-> 0]
  /\ pass = 0
  /\ events = << >>
  /\ delivered = << >>

Sends(p) ==
  /\ p \notin telling
  /\ sent[p] < MaxPosts
  /\ sent' = [sent EXCEPT ![p] = @ + 1]

\* Mailbox::post, with room.
Accept(p) ==
  /\ Sends(p)
  /\ Len(queued) < Capacity
  /\ queued' = Append(queued, Fresh(p))
  /\ UNCHANGED <<drops, telling, pass, events, delivered>>

\* Mutant of Drop: the post returns without telling anybody.
DropQuietly(p) ==
  /\ Sends(p)
  /\ Len(queued) >= Capacity
  /\ drops' = drops + 1
  /\ UNCHANGED <<queued, telling, pass, events, delivered>>

\* Mailbox::post, full: the note is counted and handed back.
Drop(p) ==
  /\ Sends(p)
  /\ Len(queued) >= Capacity
  /\ drops' = drops + 1
  /\ telling' = telling \cup {p}
  /\ UNCHANGED <<queued, pass, events, delivered>>

\* The observer, told after the lock is released (SinkDrops::dropped).
Tell(p) ==
  /\ p \in telling
  /\ telling' = telling \ {p}
  /\ events' = Append(events, Latest(p))
  /\ UNCHANGED <<queued, drops, sent, pass, delivered>>

\* Mutants of Collect: only the oldest note is handed on; the notes are read
\* and not taken.
CollectOldest ==
  /\ pass < MaxPasses
  /\ pass' = pass + 1
  /\ delivered' = delivered \o (IF queued = << >> THEN << >> ELSE <<Head(queued)>>)
  /\ queued' = << >>
  /\ UNCHANGED <<drops, telling, sent, events>>

CollectByReading ==
  /\ pass < MaxPasses
  /\ pass' = pass + 1
  /\ delivered' = delivered \o queued
  /\ UNCHANGED <<queued, drops, telling, sent, events>>

\* An attempt begins (Mailbox::collect).
Collect ==
  /\ pass < MaxPasses
  /\ pass' = pass + 1
  /\ delivered' = delivered \o queued
  /\ queued' = << >>
  /\ UNCHANGED <<drops, telling, sent, events>>

Next == Collect \/ \E p \in Poster : Accept(p) \/ Drop(p) \/ Tell(p)

\* A poster is inside `post`, which calls the observer before it returns.
Spec == Init /\ [][Next]_vars /\ \A p \in Poster : WF_vars(Tell(p))

-----------------------------------------------------------------------------
ElementsOf(s) == {s[i] : i \in DOMAIN s}

Reported == ElementsOf(events)

Unreported == {Latest(p) : p \in telling}

(***************************************************************************)
(* TypeOK: the queue never holds more than its capacity, whoever posts.    *)
(***************************************************************************)
TypeOK ==
  /\ queued \in Seq(Note)
  /\ Len(queued) <= Capacity
  /\ drops \in Nat
  /\ telling \subseteq Poster
  /\ sent \in [Poster -> 0 .. MaxPosts]
  /\ pass \in 0 .. MaxPasses
  /\ events \in Seq(Note)
  /\ delivered \in Seq(Note)

(***************************************************************************)
(* NothingVanishes: a note that was sent is delivered or waiting, or else  *)
(* it is reported dropped or its poster is about to; never both.           *)
(***************************************************************************)
Taken == delivered \o queued

NothingVanishes ==
  \A p \in Poster : \A k \in 1 .. sent[p] :
    <<p, k>> \in ElementsOf(Taken) <=> <<p, k>> \notin Reported \cup Unreported

(***************************************************************************)
(* ReadInOrder: no two notes of one poster are read out of order, and none *)
(* is read twice.                                                          *)
(***************************************************************************)
ReadInOrder ==
  \A i, j \in DOMAIN Taken :
    i < j /\ Taken[i][1] = Taken[j][1] => Taken[i][2] < Taken[j][2]

(***************************************************************************)
(* DropsCounted: the count a host reads at the end of a run is the number  *)
(* of losses reported and of those about to be, whatever was collected     *)
(* since.                                                                  *)
(***************************************************************************)
DropsCounted == drops = Len(events) + Cardinality(telling)

(***************************************************************************)
(* DropsReported: no drop is left a number nobody can see: each reaches    *)
(* the journal, whatever the loop and the other posters do meanwhile.      *)
(***************************************************************************)
DropsReported ==
  \A n \in 1 .. MaxPosts * Cardinality(Poster) :
    drops >= n ~> Len(events) >= n
=============================================================================
