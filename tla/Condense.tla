------------------------------ MODULE Condense ------------------------------
(***************************************************************************)
(* A history and its compactions (`condense` and `view` of memory/mod.rs). *)
(* A compaction moves the cut forward and lists what it stopped showing;   *)
(* nothing is removed.  A record is named by its place in the history.     *)
(* The caller names the pins and how much to keep anew at every call.      *)
(***************************************************************************)
EXTENDS Naturals, Sequences

CONSTANTS
  MaxEntries           \* bound: records appended

VARIABLES
  appended,            \* how many records the history holds
  condensations,       \* what each compaction recorded
  pins                 \* the pins of the latest call

vars == <<appended, condensations, pins>>

Init ==
  /\ appended = 0
  /\ condensations = << >>
  /\ pins \in SUBSET (1 .. MaxEntries)

\* History::offset
OffsetOf(log) == IF log = << >> THEN 0 ELSE log[Len(log)].offset

\* The records a pass is shown, given the pins and a cut.
View(n, pinned, offset) == {e \in 1 .. n : e > offset \/ e \in pinned}

\* Mutant of Condensed: the cut is made from the beginning again.
CondensedFromStart(n, log, pinned, keep) ==
  IF n <= keep THEN log
  ELSE Append(log, [forgotten |-> (1 .. n - keep) \ pinned, offset |-> n - keep])

\* condense: the log of compactions after it.
Condensed(n, log, pinned, keep) ==
  LET offset == OffsetOf(log)
  IN  IF n - offset <= keep THEN log
      ELSE Append(log, [forgotten |-> ((offset + 1) .. n - keep) \ pinned,
                        offset |-> n - keep])

\* History::append
Remember ==
  /\ appended < MaxEntries
  /\ appended' = appended + 1
  /\ UNCHANGED <<condensations, pins>>

Compact(pinned, keep) ==
  /\ pins' = pinned
  /\ condensations' = Condensed(appended, condensations, pinned, keep)
  /\ UNCHANGED appended

Next ==
  \/ Remember
  \/ \E pinned \in SUBSET (1 .. MaxEntries), keep \in 0 .. MaxEntries :
       Compact(pinned, keep)

Spec == Init /\ [][Next]_vars

-----------------------------------------------------------------------------
(***************************************************************************)
(* ForgottenOnce: however many compactions a history goes through, with    *)
(* whatever pins and limits, no record is forgotten twice, none that is    *)
(* still shown on its own account is forgotten, and asking for the same    *)
(* again changes nothing (memory/mod.rs:229).                              *)
(***************************************************************************)
ForgottenOnce ==
  LET offset == OffsetOf(condensations)
  IN  /\ \A i, j \in DOMAIN condensations : i < j =>
           /\ condensations[i].offset < condensations[j].offset
           /\ condensations[i].forgotten \cap condensations[j].forgotten = {}
      /\ \A i \in DOMAIN condensations :
           condensations[i].forgotten \cap View(appended, {}, offset) = {}
      /\ \A keep \in 0 .. MaxEntries :
           LET once == Condensed(appended, condensations, pins, keep)
           IN  Condensed(appended, once, pins, keep) = once
=============================================================================
