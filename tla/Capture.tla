------------------------------ MODULE Capture ------------------------------
(***************************************************************************)
(* A command's output, bounded while it arrives (BoundedCapture of         *)
(* workspace/types.rs): the first half of the limit is kept as it comes,   *)
(* the rest is a window over the newest bytes, and what falls out of the   *)
(* window is counted.  A byte is named by its place in the output, so      *)
(* `seen`, the length of the output so far, names the last one.            *)
(***************************************************************************)
EXTENDS Naturals, Sequences

CONSTANTS
  Limits,              \* the limits a capture may be built with
  MaxBytes             \* bound: how much a command prints

VARIABLES limit, head, tail, dropped, seen

vars == <<limit, head, tail, dropped, seen>>

HeadLimit == limit \div 2
TailLimit == limit - HeadLimit

Init ==
  /\ limit \in Limits
  /\ head = << >>
  /\ tail = << >>
  /\ dropped = 0
  /\ seen = 0

Arrives ==
  /\ seen < MaxBytes
  /\ seen' = seen + 1
  /\ UNCHANGED limit

\* push_byte, while the head has room.
Keep ==
  /\ Arrives
  /\ Len(head) < HeadLimit
  /\ head' = Append(head, seen + 1)
  /\ UNCHANGED <<tail, dropped>>

\* Mutant of Slide: the window is trimmed before the byte is in it.
SlideLate ==
  /\ Arrives
  /\ Len(head) >= HeadLimit
  /\ TailLimit > 0
  /\ IF Len(tail) > TailLimit
       THEN /\ tail' = Append(Tail(tail), seen + 1)
            /\ dropped' = dropped + 1
       ELSE /\ tail' = Append(tail, seen + 1)
            /\ UNCHANGED dropped
  /\ UNCHANGED head

\* push_byte, into the window; the oldest byte leaves a full one.
Slide ==
  /\ Arrives
  /\ Len(head) >= HeadLimit
  /\ TailLimit > 0
  /\ IF Len(tail) = TailLimit
       THEN /\ tail' = Append(Tail(tail), seen + 1)
            /\ dropped' = dropped + 1
       ELSE /\ tail' = Append(tail, seen + 1)
            /\ UNCHANGED dropped
  /\ UNCHANGED head

\* push_byte, where nothing may be held at all.
Discard ==
  /\ Arrives
  /\ Len(head) >= HeadLimit
  /\ TailLimit = 0
  /\ dropped' = dropped + 1
  /\ UNCHANGED <<head, tail>>

Next == Keep \/ Slide \/ Discard

Spec == Init /\ [][Next]_vars

-----------------------------------------------------------------------------
(***************************************************************************)
(* BothEndsKept: at every byte, however many come, what is held is the     *)
(* beginning and the very end of the output, within the limit; every byte  *)
(* between the two is counted, and nothing is dropped while there is room  *)
(* (workspace/types.rs:191).                                               *)
(***************************************************************************)
BothEndsKept ==
  /\ Len(head) + Len(tail) <= limit
  /\ Len(head) + dropped + Len(tail) = seen
  /\ \A i \in DOMAIN head : head[i] = i
  /\ \A i \in DOMAIN tail : tail[i] = Len(head) + dropped + i
  /\ dropped > 0 => Len(head) + Len(tail) = limit
=============================================================================
