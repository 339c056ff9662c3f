----------------------------- MODULE Workspace -----------------------------
(***************************************************************************)
(* A workspace several writers share (MemoryWorkspace of                   *)
(* workspace/mod.rs).  A write is refused before anything changes, or it   *)
(* inserts the file, lists it as touched, and is checkpointed: locks taken *)
(* in turn.  A snapshot holds the first two at once, so it is what the     *)
(* variables say at some moment; `mark` takes the second alone.            *)
(***************************************************************************)
EXTENDS Naturals, Sequences, FiniteSets

CONSTANTS
  Author,              \* the threads that write
  Path,                \* where the layout files what they propose
  MaxWrites            \* bound: writes an author makes

Nowhere == "nowhere"

VARIABLES
  files,               \* the paths that hold a file
  touched,             \* the paths pushed since the last mark, in order
  commits, failures,   \* the checkpoints made, and the failures reported
  author,              \* [at, path, writes]: where each author is in `write`
  landed,              \* history: the paths inserted since the last mark,
  landings             \* and how many inserts there have been

vars == <<files, touched, commits, failures, author, landed, landings>>

Init ==
  /\ files = {}
  /\ touched = << >>
  /\ commits = 0
  /\ failures = 0
  /\ author = [a \in Author |-> [at |-> "idle", path |-> Nowhere, writes |-> 0]]
  /\ landed = {}
  /\ landings = 0

(***************************************************************************)
(* validate, locate, verify_parent twice: a proposal nothing takes is over *)
(* with no trace.  The layout keeps a proposal's last segment only, so any *)
(* two authors may be given one path.                                      *)
(***************************************************************************)
Propose(a, path, refused) ==
  /\ author[a].at = "idle"
  /\ author[a].writes < MaxWrites
  /\ author' = [author EXCEPT ![a] =
       [at     |-> IF refused THEN "idle" ELSE "verified",
        path   |-> IF refused THEN Nowhere ELSE path,
        writes |-> @.writes + 1]]
  /\ UNCHANGED <<files, touched, commits, failures, landed, landings>>

Goes(a, from, to) ==
  /\ author[a].at = from
  /\ author' = [author EXCEPT ![a].at = to]
  /\ UNCHANGED <<commits, failures>>

Inserts(path) ==
  /\ files' = files \cup {path}
  /\ landed' = landed \cup {path}
  /\ landings' = landings + 1
  /\ UNCHANGED touched

Lists(path) ==
  /\ touched' = Append(touched, path)
  /\ UNCHANGED <<files, landed, landings>>

\* Mutant of Land: the path is listed before the file is there.
LandListedFirst(a) ==
  \/ Goes(a, "verified", "landing") /\ Lists(author[a].path)
  \/ Goes(a, "landing", "landed") /\ Inserts(author[a].path)

\* The bytes land, then the path is listed.
Land(a) ==
  \/ Goes(a, "verified", "landing") /\ Inserts(author[a].path)
  \/ Goes(a, "landing", "landed") /\ Lists(author[a].path)

\* Mutant of Checkpointed: a failed commit fails the write.
CheckpointLost(a, ok) ==
  /\ author[a].at = "landed"
  /\ author' = [author EXCEPT ![a].at = "idle"]
  /\ commits' = IF ok THEN commits + 1 ELSE commits
  /\ UNCHANGED <<files, touched, failures, landed, landings>>

\* Checkpoint::commit; of one that fails the event is all that is left, and
\* the write stands.
Checkpointed(a, ok) ==
  /\ author[a].at = "landed"
  /\ author' = [author EXCEPT ![a].at = "idle"]
  /\ commits' = IF ok THEN commits + 1 ELSE commits
  /\ failures' = IF ok THEN failures ELSE failures + 1
  /\ UNCHANGED <<files, touched, landed, landings>>

Mark ==
  /\ touched' = << >>
  /\ landed' = {}
  /\ UNCHANGED <<files, commits, failures, author, landings>>

Next ==
  \/ \E a \in Author :
       \/ \E path \in Path, refused \in BOOLEAN : Propose(a, path, refused)
       \/ Land(a)
       \/ \E ok \in BOOLEAN : Checkpointed(a, ok)
  \/ Mark

Spec == Init /\ [][Next]_vars

-----------------------------------------------------------------------------
Landing(a) == author[a].at = "landing"

(***************************************************************************)
(* MarkHidesNothing: a file that landed after the last mark is listed as   *)
(* changed, or its writer is about to list it: no mark taken in the middle *)
(* of a write hides the write from the next snapshot (workspace/mod.rs:285)*)
(***************************************************************************)
MarkHidesNothing ==
  \A path \in landed :
    \/ \E i \in DOMAIN touched : touched[i] = path
    \/ \E a \in Author : Landing(a) /\ author[a].path = path

(***************************************************************************)
(* EveryLandingRecorded: every write that landed was checkpointed, or the  *)
(* failure was reported, or its writer has still to try.                   *)
(***************************************************************************)
EveryLandingRecorded ==
  landings = commits + failures
               + Cardinality({a \in Author : author[a].at \in {"landing", "landed"}})

\* NoWriteLost: both, of whatever landed, between any two steps of its write.
NoWriteLost == MarkHidesNothing /\ EveryLandingRecorded
=============================================================================
