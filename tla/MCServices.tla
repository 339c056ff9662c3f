----------------------------- MODULE MCServices -----------------------------
(***************************************************************************)
(* The services a run's threads share, side by side: the mailbox, the      *)
(* workspace, the tool set, the recorder, and the histories and captures   *)
(* they keep.  They share no state and call each other nowhere, so what    *)
(* one does is checked with the others at rest: `subject` is the one that  *)
(* moves.                                                                  *)
(***************************************************************************)
EXTENDS Mailbox

CONSTANTS
  Limits, MaxBytes,
  MaxEntries,
  Author, Path, MaxWrites,
  Caller, ToolName, Granted, MaxRequeries, MaxCalls,
  Driver, Worker, MaxAnnounced, MaxEvents

\* Limits and counts are Rust's usize and u32; threads are finitely many,
\* and the one that announces passes is none of those that record the rest.
ASSUME ServicesAssumption ==
  /\ Limits \subseteq Nat
  /\ MaxRequeries \in Nat
  /\ IsFiniteSet(Author) /\ IsFiniteSet(Caller) /\ IsFiniteSet(Worker)
  /\ Driver \notin Worker

VARIABLES
  subject,
  limit, head, tail, dropped, seen,
  appended, condensations, pins,
  files, touched, commits, failures, author, landed, landings,
  caller, messages, requeries, ended, receipts, ran, evidence, satisfied,
  current, charged, entries, lines, sinkDrops, hand, pushed, made

Cap == INSTANCE Capture
Con == INSTANCE Condense
Wsp == INSTANCE Workspace
Tus == INSTANCE ToolUse
Rec == INSTANCE Recorder

capVars == <<limit, head, tail, dropped, seen>>
conVars == <<appended, condensations, pins>>
wspVars == <<files, touched, commits, failures, author, landed, landings>>
tusVars == <<caller, messages, requeries, ended, receipts, ran, evidence, satisfied>>
recVars == <<current, charged, entries, lines, sinkDrops, hand, pushed, made>>

all == <<subject, vars, capVars, conVars, wspVars, tusVars, recVars>>

AllInit ==
  /\ subject \in {"mailbox", "capture", "history", "workspace", "tools", "recorder"}
  /\ Init
  /\ Cap!Init
  /\ Con!Init
  /\ Wsp!Init
  /\ Tus!Init
  /\ Rec!Init
  \* At rest, a component stays in one of its initial states.
  /\ subject # "capture" => limit = 0
  /\ subject # "history" => pins = {}

Only(name) == subject = name /\ UNCHANGED subject

AllNext ==
  \/ /\ Only("mailbox") /\ Next
     /\ UNCHANGED <<capVars, conVars, wspVars, tusVars, recVars>>
  \/ /\ Only("capture") /\ Cap!Next
     /\ UNCHANGED <<vars, conVars, wspVars, tusVars, recVars>>
  \/ /\ Only("history") /\ Con!Next
     /\ UNCHANGED <<vars, capVars, wspVars, tusVars, recVars>>
  \/ /\ Only("workspace") /\ Wsp!Next
     /\ UNCHANGED <<vars, capVars, conVars, tusVars, recVars>>
  \/ /\ Only("tools") /\ Tus!Next
     /\ UNCHANGED <<vars, capVars, conVars, wspVars, recVars>>
  \/ /\ Only("recorder") /\ Rec!Next
     /\ UNCHANGED <<vars, capVars, conVars, wspVars, tusVars>>

\* The mailbox's fairness; the others promise nothing that needs any.
AllSpec == AllInit /\ [][AllNext]_all /\ \A p \in Poster : WF_vars(Tell(p))

-----------------------------------------------------------------------------
(***************************************************************************)
(* The components' properties, each stated in its own module.              *)
(***************************************************************************)
\* Capture: the two ends of the output are held, what is between is counted.
BothEndsKept == Cap!BothEndsKept

\* Condense: no record is forgotten twice, and a repeat changes nothing.
ForgottenOnce == Con!ForgottenOnce

\* Workspace: no mark hides a file that landed after it, and every landed
\* write is checkpointed or the failure reported.
NoWriteLost == Wsp!NoWriteLost

\* ToolUse: the requeries of a tool run out, and not early.
RequeriesBounded == Tus!RequeriesBounded

\* ToolUse: no failure is known to its caller alone.
FailuresAreMessages == Tus!FailuresAreMessages

\* Recorder: a report's spend is never short of its journal.
SpendCovers == Rec!SpendCovers

\* Recorder: the sink misses only what is counted or on its way.
SinkFollows == Rec!SinkFollows

\* Recorder: a stamp runs ahead of the journal by one pass at most.
StampNearlyAnnounced == Rec!StampNearlyAnnounced
=============================================================================
