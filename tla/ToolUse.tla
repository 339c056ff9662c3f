------------------------------ MODULE ToolUse ------------------------------
(***************************************************************************)
(* Tool calls through one attempt's tool set (tools/mod.rs), by callers    *)
(* that share it, and the evidence a run records of what came back         *)
(* (ledger/types.rs).  A failure is pushed to the history under one lock   *)
(* and counted against its tool's requeries under another.                 *)
(***************************************************************************)
EXTENDS Naturals, FiniteSets

CONSTANTS
  Caller,
  ToolName,            \* the tools a call may name
  Granted,             \* the tools this set holds
  MaxRequeries,
  MaxCalls             \* bound: calls a caller makes

\* What becomes of a call to a tool in the set: it answers, its arguments did
\* not parse, or it fails in one of three ways.
Kind == {"ok", "invalid", "requery", "salvage", "fatal"}

Requeried == {"invalid", "requery"}

VARIABLES
  caller,              \* [at, tool, kind, calls]: each caller inside `invoke`
  messages,            \* by tool, the failures in ToolSet::history
  requeries,           \* by tool, the requeries counted
  ended,               \* by tool and ending, how many failed calls came to it
  receipts,            \* the tools some outcome carries a receipt of
  ran,                 \* history: the tools that were in fact invoked
  evidence,            \* what backs the run's criterion: collected under the
                       \* receipt of a tool, or supplied
  satisfied            \* whether the criterion is marked shown

vars == <<caller, messages, requeries, ended, receipts, ran, evidence, satisfied>>

Ended == {"fed_back", "exhausted", "salvaged", "fatal"}

Supplied == "supplied"

Init ==
  /\ caller = [c \in Caller |-> [at |-> "idle", tool |-> "", kind |-> "ok", calls |-> 0]]
  /\ messages = [t \in ToolName |-> 0]
  /\ requeries = [t \in ToolName |-> 0]
  /\ ended = [t \in ToolName |-> [e \in Ended |-> 0]]
  /\ receipts = {}
  /\ ran = {}
  /\ evidence = {}
  /\ satisfied = FALSE

Calls(c, at, tool, kind) ==
  /\ caller[c].at = "idle"
  /\ caller[c].calls < MaxCalls
  /\ caller' = [caller EXCEPT ![c] =
       [at |-> at, tool |-> tool, kind |-> kind, calls |-> @.calls + 1]]
  /\ UNCHANGED <<messages, requeries, ended, evidence, satisfied>>

\* A group the grant withheld is an unknown tool.
InvokeUnknown(c, t) ==
  /\ t \notin Granted
  /\ Calls(c, "idle", "", "ok")
  /\ UNCHANGED <<receipts, ran>>

\* The tool answers.
InvokeAnswered(c, t) ==
  /\ t \in Granted
  /\ Calls(c, "idle", "", "ok")
  /\ receipts' = receipts \cup {t}
  /\ ran' = ran \cup {t}

\* It does not, or was not asked.
InvokeFailed(c, t, kind) ==
  /\ t \in Granted
  /\ kind # "ok"
  /\ Calls(c, "failing", t, kind)
  /\ ran' = IF kind = "invalid" THEN ran ELSE ran \cup {t}
  /\ UNCHANGED receipts

EndsAs(c, ending) ==
  /\ caller' = [caller EXCEPT ![c].at = "idle", ![c].tool = "", ![c].kind = "ok"]
  /\ ended' = [ended EXCEPT ![caller[c].tool][ending] = @ + 1]
  /\ receipts' = IF ending \in {"fed_back", "salvaged"}
                   THEN receipts \cup {caller[c].tool} ELSE receipts

\* Mutant of RecordFailure: a fatal failure goes only to the caller.
RecordUnlessFatal(c) ==
  /\ caller[c].at = "failing"
  /\ messages' = IF caller[c].kind = "fatal" THEN messages
                 ELSE [messages EXCEPT ![caller[c].tool] = @ + 1]
  /\ CASE caller[c].kind = "fatal"   -> EndsAs(c, "fatal")
       [] caller[c].kind = "salvage" -> EndsAs(c, "salvaged")
       [] OTHER -> /\ caller' = [caller EXCEPT ![c].at = "counting"]
                   /\ UNCHANGED <<ended, receipts>>
  /\ UNCHANGED <<requeries, ran, evidence, satisfied>>

\* ToolSet::record, and the answer, unless the failure is to be asked again.
RecordFailure(c) ==
  /\ caller[c].at = "failing"
  /\ messages' = [messages EXCEPT ![caller[c].tool] = @ + 1]
  /\ CASE caller[c].kind = "fatal"   -> EndsAs(c, "fatal")
       [] caller[c].kind = "salvage" -> EndsAs(c, "salvaged")
       [] OTHER -> /\ caller' = [caller EXCEPT ![c].at = "counting"]
                   /\ UNCHANGED <<ended, receipts>>
  /\ UNCHANGED <<requeries, ran, evidence, satisfied>>

\* Mutant of CountRequery: the bound is compared before the count moves.
CountTooLate(c) ==
  LET t == caller[c].tool
  IN  /\ caller[c].at = "counting"
      /\ requeries' = [requeries EXCEPT ![t] = @ + 1]
      /\ EndsAs(c, IF requeries[t] > MaxRequeries THEN "exhausted" ELSE "fed_back")
      /\ UNCHANGED <<messages, ran, evidence, satisfied>>

\* The requery counter of the tool, shared by every caller and never reset.
CountRequery(c) ==
  LET t == caller[c].tool
  IN  /\ caller[c].at = "counting"
      /\ requeries' = [requeries EXCEPT ![t] = @ + 1]
      /\ EndsAs(c, IF requeries'[t] > MaxRequeries THEN "exhausted" ELSE "fed_back")
      /\ UNCHANGED <<messages, ran, evidence, satisfied>>

\* RunSpec::record: evidence under a receipt some outcome carried, or a claim
\* the run was handed.
RecordEvidence(origin) ==
  /\ origin \in receipts \cup {Supplied}
  /\ evidence' = evidence \cup {origin}
  /\ UNCHANGED <<caller, messages, requeries, ended, receipts, ran, satisfied>>

\* RunSpec::satisfy
Satisfy ==
  /\ evidence # {}
  /\ satisfied' = TRUE
  /\ UNCHANGED <<caller, messages, requeries, ended, receipts, ran, evidence>>

Next ==
  \/ \E c \in Caller :
       \/ \E t \in ToolName : InvokeUnknown(c, t) \/ InvokeAnswered(c, t)
       \/ \E t \in ToolName, kind \in Kind : InvokeFailed(c, t, kind)
       \/ RecordFailure(c)
       \/ CountRequery(c)
  \/ \E origin \in ToolName \cup {Supplied} : RecordEvidence(origin)
  \/ Satisfy

Spec == Init /\ [][Next]_vars

-----------------------------------------------------------------------------
(***************************************************************************)
(* RequeriesBounded: whoever asks, one tool's failures are fed back at     *)
(* most MaxRequeries times over the set's life, and no call is refused for *)
(* it before that many were (tools/mod.rs:341).                            *)
(***************************************************************************)
RequeriesBounded ==
  \A t \in ToolName :
    /\ ended[t]["fed_back"] <= MaxRequeries
    /\ ended[t]["exhausted"] > 0 => ended[t]["fed_back"] = MaxRequeries
    /\ requeries[t] = ended[t]["fed_back"] + ended[t]["exhausted"]

(***************************************************************************)
(* FailuresAreMessages: every failure a caller has come away with, however *)
(* it ended, is in the history, and nothing else is but the failures whose *)
(* requery is being counted.                                               *)
(***************************************************************************)
FailuresAreMessages ==
  \A t \in ToolName :
    messages[t] = ended[t]["fed_back"] + ended[t]["exhausted"]
                    + ended[t]["salvaged"] + ended[t]["fatal"]
                    + Cardinality({c \in Caller : caller[c].at = "counting"
                                                  /\ caller[c].tool = t})
=============================================================================
