------------------------------ MODULE GoalRun ------------------------------
(***************************************************************************)
(* What a run promises its embedder: it works in passes, no more of them   *)
(* than it was given, stops working once a pass earned the goal, and ends  *)
(* exactly once, with a verdict that claims success only if it was earned. *)
(***************************************************************************)
EXTENDS Naturals

CONSTANTS Cap, Verdicts

VARIABLES phase, passes, earned, verdict

vars == <<phase, passes, earned, verdict>>

Init ==
  /\ phase = "working"
  /\ passes = 0
  /\ earned = FALSE
  /\ verdict = "none"

Pass ==
  /\ phase = "working"
  /\ passes < Cap
  /\ ~earned
  /\ passes' = passes + 1
  /\ earned' \in BOOLEAN
  /\ UNCHANGED <<phase, verdict>>

Stop ==
  /\ phase = "working"
  /\ passes > 0
  /\ phase' = "stopped"
  /\ verdict' \in Verdicts
  /\ verdict' = "success" => earned
  /\ verdict' = "stalled" => ~earned /\ passes < Cap
  /\ UNCHANGED <<passes, earned>>

GiveUp ==
  /\ phase = "working"
  /\ phase' = "failed"
  /\ UNCHANGED <<passes, earned, verdict>>

Next == Pass \/ Stop \/ GiveUp

Spec == Init /\ [][Next]_vars

Ends == <>(phase # "working")
=============================================================================
