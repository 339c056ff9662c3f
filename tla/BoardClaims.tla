---------------------------- MODULE BoardClaims ----------------------------
(***************************************************************************)
(* What the repository says of a re-plan, where the plan step does         *)
(* something else.  A run refutes it.                                      *)
(***************************************************************************)
EXTENDS MCOrchestrator

VARIABLE stated         \* history: what the last step planned with, if it did

claimed == <<all, stated>>

ClaimInit == AllInit /\ subject = "board" /\ stated = << >>

ClaimNext ==
  /\ UNCHANGED <<subject, vars>>
  /\ \/ \E answer \in Decompositions :
          /\ Brd!Plan(answer)
          /\ stated' = IF Brd!Planning THEN answer ELSE << >>
     \/ /\ \E diverse \in BOOLEAN : Brd!Attempt(diverse)
        /\ stated' = << >>

ClaimSpec == ClaimInit /\ [][ClaimNext]_claimed

(***************************************************************************)
(* ReplanCloses: docs/specs/orchestrator.md:194 says "A re-plan may add,   *)
(* close, or restate a task" (so orchestrate/board.rs:15).  A task a       *)
(* decomposition closes would be settled once the step has planned with    *)
(* it.  The plan step restates the tasks it knows, and leaves their status.*)
(***************************************************************************)
ReplanCloses ==
  \A i \in DOMAIN tasks, k \in DOMAIN stated :
    /\ stated[k].id = tasks[i].id
    /\ \A m \in DOMAIN stated : stated[m].id = tasks[i].id => m = k
    /\ stated[k].status \in Brd!Settled
    => tasks[i].status \in Brd!Settled
=============================================================================
