------------------------------- MODULE Board -------------------------------
(***************************************************************************)
(* The task board between its two writers (orchestrate/board.rs,           *)
(* orchestrate/steps.rs): the plan step states and restates tasks on its   *)
(* cadence, and the attempt step briefs specialists on the outstanding     *)
(* ones and marks the tasks it finds for its briefs.  A brief carries a    *)
(* statement, not a task's id, and finds its task again by that statement. *)
(*                                                                         *)
(* What the decomposer returns and which routes are taken are the          *)
(* environment's.  A task's criterion and the pass that last touched it    *)
(* decide nothing and are left out.                                        *)
(***************************************************************************)
EXTENDS Naturals, Sequences, FiniteSets

CONSTANTS
  TaskIds, Statements,
  Goal,                \* the run's goal, a statement like any other
  Delegates,           \* the roles, in order, as the orchestrator holds them
  Batches,             \* the decompositions a plan may be handed
  PlanInterval,        \* the preset's plan_interval
  MaxPasses            \* bound: passes of a run

Status  == {"open", "in_flight", "discharged", "abandoned"}
Settled == {"discharged", "abandoned"}

Stated == [id : TaskIds, statement : Statements, status : Status]

\* What a decomposer may answer: any tasks, one id stated twice among them.
Decomposition == Seq(Stated)

VARIABLES
  tasks,               \* the rows of the board, in the order stated
  step,                \* the step that runs next; "preamble": ahead of the loop
  pass,
  diversify,           \* whether the last attempt took that route
  briefs               \* what the last attempt sent out

vars == <<tasks, step, pass, diversify, briefs>>

\* Of the rows a brief or a restatement fits, the one that is found.
FirstOf(rows) == {i \in rows : \A j \in rows : i <= j}

\* The rows still to be settled, in the board's order.
Outstanding ==
  LET kept[n \in 0 .. Len(tasks)] ==
        IF n = 0 THEN << >>
        ELSE IF tasks[n].status \in Settled THEN kept[n - 1]
        ELSE Append(kept[n - 1], tasks[n])
  IN  kept[Len(tasks)]

-----------------------------------------------------------------------------
Init ==
  /\ tasks = << >>
  /\ step = "preamble"
  /\ pass = 0
  /\ diversify = FALSE
  /\ briefs = << >>

\* Mutant of Settle: a task stated again is opened again.
SettleAfresh(rows, stated) ==
  LET found == FirstOf({i \in DOMAIN rows : rows[i].id = stated.id})
  IN  IF found = {} THEN Append(rows, stated)
      ELSE [i \in DOMAIN rows |-> IF i \in found THEN stated ELSE rows[i]]

\* One stated task meeting the board: a known id is restated and keeps its
\* status (TaskBoard::restate), a new one is added as it came (add).
Settle(rows, stated) ==
  LET found == FirstOf({i \in DOMAIN rows : rows[i].id = stated.id})
  IN  IF found = {} THEN Append(rows, stated)
      ELSE [i \in DOMAIN rows |->
              IF i \in found THEN [rows[i] EXCEPT !.statement = stated.statement]
                             ELSE rows[i]]

\* A decomposition meeting the board, one stated task after the other.
Replanned(batch) ==
  LET after[n \in 0 .. Len(batch)] ==
        IF n = 0 THEN tasks ELSE Settle(after[n - 1], batch[n])
  IN  after[Len(batch)]

\* Plan::plans_on: at pass zero whatever the interval.
Planning == pass = 0 \/ (PlanInterval # 0 /\ pass % PlanInterval = 0)

\* Plan::run, ahead of the loop and in every iteration.
Plan(batch) ==
  /\ step \in {"preamble", "plan"}
  /\ step' = IF step = "preamble" THEN "plan" ELSE "attempt"
  /\ tasks' = IF Planning THEN Replanned(batch) ELSE tasks
  /\ UNCHANGED <<pass, diversify, briefs>>

\* Mutant of BriefsFor: the first delegate only is sent out.
BriefsForFirst(diverse) ==
  LET topic == IF Outstanding = << >> THEN Goal ELSE Outstanding[1].statement
  IN  <<[role |-> Delegates[1], statement |-> topic]>>

\* Attempt::briefs: diversifying puts everybody on the first outstanding task,
\* otherwise the outstanding tasks are dealt round the delegates.
BriefsFor(diverse) ==
  LET n     == Len(Delegates)
      topic == IF Outstanding = << >> THEN Goal ELSE Outstanding[1].statement
  IN  IF diverse
        THEN [i \in 1 .. n |-> [role |-> Delegates[i], statement |-> topic]]
      ELSE IF n = 0
        THEN << >>
      ELSE IF Outstanding = << >>
        THEN <<[role |-> Delegates[1], statement |-> Goal]>>
      ELSE [i \in DOMAIN Outstanding |->
              [role |-> Delegates[((i - 1) % n) + 1],
               statement |-> Outstanding[i].statement]]

\* Attempt::run: every brief marks the first task with its statement.
Attempt(diverse) ==
  LET sent   == BriefsFor(diverse)
      Worded(s) == {i \in DOMAIN tasks : tasks[i].statement = s}
      Marked == UNION {FirstOf(Worded(sent[k].statement)) : k \in DOMAIN sent}
  IN  /\ step = "attempt"
      /\ pass < MaxPasses
      /\ step' = "plan"
      /\ pass' = pass + 1
      /\ diversify' = diverse
      /\ briefs' = sent
      /\ tasks' = [i \in DOMAIN tasks |->
                     IF i \in Marked THEN [tasks[i] EXCEPT !.status = "in_flight"]
                                     ELSE tasks[i]]

Next ==
  \/ \E batch \in Batches : Plan(batch)
  \/ \E diverse \in BOOLEAN : Attempt(diverse)

Spec == Init /\ [][Next]_vars

-----------------------------------------------------------------------------
(***************************************************************************)
(* TypeOK: the board holds one row per id, whatever was stated and         *)
(* restated, within a batch too; and a brief goes to a delegate.           *)
(***************************************************************************)
TypeOK ==
  /\ tasks \in Seq(Stated)
  /\ \A i, j \in DOMAIN tasks : tasks[i].id = tasks[j].id => i = j
  /\ pass \in 0 .. MaxPasses
  /\ \A k \in DOMAIN briefs : /\ \E i \in DOMAIN Delegates : Delegates[i] = briefs[k].role
                              /\ briefs[k].statement \in Statements

(***************************************************************************)
(* PlanKeepsProgress: re-planning drops no task, gives no id a second row  *)
(* or another's, and takes no progress back: a status it moves is that of  *)
(* an outstanding task it closes.  So "task 3 is still open" means one     *)
(* thing on both sides of it.                                              *)
(***************************************************************************)
PlanKeepsProgress ==
  [][step # "attempt" =>
       /\ Len(tasks') >= Len(tasks)
       /\ \A i, j \in DOMAIN tasks' : tasks'[i].id = tasks'[j].id => i = j
       /\ \A i \in DOMAIN tasks :
            /\ tasks'[i].id = tasks[i].id
            /\ \/ tasks'[i].status = tasks[i].status
               \/ tasks[i].status \notin Settled /\ tasks'[i].status \in Settled]_vars

(***************************************************************************)
(* NoTaskWaits: an attempt that does not diversify sends out everything    *)
(* outstanding, to specialists whose loads differ by one at most.          *)
(***************************************************************************)
NoTaskWaits ==
  LET Load(role) == Cardinality({k \in DOMAIN briefs : briefs[k].role = role})
  IN  step = "plan" /\ pass > 0 /\ ~diversify =>
        /\ \A i \in DOMAIN tasks : tasks[i].status \notin Settled =>
             \E k \in DOMAIN briefs : briefs[k].statement = tasks[i].statement
        /\ \A i, j \in DOMAIN Delegates : Load(Delegates[i]) <= Load(Delegates[j]) + 1
=============================================================================
