-------------------------- MODULE MCOrchestrator --------------------------
(***************************************************************************)
(* The two halves of handing work out, side by side: the delegations of an *)
(* orchestrator (Delegation) and the board its briefs are cut from and     *)
(* marked on (Board).  What a delegation comes to never reaches the board, *)
(* so each is checked with the other at rest: `subject` is the one that    *)
(* moves.                                                                  *)
(***************************************************************************)
EXTENDS Delegation, TLC

CONSTANTS
  TaskIds, Statements, Goal, Roster, Decompositions, PlanInterval, MaxPasses

VARIABLES subject, tasks, step, pass, diversify, briefs

Brd == INSTANCE Board WITH Delegates <- Roster, Batches <- Decompositions

\* What a preset and a decomposer hand the board; a roster is a set, read in a
\* stable order, and Orchestrator::new refuses an empty one.
OrchestratorAssumption ==
  /\ PlanInterval \in Nat /\ MaxPasses \in Nat
  /\ Goal \in Statements
  /\ Roster \in Seq(STRING) /\ Roster # << >>
  /\ \A i, j \in DOMAIN Roster : Roster[i] = Roster[j] => i = j
  /\ Decompositions \subseteq Brd!Decomposition

ASSUME OrchestratorAssumption

Answers == [kind |-> "answers", wrote |-> TRUE]
Never   == [kind |-> "never",   wrote |-> TRUE]
Fails   == [kind |-> "fails",   wrote |-> FALSE]
Capped  == [kind |-> "capped",  wrote |-> TRUE]

\* `scribe` is declared and has no script; `shell` is registered, undeclared;
\* one role's name extends another's, as a host may choose.
MCRole      == {"prover", "refuter", "refuter#fast", "scribe", "shell"}
MCDelegates == {"prover", "refuter", "refuter#fast", "scribe"}
MCExtends   == {<<"refuter#fast", "refuter">>}
MCScripts   == ("prover" :> <<Fails, Capped>>) @@ ("refuter" :> <<Answers, Never>>)
                 @@ ("refuter#fast" :> <<Capped>>)
MCBatches   == {<<<<"prover", "b1">>, <<"refuter", "b1">>>>,
                <<<<"refuter", "b1">>, <<"scribe", "b1">>>>,
                <<<<"prover", "b1">>, <<"prover", "b1">>>>}

(***************************************************************************)
(* Two delegates, three ids, and decompositions that restate, repeat an id *)
(* within a batch, share a statement, and state a task already settled.    *)
(***************************************************************************)
MCTask(id, statement, status) == [id |-> id, statement |-> statement, status |-> status]

MCRoster == <<"prover", "reader">>

MCDecompositions ==
  {<< >>,
   <<MCTask(1, "lemma", "open"), MCTask(2, "bound", "open")>>,
   <<MCTask(1, "goal", "abandoned")>>,
   <<MCTask(2, "lemma", "open"), MCTask(2, "bound", "discharged")>>,
   <<MCTask(3, "bound", "open"), MCTask(1, "goal", "open")>>,
   <<MCTask(1, "lemma", "open"), MCTask(2, "goal", "open"),
     MCTask(3, "lemma", "open")>>}

-----------------------------------------------------------------------------
brdVars == <<tasks, step, pass, diversify, briefs>>

all == <<subject, vars, brdVars>>

AllInit ==
  /\ subject \in {"delegation", "board"}
  /\ Init
  /\ Brd!Init

Only(name) == subject = name /\ UNCHANGED subject

AllNext ==
  \/ Only("delegation") /\ Next /\ UNCHANGED brdVars
  \/ Only("board") /\ Brd!Next /\ UNCHANGED vars

AllSpec == AllInit /\ [][AllNext]_all

-----------------------------------------------------------------------------
(***************************************************************************)
(* The board's properties, stated in its own module.                       *)
(***************************************************************************)
\* Board: no attempt leaves an outstanding task without a brief.
NoTaskWaits == Brd!NoTaskWaits

\* Board: re-planning drops no task and takes no progress back.
PlanKeepsProgress == Brd!PlanKeepsProgress
=============================================================================
