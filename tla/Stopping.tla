------------------------------ MODULE Stopping ------------------------------
(***************************************************************************)
(* A composed stop test (loops/termination.rs) held by a host: it is asked *)
(* about the run's state as often as the host likes, latches the ending it *)
(* first fires with, is composed with others after either has fired, and   *)
(* is reset for a restart.  The same rule, rendered, is what the emitted   *)
(* loop head evaluates; the head has no latch.                             *)
(***************************************************************************)
EXTENDS Policy, Sequences, SequencesExt

CONSTANTS
  States,              \* the accumulators a run passes through
  MaxMoves,            \* bound: times the state moves
  MaxJoins             \* bound: times the condition is composed

Leaf     == {"terminal", "expired", "solved"}
Operator == {"all", "any"}
NotFired == "none"

VARIABLES
  cond,                \* the conditions of the tree, each after those inside it;
                       \* the last one is the whole
  acc,
  moves, joins,        \* how often each was done
  first                \* history: the outcome of the first state since the
                       \* last reset or composition that was asked and held

vars == <<cond, acc, moves, joins, first>>

\* `inner` lists the conditions inside, by their places in the tree.
New(rule, inner) == [rule |-> rule, inner |-> inner, fired |-> NotFired]

Whole == Len(cond)

\* TerminationCondition::holds: the latch, its own or an inner one, is not read.
HoldsFor(state) ==
  LET holds[c \in DOMAIN cond] ==
        LET rule == cond[c].rule  inner == ToSet(cond[c].inner)
        IN  \/ rule = "terminal" /\ IsTerminal(state)
            \/ rule = "expired" /\ state.expired
            \/ rule = "solved" /\ state.solved
            \/ rule = "all" /\ \A i \in inner : holds[i]
            \/ rule = "any" /\ \E i \in inner : holds[i]
  IN  holds[Whole]

(***************************************************************************)
(* What the loop head computes from `expression`: the inner programs are   *)
(* joined by `and` or `or`, and an empty join is the literal it renders.   *)
(***************************************************************************)
\* Mutant of EmptyJoin: nothing to wait for reads as never.
EmptyNever(rule) == FALSE

EmptyJoin(rule) == rule = "all"

Program(state) ==
  LET program[c \in DOMAIN cond] ==
        LET rule == cond[c].rule  inner == ToSet(cond[c].inner)
        IN  \/ rule = "terminal" /\ TerminalCondition(state)
            \/ rule = "expired" /\ state.expired
            \/ rule = "solved" /\ state.solved
            \/ rule \in Operator /\ inner = {} /\ EmptyJoin(rule)
            \/ rule = "all" /\ inner # {} /\ \A i \in inner : program[i]
            \/ rule = "any" /\ inner # {} /\ \E i \in inner : program[i]
  IN  program[Whole]

-----------------------------------------------------------------------------
Init ==
  /\ cond \in {<<New(rule, << >>)>> : rule \in Leaf \cup Operator}
  /\ acc \in States
  /\ moves = 0
  /\ joins = 0
  /\ first = NotFired

\* A pass moves the state.
Move ==
  /\ moves < MaxMoves
  /\ moves' = moves + 1
  /\ acc' \in States
  /\ UNCHANGED <<cond, joins, first>>

FirstHeld ==
  first' = IF first = NotFired /\ HoldsFor(acc) THEN Classify(acc) ELSE first

\* Mutant of Evaluate: the ending is decided again on every read.
Redecide ==
  /\ cond' = IF HoldsFor(acc) THEN [cond EXCEPT ![Whole].fired = Classify(acc)]
                                    ELSE cond
  /\ FirstHeld
  /\ UNCHANGED <<acc, moves, joins>>

\* TerminationCondition::evaluate.
Evaluate ==
  /\ cond' = IF cond[Whole].fired = NotFired /\ HoldsFor(acc)
               THEN [cond EXCEPT ![Whole].fired = Classify(acc)] ELSE cond
  /\ FirstHeld
  /\ UNCHANGED <<acc, moves, joins>>

\* BitAnd, BitOr: a new condition over this one and another.
Compose(op, leaf) ==
  /\ joins < MaxJoins
  /\ joins' = joins + 1
  /\ cond' = cond \o <<New(leaf, << >>), New(op, <<Whole, Whole + 1>>)>>
  /\ first' = NotFired
  /\ UNCHANGED <<acc, moves>>

\* TerminationCondition::reset, down to the leaves.
Reset ==
  /\ cond' = [c \in DOMAIN cond |-> [cond[c] EXCEPT !.fired = NotFired]]
  /\ first' = NotFired
  /\ UNCHANGED <<acc, moves, joins>>

Next ==
  \/ Move
  \/ Evaluate
  \/ \E op \in Operator, leaf \in Leaf : Compose(op, leaf)
  \/ Reset

Spec == Init /\ [][Next]_vars

-----------------------------------------------------------------------------
(***************************************************************************)
(* OneEnding: a run reports the ending of the first state that was asked   *)
(* about and held, wherever the state went since (termination.rs:61).      *)
(***************************************************************************)
OneEnding == cond[Whole].fired = first

(***************************************************************************)
(* HeadAgrees: the rendered rule stops the graph's loop at exactly the     *)
(* states the Rust rule holds for, however the two were composed and       *)
(* whatever has fired (termination.rs:100, 187).                           *)
(***************************************************************************)
HeadAgrees == \A state \in States : Program(state) <=> HoldsFor(state)
=============================================================================
