----------------------------- MODULE MCStanding -----------------------------
(***************************************************************************)
(* Three things a run decides once and then stands by: the bound its meter *)
(* reached (Metering), the ending its stop test latched (Stopping), and    *)
(* the verdict a probe of its store left in the cache (Memory).  They      *)
(* share no state, so each is checked with the others at rest: `subject`   *)
(* is the one that moves.                                                  *)
(***************************************************************************)
EXTENDS Metering, Policy, TLC

CONSTANTS
  States, MaxMoves, MaxJoins,
  Writer, Scopes, Ttl, MaxTime, MaxFlips

\* Durations are unsigned, there is a scope to write to, and a state a host
\* asks about has every counter and threshold (state/types.rs).
ASSUME StandingAssumption ==
  /\ Ttl \in Nat /\ MaxTime \in Nat /\ Scopes # {}
  /\ \A state \in States : /\ state.counts \in [Counter -> U32]
                           /\ state.profile.thresholds \in Thresholds
                           /\ state.solved \in BOOLEAN
                           /\ state.expired \in BOOLEAN

\* One shape of budget, around the two caps whose nesting is at stake.
MCCaps(models, tools) ==
  [c \in CapName |->
     CASE c = "max_model_calls" -> models
       [] c = "max_tool_calls"  -> tools
       [] c = "request_timeout" -> 1
       [] c = "tool_timeout"    -> 2
       [] c = "run_timeout"     -> 3
       [] c = "max_iterations"  -> 3
       [] c = "max_tokens"      -> 4
       [] c = "max_retries"     -> 0]

\* Some of these no budget accepts: their tool cap is within a turn's reach.
MCCapSets == {MCCaps(m, t) : m \in 1 .. 2, t \in 1 .. 4}

MCThresholds == [f \in ThresholdField |-> 2]

MCState(c, n, solved, expired) ==
  [counts |-> (c :> n) @@ [k \in Counter |-> 0], solved |-> solved,
   expired |-> expired, profile |-> [thresholds |-> MCThresholds]]

MCGoing == MCState("passes", 1, FALSE, FALSE)

\* A state to go on from, and one for each way there is of ending.
MCStates ==
  {MCGoing, MCState("attempts", 2, FALSE, FALSE),
   MCState("blocked", 2, TRUE, FALSE), MCState("unverified", 2, FALSE, FALSE),
   MCState("restarts", 2, FALSE, FALSE), MCState("banked", 1, TRUE, FALSE),
   MCState("banked", 0, TRUE, FALSE), MCState("banked", 1, TRUE, TRUE)}

VARIABLES
  subject,
  cond, acc, moves, joins, first,
  clock, keeps, flips, verdicts, writer, proven, refuted

Stp == INSTANCE Stopping
Mem == INSTANCE Memory

stpVars == <<cond, acc, moves, joins, first>>
memVars == <<clock, keeps, flips, verdicts, writer, proven, refuted>>

all == <<subject, vars, stpVars, memVars>>

AllInit ==
  /\ subject \in {"meter", "stop test", "memory"}
  /\ Init
  /\ Stp!Init
  /\ Mem!Init
  \* At rest, a component stays in one of its initial states.
  /\ subject # "meter" => caps = MCCaps(1, 4)
  /\ subject # "stop test" => cond = <<Stp!New("terminal", << >>)>> /\ acc = MCGoing
  /\ subject # "memory" => keeps

Only(name) == subject = name /\ UNCHANGED subject

AllNext ==
  \/ /\ Only("meter") /\ Next
     /\ UNCHANGED <<stpVars, memVars>>
  \/ /\ Only("stop test") /\ Stp!Next
     /\ UNCHANGED <<vars, memVars>>
  \/ /\ Only("memory") /\ Mem!Next
     /\ UNCHANGED <<vars, stpVars>>

AllSpec == AllInit /\ [][AllNext]_all

-----------------------------------------------------------------------------
(***************************************************************************)
(* The components' properties, each stated in its own module.              *)
(***************************************************************************)
\* Stopping: the ending reported is the first that held when asked.
OneEnding == Stp!OneEnding

\* Stopping: the rendered rule and the Rust one hold of the same states.
HeadAgrees == Stp!HeadAgrees

\* Memory: a writer told the opposite of what became of its write was told it
\* within a Ttl of a write it was true of.
BeliefBounded == Mem!BeliefBounded
=============================================================================
