------------------------------ MODULE MCFolds ------------------------------
(***************************************************************************)
(* The two folds that decide what a pass leaves behind: what its arms      *)
(* return into one accumulator (FanIn), and a proposal into the profile    *)
(* (Amending).  They share no state, so each is checked with the other at  *)
(* rest: `subject` is the one that moves.                                  *)
(*                                                                         *)
(* The arms start from bases at both ends of a u32.  The profile stands    *)
(* between two bounds that overlap without nesting, on a budget at its     *)
(* reachability floor, under proposals inside, outside and at the edges of *)
(* every range, above a u32 too.                                           *)
(***************************************************************************)
EXTENDS Amending, FanIn, TLC

MCArms == {1, 2, 3}

FanThresholds ==
  [f \in ThresholdField |-> IF f = "stuck" THEN 2 ELSE IF f = "unverified" THEN 1 ELSE 3]

\* A base: the two counters the arms fight over, at zero, inside and at the
\* ceiling; a steer already standing or none; perhaps one arm muted.
MCBase(u, b, steer, muted) ==
  [counts   |-> [c \in Counter |-> IF c = "unproductive" THEN u
                                   ELSE IF c = "unverified" THEN b ELSE 0],
   solved   |-> FALSE, expired |-> FALSE,
   lessons  |-> <<<<0>>>>, scores |-> <<0>>, steer |-> steer,
   judged   |-> IF steer = Correction THEN "steer" ELSE "proceed",
   last     |-> 0, proposed |-> None,
   profile  |-> [thresholds |-> FanThresholds, muted |-> muted]]

MCBases ==
  {MCBase(u, b, s, m) : u \in {0, 2, MaxU32}, b \in {0, MaxU32},
                        s \in {NoSteer, Correction}, m \in {{}, {2}}}

MCMove(u, v, concludes, writes) ==
  [steps |-> [c \in {"unproductive", "unverified"} |->
                IF c = "unproductive" THEN u ELSE v],
   concludes |-> concludes, writes |-> writes]

MCMoves ==
  {MCMove("keep", "keep", FALSE, {}),
   MCMove("bump", "keep", FALSE, {"score", "steer"}),
   MCMove("reset", "bump", FALSE, {"lesson"}),
   MCMove("bump", "bump", TRUE, {"lesson", "judged"}),
   MCMove("keep", "reset", FALSE, {"last_attempt", "judged"}),
   MCMove("reset", "keep", FALSE, {"amendment"})}

-----------------------------------------------------------------------------
MCThresholds == [f \in ThresholdField |-> 2]

MCCaps(models, tools) ==
  [c \in CapName |->
     CASE c = "max_model_calls" -> models
       [] c = "max_tool_calls"  -> tools
       [] c = "max_iterations"  -> 4
       [] c = "run_timeout"     -> 3
       [] c = "tool_timeout"    -> 2
       [] OTHER                 -> 1]

MCBudgets == {MCCaps(3, 6), MCCaps(2, 8)}

MCRange(low, high) == [low |-> low, high |-> high]

Shut(fields) == [f \in fields |-> Closed]

MCShipped ==
  [thresholds |-> ("stuck" :> MCRange(1, 4)) @@ Shut(ThresholdField),
   caps |-> ("max_model_calls" :> MCRange(1, 4))
              @@ ("max_tool_calls" :> MCRange(2, 10)) @@ Shut(CapField),
   mutable_arms |-> {"judge"}, muting_window |-> 3, max_amendments |-> 2]

MCDeployed ==
  [thresholds |-> ("stuck" :> MCRange(3, 6)) @@ ("unverified" :> MCRange(1, 3))
                    @@ Shut(ThresholdField),
   caps |-> ("max_model_calls" :> MCRange(1, 10))
              @@ ("max_tool_calls" :> MCRange(0, 9)) @@ Shut(CapField),
   mutable_arms |-> {"judge", "tune"}, muting_window |-> 1, max_amendments |-> 3]

MCBoundsSets == {MCShipped, MCDeployed}

MCChange(kind, field, to) == [kind |-> kind, field |-> field, to |-> to]

MCProposals ==
  {MCChange("threshold", "stuck", n) : n \in {0, 3, 4, 6}} \cup
  {MCChange("threshold", "unverified", 1)} \cup
  {MCChange("cap", "max_model_calls", n) : n \in {0, 1, 4, 9}} \cup
  {MCChange("cap", "max_tool_calls", n) : n \in {2, 6, 9}} \cup
  {MCChange("mute", "judge", 0), MCChange("mute", "tune", 0),
   MCChange("unmute", "judge", 0)}

-----------------------------------------------------------------------------
VARIABLE subject

all == <<subject, vars, barrierVars>>

AllInit ==
  /\ subject \in {"barrier", "profile"}
  /\ Init
  /\ BarrierInit
  \* At rest, a fold stays in one of its initial states.
  /\ subject # "profile" => /\ preset = MCShipped /\ deployment = MCDeployed
                            /\ budget = MCCaps(3, 6)
  /\ subject # "barrier" => base = MCBase(0, 0, NoSteer, {})

Only(name) == subject = name /\ UNCHANGED subject

AllNext ==
  \/ Only("profile") /\ Next /\ UNCHANGED barrierVars
  \/ Only("barrier") /\ BarrierNext /\ UNCHANGED vars

AllSpec == AllInit /\ [][AllNext]_all
=============================================================================
