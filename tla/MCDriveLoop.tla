---------------------------- MODULE MCDriveLoop ----------------------------
(***************************************************************************)
(* Small runs of the shipped loop.                                         *)
(***************************************************************************)
EXTENDS DriveLoop, TLC

\* The specialists' outcomes: an answer with and without a file, a claim with
\* and without one, a timeout with nothing and with a file left behind, and a
\* failure whose reason is its reply.
MCOutcome(ending, reply, wrote) ==
  [ending |-> ending, reply |-> reply, wrote |-> wrote]

MCAnswer  == MCOutcome("answered", "plain", FALSE)
MCSolved  == MCOutcome("answered", "marked", TRUE)
MCBoast   == MCOutcome("answered", "marked", FALSE)
MCSilent  == MCOutcome("timed_out", "none", FALSE)
MCSalvage == MCOutcome("capped", "none", TRUE)
MCFailure == MCOutcome("failed", "plain", FALSE)

\* One report of each kind the counters tell apart, alone and in company.
MCReports ==
  {<<MCAnswer>>, <<MCBoast, MCSilent>>, <<MCSilent>>, <<MCFailure>>,
   <<MCSolved, MCFailure>>, <<MCBoast, MCSalvage>>}

MCFewReports ==
  {<<MCAnswer>>, <<MCSilent>>, <<MCFailure>>, <<MCBoast, MCSilent>>, <<MCSolved>>}

MCThresholds ==
  [f \in ThresholdField |->
     CASE f = "max_attempts" -> 4 [] f = "stuck" -> 1 [] OTHER -> 2]

\* Patience enough for a judge to be muted and still be missed.
MCPatient ==
  [f \in ThresholdField |->
     CASE f = "max_attempts" -> 5 [] f = "stuck" -> 1 [] f = "blocked" -> 3
       [] OTHER -> 2]

MCBudgetOf(passes) ==
  [c \in CapName |->
     CASE c = "max_iterations"  -> passes
       [] c = "max_model_calls" -> 4
       [] c = "max_tool_calls"  -> 8
       [] c = "run_timeout"     -> 3
       [] c = "tool_timeout"    -> 2
       [] OTHER                 -> 1]

\* One budget outlasts the attempts of MCThresholds, the other stops a run
\* before those of MCPatient do.
MCLongBudget  == MCBudgetOf(5)
MCShortBudget == MCBudgetOf(4)
MCTightBudget == MCBudgetOf(3)

MCShut(fields) == [f \in fields |-> Closed]

MCRange(low, high) == [low |-> low, high |-> high]

\* The shape of the shipped presets' bounds, with a shorter muting window, and
\* room for one amendment: the questions asked after it are refused.
MCBounds ==
  [thresholds |-> ("stuck" :> MCRange(1, 3)) @@ ("max_attempts" :> MCRange(1, 4))
                    @@ MCShut(ThresholdField),
   caps |-> ("max_model_calls" :> MCRange(1, 4)) @@ MCShut(CapField),
   mutable_arms |-> {"judge"}, muting_window |-> 2, max_amendments |-> 1]

\* Nothing may be revised, as when the loop is assembled without bounds.
MCNoBounds ==
  [thresholds |-> MCShut(ThresholdField), caps |-> MCShut(CapField),
   mutable_arms |-> {}, muting_window |-> 3, max_amendments |-> 0]

\* A deployment that lets no arm be muted.
MCNoMute == [MCBounds EXCEPT !.mutable_arms = {}]

\* What a host's tuner asks: one cap is refused unless another moved first,
\* and one threshold ends the run.
MCHostChanges ==
  {[kind |-> "threshold", field |-> "max_attempts", to |-> 1],
   [kind |-> "cap", field |-> "max_tool_calls", to |-> 4],
   [kind |-> "cap", field |-> "max_model_calls", to |-> 2],
   [kind |-> "mute", field |-> "judge", to |-> 0]}

MCHostBounds ==
  [MCBounds EXCEPT !.caps["max_tool_calls"] = MCRange(1, 8), !.max_amendments = 2]

=============================================================================
