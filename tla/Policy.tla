------------------------------- MODULE Policy -------------------------------
(***************************************************************************)
(* The routing policy (policy/mod.rs, policy/ladder.rs, policy/types.rs).  *)
(*                                                                         *)
(* One decision is written three times in the code: `route` and            *)
(* `is_terminal` in Rust, which the in-process driver asks; `ladder` in    *)
(* jq, which the graph's switch evaluates; and `terminal_condition` in jq, *)
(* which the graph's loop head evaluates to stop.  All of them read one    *)
(* accumulator, thresholds included.  `classify` names how a run that      *)
(* stopped came out.                                                       *)
(*                                                                         *)
(* An accumulator is any record with the fields counts, solved, expired    *)
(* and profile.thresholds.                                                 *)
(***************************************************************************)
EXTENDS Saturating

Counter == {"passes", "attempts", "unproductive", "blocked", "computational",
            "unverified", "restarts", "established", "banked"}

ThresholdField == {"max_attempts", "stuck", "blocked", "computational",
                   "unverified", "max_restarts", "plan_interval"}

Thresholds == [ThresholdField -> U32]

Route         == {"blocked", "solved", "reported", "diversify", "retry"}
TerminalRoute == {"blocked", "solved", "reported"}
Outcome       == {"success", "clean_no_op", "blocked", "stalled", "exhausted"}

-----------------------------------------------------------------------------
(* The decision as the driver takes it.                                    *)

RouteOf(acc) ==
  LET c == acc.counts
      t == acc.profile.thresholds
  IN  IF c["blocked"] >= t["blocked"] THEN "blocked"
      ELSE IF acc.solved \/ c["attempts"] >= t["max_attempts"] THEN "solved"
      ELSE IF c["unverified"] >= t["unverified"] THEN "reported"
      ELSE IF \/ c["unproductive"] >= t["stuck"]
              \/ c["computational"] >= t["computational"] THEN "diversify"
      ELSE "retry"

\* Mutants of IsTerminal: a terminal route does not end the run; every route
\* but a retry does.
StopsOnClockOnly(acc) ==
  \/ acc.expired
  \/ acc.counts["restarts"] >= acc.profile.thresholds["max_restarts"]

StopsUnlessRetry(acc) == StopsOnClockOnly(acc) \/ RouteOf(acc) # "retry"

IsTerminal(acc) ==
  \/ acc.expired
  \/ acc.counts["restarts"] >= acc.profile.thresholds["max_restarts"]
  \/ RouteOf(acc) \in TerminalRoute

-----------------------------------------------------------------------------
(* The decision as the graph takes it.  A jq program reads a threshold by  *)
(* its address; an accumulator that names none yields the sentinel         *)
(* u32::MAX, and so may a counter, which yields zero.                      *)

NoThreshold == MaxU32

Addressed(acc, f) ==
  IF f \in DOMAIN acc.profile.thresholds THEN acc.profile.thresholds[f]
                                         ELSE NoThreshold

Counted(acc, c) == IF c \in DOMAIN acc.counts THEN acc.counts[c] ELSE 0

Reached(acc, c, f) == Counted(acc, c) >= Addressed(acc, f)

Ladder(acc) ==
  IF Reached(acc, "blocked", "blocked") THEN "blocked"
  ELSE IF acc.solved \/ Reached(acc, "attempts", "max_attempts") THEN "solved"
  ELSE IF Reached(acc, "unverified", "unverified") THEN "reported"
  ELSE IF \/ Reached(acc, "unproductive", "stuck")
          \/ Reached(acc, "computational", "computational") THEN "diversify"
  ELSE "retry"

TerminalCondition(acc) ==
  \/ acc.expired
  \/ Reached(acc, "restarts", "max_restarts")
  \/ acc.solved
  \/ Reached(acc, "attempts", "max_attempts")
  \/ Reached(acc, "blocked", "blocked")
  \/ Reached(acc, "unverified", "unverified")

-----------------------------------------------------------------------------
\* Mutant of PlansOn: the cadence comes round a pass late.
PlansLate(t, pass) ==
  /\ t["plan_interval"] # 0
  /\ pass # 0
  /\ pass % (t["plan_interval"] + 1) = 0

\* The re-planning cadence; an interval of zero never plans.
PlansOn(t, pass) ==
  /\ t["plan_interval"] # 0
  /\ pass # 0
  /\ pass % t["plan_interval"] = 0

\* Mutant of Classify: a run that was not cut short succeeded.
HopefulClassify(acc) ==
  IF acc.counts["blocked"] >= acc.profile.thresholds["blocked"] THEN "blocked"
  ELSE IF acc.expired THEN "exhausted" ELSE "success"

\* How a run that stopped with this accumulator came out.
Classify(acc) ==
  LET c == acc.counts
      t == acc.profile.thresholds
  IN  IF c["blocked"] >= t["blocked"] THEN "blocked"
      ELSE IF acc.expired \/ c["attempts"] >= t["max_attempts"] THEN "exhausted"
      ELSE IF ~acc.solved THEN "stalled"
      ELSE IF c["banked"] = 0 THEN "clean_no_op" ELSE "success"
=============================================================================
