------------------------------ MODULE Amending ------------------------------
(***************************************************************************)
(* A profile under a stream of proposals (policy/profile.rs,               *)
(* policy/bounds.rs).  A tuner is a trait object a host may implement, so  *)
(* any change of the closed vocabulary may be proposed at any time; what   *)
(* holds must hold because of what the fold refuses.  The bounds are a     *)
(* preset's narrowed by a deployment's.                                    *)
(***************************************************************************)
EXTENDS Profile

CONSTANTS
  BoundsSets,          \* the bounds a preset or a deployment may declare
  Budgets,             \* the caps the run may be given
  StartThresholds,     \* the preset's thresholds
  Proposals            \* the changes a tuner may propose

ASSUME AmendingAssumption ==
  /\ BoundsSets \subseteq BoundsType
  /\ Budgets \subseteq Caps
  /\ \A caps \in Budgets : Legal(caps)
  /\ StartThresholds \in Thresholds
  /\ Proposals \subseteq Change

VARIABLES
  preset, deployment,  \* the two bounds
  budget,              \* the run's own caps, validated when it was built
  profile

vars == <<preset, deployment, budget, profile>>

bounds == Tighter(preset, deployment)

Init ==
  /\ preset \in BoundsSets
  /\ deployment \in BoundsSets
  /\ budget \in Budgets
  /\ profile = StartingProfile(StartThresholds, budget)

\* The `pass` step taking one proposal; a run takes at most one a pass.
FoldProposal ==
  /\ Len(profile.history) < budget["max_iterations"]
  /\ \E change \in Proposals : profile' = Fold(profile, change, bounds)
  /\ UNCHANGED <<preset, deployment, budget>>

Next == FoldProposal

Spec == Init /\ [][Next]_vars

-----------------------------------------------------------------------------
(***************************************************************************)
(* TypeOK: a profile stays a profile: every threshold and every cap in its *)
(* width, only names muted, and a record of every proposal.                *)
(***************************************************************************)
TypeOK ==
  /\ preset \in BoundsType
  /\ deployment \in BoundsType
  /\ budget \in Caps
  /\ profile \in ProfileType

Inside(limits) ==
  /\ \A f \in ThresholdField :
       \/ profile.thresholds[f] = StartThresholds[f]
       \/ Holds(limits.thresholds[f], profile.thresholds[f])
  /\ \A c \in CapName :
       \/ profile.caps[c] = budget[c]
       \/ /\ c \in CapField
          /\ limits.caps[c].low <= profile.caps[c] \/ profile.caps[c] = MaxU32
          /\ profile.caps[c] <= limits.caps[c].high
  /\ profile.muted \subseteq limits.mutable_arms

InEveryRange == Inside(preset) /\ Inside(deployment)

\* Refusals are free.
AmendmentBudget ==
  /\ profile.revision = Applied(profile)
  /\ \A limits \in {preset, deployment} :
       Applied(profile) <= limits.max_amendments

(***************************************************************************)
(* WithinEveryBound: a field moved from where the run started lies in the  *)
(* range the preset gives it and in the range the deployment gives it, an  *)
(* arm is muted only if both name it, and no more proposals are applied    *)
(* over a whole run than either allows; the revision says how many were.   *)
(* A deployment can restrict a preset and cannot widen one.                *)
(***************************************************************************)
WithinEveryBound == InEveryRange /\ AmendmentBudget

(***************************************************************************)
(* NarrowNeverFails: the driver narrows its budget by the profile's caps   *)
(* on every pass and gives up the run if that is no legal budget.  No      *)
(* sequence of accepted proposals, one cap at a time, gets it there.       *)
(***************************************************************************)
NarrowNeverFails ==
  /\ Legal(profile.caps)
  /\ Legal(Narrowed(budget, profile.caps))

(***************************************************************************)
(* HistoryExplainsProfile: applying what the record says was applied, in   *)
(* order, to the profile the run started on gives the profile it is on: a  *)
(* change lands whole or not at all, and a refusal moves nothing.          *)
(***************************************************************************)
Replayed ==
  LET replay[n \in 0 .. Len(profile.history)] ==
        IF n = 0 THEN StartingProfile(StartThresholds, budget)
        ELSE IF profile.history[n].applied
               THEN ApplyChange(replay[n - 1], profile.history[n].change)
               ELSE replay[n - 1]
  IN  replay[Len(profile.history)]

HistoryExplainsProfile ==
  /\ profile.thresholds = Replayed.thresholds
  /\ profile.caps = Replayed.caps
  /\ profile.muted = Replayed.muted
=============================================================================
