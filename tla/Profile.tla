------------------------------ MODULE Profile -------------------------------
(***************************************************************************)
(* What a run may revise about itself (policy/profile.rs,                  *)
(* policy/bounds.rs, policy/amendment.rs): a profile of thresholds, caps   *)
(* and muted arms, moved only by amendments that bounds allow, each one    *)
(* applied whole or refused whole and recorded either way.                 *)
(***************************************************************************)
EXTENDS Policy, Budget, Sequences, FiniteSets

CONSTANT ArmName             \* the names an amendment may address

\* CapField: the counted caps.  No wall clock is amendable.
CapField == {"max_model_calls", "max_tool_calls", "max_tokens", "max_retries"}

(***************************************************************************)
(* A change, as one uniform record: `to` is the proposed value of a        *)
(* threshold or a cap, and zero where the change carries no number.        *)
(***************************************************************************)
Change ==
  [kind : {"threshold"},      field : ThresholdField, to : U32] \cup
  [kind : {"cap"},            field : CapField,       to : U64] \cup
  [kind : {"mute", "unmute"}, field : ArmName,        to : {0}]

NoChange == [kind |-> "none", field |-> "none", to |-> 0]

Recorded == [change : Change, applied : BOOLEAN]

ProfileType ==
  [revision : U32, thresholds : Thresholds, caps : Caps,
   muted : SUBSET ArmName, history : Seq(Recorded)]

\* The profile a run starts on: a preset's thresholds and the budget's caps.
StartingProfile(thresholds, caps) ==
  [revision |-> 0, thresholds |-> thresholds, caps |-> caps,
   muted |-> {}, history |-> << >>]

-----------------------------------------------------------------------------
(* Bounds.  A field the code's bounds never mention is one nobody may move;*)
(* here it has a range that holds nothing, which narrowing keeps so.       *)

RangeType == [low : U64, high : U64]

Closed == [low |-> 1, high |-> 0]

Holds(range, n) == range.low <= n /\ n <= range.high

BoundsType ==
  [thresholds : [ThresholdField -> RangeType], caps : [CapField -> RangeType],
   mutable_arms : SUBSET ArmName, muting_window : U32, max_amendments : U32]

\* Bounds::check.
Permits(bounds, change) ==
  CASE change.kind = "threshold" -> Holds(bounds.thresholds[change.field], change.to)
    [] change.kind = "cap"       -> Holds(bounds.caps[change.field], change.to)
    [] OTHER                     -> change.field \in bounds.mutable_arms

\* Mutant of Overlap: the second range is not consulted.
FirstRange(r, s) == r

\* Bounds::narrow: the tighter of two bounds, field by field.
Overlap(r, s) == [low |-> Greatest(r.low, s.low), high |-> Least(r.high, s.high)]

Tighter(a, b) ==
  [thresholds     |-> [f \in ThresholdField |->
                         Overlap(a.thresholds[f], b.thresholds[f])],
   caps           |-> [c \in CapField |-> Overlap(a.caps[c], b.caps[c])],
   mutable_arms   |-> a.mutable_arms \cap b.mutable_arms,
   muting_window  |-> Greatest(a.muting_window, b.muting_window),
   max_amendments |-> Least(a.max_amendments, b.max_amendments)]

-----------------------------------------------------------------------------
(* Folding one amendment.                                                  *)

AppliedAt(history) == {i \in DOMAIN history : history[i].applied}

Applied(profile) == Cardinality(AppliedAt(profile.history))

\* CapField::write: a proposal too large for a u32 cap is stored saturated.
WriteCap(caps, change) ==
  [caps EXCEPT ![change.field] =
     IF change.field \in WideCap THEN change.to ELSE Least(change.to, MaxU32)]

ApplyChange(profile, change) ==
  CASE change.kind = "threshold" ->
         [profile EXCEPT !.thresholds = [@ EXCEPT ![change.field] = change.to]]
    [] change.kind = "cap" ->
         [profile EXCEPT !.caps = WriteCap(@, change)]
    [] change.kind = "mute" ->
         [profile EXCEPT !.muted = @ \cup {change.field}]
    [] change.kind = "unmute" ->
         [profile EXCEPT !.muted = @ \ {change.field}]

\* Mutant of BreaksBudget: each cap is judged by its own range alone.
BreaksNothing(caps, change) == FALSE

\* Only a cap can leave caps no budget can be made of.
BreaksBudget(caps, change) ==
  change.kind = "cap" /\ ~Legal(WriteCap(caps, change))

Acceptable(profile, change, bounds) ==
  /\ Applied(profile) < bounds.max_amendments
  /\ Permits(bounds, change)
  /\ ~BreaksBudget(profile.caps, change)

\* Mutant of Fold: the change is made before the amendment budget is read.
FoldEagerly(profile, change, bounds) ==
  LET ok == Acceptable(profile, change, bounds)
  IN  [(IF Permits(bounds, change) /\ ~BreaksBudget(profile.caps, change)
          THEN ApplyChange(profile, change) ELSE profile)
         EXCEPT !.revision = IF ok THEN SatAdd(@, 1) ELSE @,
                !.history  = Append(@, [change |-> change, applied |-> ok])]

Fold(profile, change, bounds) ==
  LET ok    == Acceptable(profile, change, bounds)
      moved == IF ok THEN [ApplyChange(profile, change)
                             EXCEPT !.revision = SatAdd(@, 1)]
                     ELSE profile
  IN  [moved EXCEPT !.history = Append(@, [change |-> change, applied |-> ok])]
=============================================================================
