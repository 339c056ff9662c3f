---------------------------- MODULE DriveClaims ----------------------------
(***************************************************************************)
(* What the repository says of a run, where the assembled loop does        *)
(* something else.  Each is refuted by a run of its own.                   *)
(***************************************************************************)
EXTENDS MCJournal

(***************************************************************************)
(* SteerReachesBriefs: presets/steps.rs:151-152 says the steer is "written *)
(* by the judge during a pass and read by the *next* pass's briefs".  The  *)
(* `pass` step, which every route goes through first, clears it.           *)
(***************************************************************************)
SteerReachesBriefs ==
  \A i \in 1 .. Len(log) - 1 : log[i + 1].briefed = log[i].advised

(***************************************************************************)
(* BoundedIsNeverSuccess: presets/assembled.rs:351-352, "A run stopped by  *)
(* a bound is never `Success`, whatever its last pass claimed".            *)
(***************************************************************************)
BoundedIsNeverSuccess == bound # NoBound => outcome # "success"

(***************************************************************************)
(* StreaksAreConsecutive: state/types.rs:23-25 says blocked and unverified *)
(* "count *consecutive* passes, not totals.  A pass that breaks the streak *)
(* sets its counter back to zero", and :62 and :73 say so of each.  The    *)
(* attempt step leaves blocked as it was at a pass the machinery did run   *)
(* and that brought nothing; nothing in the shipped loop resets            *)
(* unverified, which the reflect arm adds to.                              *)
(***************************************************************************)
StreaksAreConsecutive ==
  pc \in {"pass", "plan", "report", "done"} =>
    /\ acc.counts["blocked"] = Cardinality(InARow(Failing(Brought), Len(log)))
    /\ acc.counts["unverified"]
         = Cardinality(InARow(Unproven(Brought, Len(log)), Len(log)))

(***************************************************************************)
(* NothingReasked: presets/tuner.rs:92-95 says of what the tuner has asked *)
(* already that "Refusals count too: a bound that said no once will say no *)
(* again".  The silence rule reads whether the arm is muted, and no        *)
(* history, so under bounds that refuse the mute it asks at every pass.    *)
(***************************************************************************)
NothingReasked ==
  LET history == acc.profile.history
  IN  \A i, j \in DOMAIN history :
        history[i].change.field = history[j].change.field => i = j
=============================================================================
