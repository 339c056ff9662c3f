--------------------------- MODULE AmendingProofs ---------------------------
(***************************************************************************)
(* What no sequence of proposals can do to a profile, for every pair of    *)
(* bounds, every budget and every set of proposals.                        *)
(***************************************************************************)
EXTENDS Amending, ProfileProofs, Chaining

(***************************************************************************)
(* TypeCorrect: a profile stays a profile (TypeOK).                        *)
(***************************************************************************)
LEMMA TypeInit == Init => TypeOK
  BY AmendingAssumption, WidthAssumption
     DEF Init, TypeOK, StartingProfile, ProfileType, U32

\* A fold hands back a profile.
LEMMA TypeStep == TypeOK /\ [Next]_vars => TypeOK'
<1>1. TypeOK /\ Next => TypeOK'
  BY FoldTyped, AmendingAssumption DEF TypeOK, Next, FoldProposal
<1> QED  BY <1>1 DEF TypeOK, vars

\* TypeCorrect: a profile stays a profile under any proposals (TypeOK).
THEOREM TypeCorrect == Spec => []TypeOK
  BY TypeInit, TypeStep, PTL DEF Spec

-----------------------------------------------------------------------------
\* What makes NarrowNeverFails inductive: both sets of caps are legal.
LegalCaps == Legal(budget) /\ Legal(profile.caps)

(***************************************************************************)
(* BudgetStaysLegal: no sequence of proposals, one cap at a time, brings   *)
(* the driver to a budget it cannot build (NarrowNeverFails).              *)
(***************************************************************************)
THEOREM BudgetStaysLegal == Spec => []NarrowNeverFails
<1>1. Init => LegalCaps
  BY AmendingAssumption DEF Init, LegalCaps, StartingProfile
<1>2. TypeOK /\ LegalCaps /\ [Next]_vars => LegalCaps'
  <2> SUFFICES ASSUME TypeOK, LegalCaps, [Next]_vars
               PROVE  LegalCaps'
    OBVIOUS
  <2>1. ASSUME NEW change \in Proposals, profile' = Fold(profile, change, bounds),
               budget' = budget
        PROVE  LegalCaps'
    <3>1. profile \in ProfileType /\ change \in Change
      BY AmendingAssumption DEF TypeOK
    <3>2. PICK r, ok : /\ r = ApplyChange(profile, change)
                       /\ ok = Acceptable(profile, change, bounds)
                       /\ Recording(profile, change, ok, r, profile')
                       /\ Moving(profile, change, r)
      BY <2>1, <3>1, FoldByCases, ChangeByCases
    <3>3. CASE ~ok
      BY <2>1, <3>2, <3>3 DEF LegalCaps, Recording
    <3>4. CASE ok
      <4>1. profile'.caps = r.caps
        BY <3>2, <3>4 DEF Recording
      <4>2. CASE change.kind = "cap"
        <5>1. Legal(WriteCap(profile.caps, change))
          BY <3>2, <3>4, <4>2 DEF Acceptable, BreaksBudget
        <5> QED  BY <2>1, <3>2, <4>1, <4>2, <5>1 DEF LegalCaps, Moving
      <4>3. CASE change.kind # "cap"
        BY <2>1, <3>2, <4>1, <4>3 DEF LegalCaps, Moving
      <4> QED  BY <4>2, <4>3
    <3> QED  BY <3>2, <3>3, <3>4 DEF Acceptable
  <2>2. CASE UNCHANGED vars
    BY <2>2 DEF vars, LegalCaps
  <2> QED  BY <2>1, <2>2 DEF Next, FoldProposal
<1>3. TypeOK /\ LegalCaps => NarrowNeverFails
  BY NarrowedIsLegal DEF TypeOK, LegalCaps, NarrowNeverFails, ProfileType
<1> QED  BY <1>1, <1>2, <1>3, TypeInit, TypeStep, PTL DEF Spec

-----------------------------------------------------------------------------
(***************************************************************************)
(* AmendmentsBounded: a run's profile is moved at most as often as either  *)
(* bounds allow, and its revision says how often (AmendmentBudget).        *)
(***************************************************************************)
THEOREM AmendmentsBounded == Spec => []AmendmentBudget
<1>1. Init => AmendmentBudget
  <2> SUFFICES ASSUME Init  PROVE AmendmentBudget
    OBVIOUS
  <2>1. AppliedAt(profile.history) = {}
    BY DEF Init, StartingProfile, AppliedAt
  <2>2. Applied(profile) = 0
    BY <2>1, FS_EmptySet DEF Applied
  <2>3. \A limits \in {preset, deployment} : limits.max_amendments >= 0
    BY AmendingAssumption DEF Init, BoundsType, U32
  <2> QED  BY <2>2, <2>3 DEF AmendmentBudget, Init, StartingProfile
<1>2. TypeOK /\ AmendmentBudget /\ [Next]_vars => AmendmentBudget'
  <2> SUFFICES ASSUME TypeOK, AmendmentBudget, [Next]_vars
               PROVE  AmendmentBudget'
    OBVIOUS
  <2>1. ASSUME NEW change \in Proposals, profile' = Fold(profile, change, bounds),
               UNCHANGED <<preset, deployment, budget>>
        PROVE  AmendmentBudget'
    <3>1. profile \in ProfileType /\ change \in Change
      BY AmendingAssumption DEF TypeOK
    <3>2. PICK r, ok : /\ ok = Acceptable(profile, change, bounds)
                       /\ Recording(profile, change, ok, r, profile')
      BY <2>1, <3>1, FoldByCases
    <3>3. ok \in BOOLEAN
      BY <3>2 DEF Acceptable
    <3>4. /\ Applied(profile) \in Nat
          /\ Applied(profile)' = IF ok THEN Applied(profile) + 1 ELSE Applied(profile)
      <4>1. profile.history \in Seq(Recorded)
        BY <3>1 DEF ProfileType
      <4>2. profile'.history = Append(profile.history, [change |-> change, applied |-> ok])
        BY <3>2 DEF Recording
      <4> QED  BY <3>1, <3>3, <4>1, <4>2, AppliedAppended DEF Applied
    <3>5. /\ preset.max_amendments \in 0 .. MaxU32
          /\ deployment.max_amendments \in 0 .. MaxU32
          /\ bounds.max_amendments
               = Least(preset.max_amendments, deployment.max_amendments)
      BY DEF TypeOK, BoundsType, U32, bounds, Tighter
    <3>6. CASE ok
      <4>1. Applied(profile) < bounds.max_amendments
        BY <3>2, <3>6 DEF Acceptable
      <4>2. /\ Applied(profile) + 1 <= preset.max_amendments
            /\ Applied(profile) + 1 <= deployment.max_amendments
        BY <3>4, <3>5, <4>1 DEF Least
      <4>3. profile'.revision = SatAdd(profile.revision, 1)
        BY <3>2, <3>6 DEF Recording
      <4>4. profile'.revision = Applied(profile) + 1
        BY <3>4, <3>5, <4>2, <4>3, WidthAssumption
           DEF AmendmentBudget, SatAdd, Clamped
      <4> QED  BY <2>1, <3>4, <3>6, <4>2, <4>4 DEF AmendmentBudget
    <3>7. CASE ~ok
      BY <2>1, <3>2, <3>4, <3>7 DEF AmendmentBudget, Recording
    <3> QED  BY <3>3, <3>6, <3>7
  <2>2. CASE UNCHANGED vars
    BY <2>2 DEF vars, AmendmentBudget, Applied
  <2> QED  BY <2>1, <2>2 DEF Next, FoldProposal
<1> QED  BY <1>1, <1>2, TypeInit, TypeStep, PTL DEF Spec

-----------------------------------------------------------------------------
(***************************************************************************)
(* A change some bounds permit keeps a profile inside those bounds.        *)
(***************************************************************************)
LEMMA PermittedStaysInside ==
  ASSUME NEW limits \in BoundsType, Inside(limits), TypeOK,
         NEW change \in Change, Permits(limits, change),
         NEW r, Moving(profile, change, r),
         profile'.thresholds = r.thresholds, profile'.caps = r.caps,
         profile'.muted = r.muted, budget' = budget
  PROVE  Inside(limits)'
<1>0. profile.thresholds \in Thresholds /\ profile.caps \in Caps
  BY DEF TypeOK, ProfileType
<1>1. \A f \in ThresholdField :
        \/ r.thresholds[f] = profile.thresholds[f]
        \/ r.thresholds[f] = change.to /\ Holds(limits.thresholds[f], change.to)
  BY <1>0 DEF Moving, Permits, Thresholds
<1>2. \A c \in CapName :
        \/ r.caps[c] = profile.caps[c]
        \/ /\ c \in CapField
           /\ Holds(limits.caps[c], change.to)
           /\ change.to \in U64 /\ r.caps[c] <= change.to
           /\ r.caps[c] = change.to \/ r.caps[c] = MaxU32
  <2>1. CASE change.kind = "cap"
    BY <1>0, <2>1, WrittenCap DEF Moving, Permits
  <2>2. CASE change.kind # "cap"
    BY <2>2 DEF Moving
  <2> QED  BY <2>1, <2>2
<1>3. r.muted \subseteq limits.mutable_arms
  BY DEF Moving, Permits, Inside
<1>4. \A f \in ThresholdField :
        \/ profile'.thresholds[f] = StartThresholds[f]
        \/ Holds(limits.thresholds[f], profile'.thresholds[f])
  BY <1>1 DEF Inside
<1>5. \A c \in CapName :
        \/ profile'.caps[c] = budget'[c]
        \/ /\ c \in CapField
           /\ limits.caps[c].low <= profile'.caps[c] \/ profile'.caps[c] = MaxU32
           /\ profile'.caps[c] <= limits.caps[c].high
  <2> SUFFICES ASSUME NEW c \in CapName
               PROVE  \/ profile'.caps[c] = budget'[c]
                      \/ /\ c \in CapField
                         /\ \/ limits.caps[c].low <= profile'.caps[c]
                            \/ profile'.caps[c] = MaxU32
                         /\ profile'.caps[c] <= limits.caps[c].high
    OBVIOUS
  <2>1. CASE r.caps[c] = profile.caps[c]
    BY <2>1 DEF Inside
  <2>2. CASE r.caps[c] # profile.caps[c]
    <3>1. c \in CapField /\ limits.caps[c] \in RangeType
      BY <1>2, <2>2 DEF BoundsType
    <3>2. limits.caps[c].low \in Int /\ limits.caps[c].high \in Int
      BY <3>1, WidthAssumption DEF RangeType, U64
    <3> QED  BY <1>2, <2>2, <3>1, <3>2, WidthAssumption DEF Holds, U64
  <2> QED  BY <2>1, <2>2
<1> QED  BY <1>3, <1>4, <1>5 DEF Inside

(***************************************************************************)
(* RangesHold: whatever is proposed, every field stays where the preset and*)
(* the deployment both let it be (InEveryRange).                           *)
(***************************************************************************)
LEMMA RangesHold == Spec => []InEveryRange
<1>1. Init => InEveryRange
  BY DEF Init, InEveryRange, Inside, StartingProfile
<1>2. TypeOK /\ InEveryRange /\ [Next]_vars => InEveryRange'
  <2> SUFFICES ASSUME TypeOK, InEveryRange, [Next]_vars
               PROVE  InEveryRange'
    OBVIOUS
  <2>0. preset \in BoundsType /\ deployment \in BoundsType
    BY DEF TypeOK
  <2>1. ASSUME NEW change \in Proposals, profile' = Fold(profile, change, bounds),
               UNCHANGED <<preset, deployment, budget>>
        PROVE  InEveryRange'
    <3>1. profile \in ProfileType /\ change \in Change
      BY AmendingAssumption DEF TypeOK
    <3>2. PICK r, ok : /\ ok = Acceptable(profile, change, bounds)
                       /\ Recording(profile, change, ok, r, profile')
                       /\ Moving(profile, change, r)
      BY <2>1, <3>1, FoldByCases, ChangeByCases
    <3>3. CASE ~ok
      BY <2>1, <3>2, <3>3 DEF InEveryRange, Inside, Recording
    <3>4. CASE ok
      <4>1. Permits(preset, change) /\ Permits(deployment, change)
        BY <2>0, <3>1, <3>2, <3>4, TighterIsBoth DEF Acceptable, bounds
      <4>2. /\ profile'.thresholds = r.thresholds
            /\ profile'.caps = r.caps
            /\ profile'.muted = r.muted
        BY <3>2, <3>4 DEF Recording
      <4> QED  BY <2>0, <2>1, <3>1, <3>2, <4>1, <4>2, PermittedStaysInside
               DEF InEveryRange, Inside
    <3> QED  BY <3>2, <3>3, <3>4 DEF Acceptable
  <2>2. CASE UNCHANGED vars
    BY <2>2 DEF vars, InEveryRange, Inside
  <2> QED  BY <2>1, <2>2 DEF Next, FoldProposal
<1> QED  BY <1>1, <1>2, TypeInit, TypeStep, PTL DEF Spec

(***************************************************************************)
(* NobodyWidens: whatever is proposed, a profile stays where the preset and*)
(* the deployment both let it be, and moves as often as both allow         *)
(* (WithinEveryBound).                                                     *)
(***************************************************************************)
THEOREM NobodyWidens == Spec => []WithinEveryBound
<1>1. InEveryRange /\ AmendmentBudget => WithinEveryBound
  BY DEF WithinEveryBound
<1> QED  BY <1>1, RangesHold, AmendmentsBounded, PTL

-----------------------------------------------------------------------------
(***************************************************************************)
(* The record explains the profile.  A replay is a trace of profiles, one  *)
(* for each record and one to start from.                                  *)
(***************************************************************************)
Replaying(g) ==
  /\ g \in [0 .. Len(profile.history) -> ProfileType]
  /\ g[0] = StartingProfile(StartThresholds, budget)
  /\ \A n \in 1 .. Len(profile.history) :
       g[n] = IF profile.history[n].applied
                THEN ApplyChange(g[n - 1], profile.history[n].change)
                ELSE g[n - 1]

Alike(p, q) ==
  p.thresholds = q.thresholds /\ p.caps = q.caps /\ p.muted = q.muted

Explained == \E g : Replaying(g) /\ Alike(g[Len(profile.history)], profile)

\* A change of a profile is a profile.
LEMMA ChangeTyped ==
  ASSUME NEW p \in ProfileType, NEW change \in Change
  PROVE  ApplyChange(p, change) \in ProfileType
<1>1. PICK r : r = ApplyChange(p, change) /\ Moving(p, change, r)
  BY ChangeByCases
<1>2. /\ p.history \in Seq(Recorded) /\ p.revision \in U32
      /\ p.thresholds \in Thresholds /\ p.caps \in Caps /\ p.muted \in SUBSET ArmName
  BY DEF ProfileType
<1>3. r = [revision |-> p.revision, thresholds |-> r.thresholds,
           caps |-> r.caps, muted |-> r.muted, history |-> p.history]
  BY <1>1 DEF ApplyChange, Change, ProfileType
<1>4. r.thresholds \in Thresholds
  BY <1>1, <1>2 DEF Moving, Thresholds
<1>5. r.caps \in Caps
  BY <1>1, <1>2, WrittenCap DEF Moving
<1>6. r.muted \in SUBSET ArmName
  BY <1>1, <1>2 DEF Moving
<1> QED  BY <1>1, <1>2, <1>3, <1>4, <1>5, <1>6 DEF ProfileType

\* A change does the same to profiles that are alike.
LEMMA ChangeAlike ==
  ASSUME NEW p \in ProfileType, NEW q \in ProfileType, NEW change \in Change,
         Alike(p, q)
  PROVE  Alike(ApplyChange(p, change), ApplyChange(q, change))
  BY DEF ApplyChange, Change, ProfileType, Alike

\* The equation Replayed's function is chosen by.
Unrolls(f) ==
  f = [n \in 0 .. Len(profile.history) |->
         IF n = 0 THEN StartingProfile(StartThresholds, budget)
         ELSE IF profile.history[n].applied
                THEN ApplyChange(f[n - 1], profile.history[n].change)
                ELSE f[n - 1]]

\* Two replays of one record are one replay.
LEMMA ReplayIsOne ==
  ASSUME TypeOK, NEW g, Replaying(g), NEW f, Unrolls(f)
  PROVE  \A n \in 0 .. Len(profile.history) : f[n] = g[n]
<1> DEFINE apart == {n \in 0 .. Len(profile.history) : f[n] # g[n]}
<1>0. Len(profile.history) \in Nat
  BY DEF TypeOK, ProfileType
<1> SUFFICES ASSUME apart # {} PROVE FALSE
  OBVIOUS
<1>1. PICK m \in apart : \A k \in apart : m <= k
  <2>1. apart \in SUBSET Nat
    BY <1>0
  <2> HIDE DEF apart
  <2> QED  BY <2>1, Smallest
<1>2. m \in 0 .. Len(profile.history) /\ f[m] # g[m]
  OBVIOUS
<1>3. m # 0
  BY <1>0, <1>2 DEF Replaying, Unrolls
<1>4. m - 1 \in 0 .. Len(profile.history) /\ m \in 1 .. Len(profile.history)
  BY <1>0, <1>2, <1>3
<1>5. f[m - 1] = g[m - 1]
  <2>1. m - 1 \notin apart
    <3> HIDE DEF apart
    <3> QED  BY <1>0, <1>1, <1>4
  <2> QED  BY <1>4, <2>1
<1>6. f[m] = IF profile.history[m].applied
               THEN ApplyChange(f[m - 1], profile.history[m].change)
               ELSE f[m - 1]
  BY <1>2, <1>3 DEF Unrolls
<1>7. g[m] = IF profile.history[m].applied
               THEN ApplyChange(g[m - 1], profile.history[m].change)
               ELSE g[m - 1]
  BY <1>4 DEF Replaying
<1> QED  BY <1>2, <1>5, <1>6, <1>7

\* What a replay explains, the record does.
LEMMA ExplainedIsReplayed == TypeOK /\ Explained => HistoryExplainsProfile
<1> SUFFICES ASSUME TypeOK, NEW g, Replaying(g), Alike(g[Len(profile.history)], profile)
             PROVE  HistoryExplainsProfile
  BY DEF Explained
<1> DEFINE replay == CHOOSE f : Unrolls(f)
<1>0. Len(profile.history) \in Nat
  BY DEF TypeOK, ProfileType
<1>1. Replayed = replay[Len(profile.history)]
  BY DEF Replayed, Unrolls
<1>2. Unrolls(g)
  BY <1>0 DEF Replaying, Unrolls
<1>3. PICK f : f = replay /\ Unrolls(f)
  BY <1>2
<1>4. f[Len(profile.history)] = g[Len(profile.history)]
  <2>1. \A n \in 0 .. Len(profile.history) : f[n] = g[n]
    BY <1>3, ReplayIsOne
  <2> QED  BY <1>0, <2>1
<1> HIDE DEF replay
<1> QED  BY <1>1, <1>3, <1>4 DEF Alike, HistoryExplainsProfile

(***************************************************************************)
(* RecordExplains: whatever a host's tuner proposes, the record of what    *)
(* was applied, replayed from the profile the run started on, gives the    *)
(* profile it is on (HistoryExplainsProfile).                              *)
(***************************************************************************)
THEOREM RecordExplains == Spec => []HistoryExplainsProfile
<1>1. Init => Explained
  <2> SUFFICES ASSUME Init PROVE Explained
    OBVIOUS
  <2>1. profile = StartingProfile(StartThresholds, budget) /\ Len(profile.history) = 0
    BY DEF Init, StartingProfile
  <2>2. profile \in ProfileType
    BY TypeInit DEF TypeOK
  <2>3. Replaying([n \in {0} |-> profile])
    BY <2>1, <2>2 DEF Replaying
  <2> QED  BY <2>1, <2>3 DEF Explained, Alike
<1>2. TypeOK /\ Explained /\ [Next]_vars => Explained'
  <2> SUFFICES ASSUME TypeOK, Explained, [Next]_vars
               PROVE  Explained'
    OBVIOUS
  <2>1. ASSUME NEW change \in Proposals, profile' = Fold(profile, change, bounds),
               UNCHANGED <<preset, deployment, budget>>
        PROVE  Explained'
    <3>1. profile \in ProfileType /\ change \in Change
      BY AmendingAssumption DEF TypeOK
    <3>2. PICK r, ok : /\ ok = Acceptable(profile, change, bounds)
                       /\ r = ApplyChange(profile, change)
                       /\ Recording(profile, change, ok, r, profile')
      BY <2>1, <3>1, FoldByCases
    <3>3. ok \in BOOLEAN
      BY <3>2 DEF Acceptable
    <3>4. PICK g : Replaying(g) /\ Alike(g[Len(profile.history)], profile)
      BY DEF Explained
    <3> DEFINE len == Len(profile.history)
               next == IF ok THEN ApplyChange(g[len], change) ELSE g[len]
               longer == [n \in 0 .. len + 1 |-> IF n = len + 1 THEN next ELSE g[n]]
    <3>5. /\ len \in Nat /\ profile.history \in Seq(Recorded)
          /\ profile'.history = Append(profile.history, [change |-> change, applied |-> ok])
      BY <3>1, <3>2 DEF ProfileType, Recording
    <3>6. /\ Len(profile'.history) = len + 1
          /\ \A n \in 1 .. len : profile'.history[n] = profile.history[n]
          /\ profile'.history[len + 1] = [change |-> change, applied |-> ok]
      BY <3>5
    <3>7. g[len] \in ProfileType
      BY <3>4, <3>5 DEF Replaying
    <3>8. next \in ProfileType
      BY <3>1, <3>7, ChangeTyped
    <3> HIDE DEF next
    <3>9. Replaying(longer)'
      <4>1. longer \in [0 .. len + 1 -> ProfileType]
        BY <3>4, <3>5, <3>8 DEF Replaying
      <4>2. longer[0] = StartingProfile(StartThresholds, budget)
        BY <3>4, <3>5 DEF Replaying
      <4>3. ASSUME NEW n \in 1 .. len + 1
            PROVE  longer[n] = IF profile'.history[n].applied
                                 THEN ApplyChange(longer[n - 1], profile'.history[n].change)
                                 ELSE longer[n - 1]
        <5>1. CASE n = len + 1
          BY <3>5, <3>6, <5>1 DEF next
        <5>2. CASE n \in 1 .. len
          <6>1. longer[n] = g[n] /\ longer[n - 1] = g[n - 1]
            BY <3>5, <5>2
          <6> QED  BY <3>4, <3>6, <5>2, <6>1 DEF Replaying
        <5> QED  BY <3>5, <5>1, <5>2
      <4> QED  BY <2>1, <3>6, <4>1, <4>2, <4>3 DEF Replaying
    <3>10. Alike(next, profile')
      <4>1. CASE ok
        <5>1. Alike(ApplyChange(g[len], change), ApplyChange(profile, change))
          BY <3>1, <3>4, <3>7, ChangeAlike
        <5> QED  BY <3>2, <4>1, <5>1 DEF next, Alike, Recording
      <4>2. CASE ~ok
        BY <3>2, <3>4, <4>2 DEF next, Alike, Recording
      <4> QED  BY <3>3, <4>1, <4>2
    <3>11. longer[Len(profile'.history)] = next
      BY <3>5, <3>6
    <3> QED  BY <3>9, <3>10, <3>11 DEF Explained
  <2>2. CASE UNCHANGED vars
    BY <2>2 DEF vars, Explained, Replaying
  <2> QED  BY <2>1, <2>2 DEF Next, FoldProposal
<1> QED  BY <1>1, <1>2, ExplainedIsReplayed, TypeInit, TypeStep, PTL DEF Spec
=============================================================================
