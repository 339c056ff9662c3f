-------------------------- MODULE DriveLoopProofs --------------------------
(***************************************************************************)
(* What every run keeps, whatever its thresholds, bounds, budget and tuner,*)
(* and whatever the specialists report; and, at the end, what its journal  *)
(* tells of it.                                                            *)
(***************************************************************************)
EXTENDS Journal, ProfileProofs, Chaining, FiniteSetTheorems

-----------------------------------------------------------------------------
(* The steps keep an accumulator an accumulator.                           *)

\* An option holds at most one element, of the set it is over.
LEMMA Options ==
  ASSUME NEW S
  PROVE  /\ None \in Option(S)
         /\ \A x \in S : Some(x) \in Option(S)
         /\ \A x \in Option(S) : x # None => x[1] \in S
  BY DEF None, Some, Option

\* A report is read through counts of its delegations.
LEMMA ReportCounts ==
  ASSUME NEW r \in Reports
  PROVE  /\ Artifacts(r) \in Nat
         /\ Answered(r) \in Nat
<1>1. r \in Seq(Delegation)
  BY DriveLoopAssumption DEF AttemptReport
<1>2. IsFiniteSet(1 .. Len(r)) /\ DOMAIN r = 1 .. Len(r)
  BY <1>1, FS_Interval
<1>3. \A S \in SUBSET (1 .. Len(r)) : Cardinality(S) \in Nat
  BY <1>2, FS_Subset, FS_CardinalityType
<1> QED  BY <1>2, <1>3 DEF Artifacts, Answered

\* Saturating sums are counters.
LEMMA SatAddTyped ==
  ASSUME NEW m \in U32, NEW n \in Nat
  PROVE  SatAdd(m, n) \in U32
  BY WidthAssumption DEF SatAdd, Clamped, U32

\* The accumulator a run starts on.
LEMMA StartTyped == StartingAcc \in Accumulator
<1>1. StartingProfile(StartThresholds, Budget) \in ProfileType
  BY DriveLoopAssumption, WidthAssumption DEF StartingProfile, ProfileType, U32
<1>2. [c \in Counter |-> 0] \in [Counter -> U32]
  BY WidthAssumption DEF U32
<1> QED  BY <1>1, <1>2, Options DEF StartingAcc, Accumulator, Steer

\* The plan step.
LEMMA PlannedTyped ==
  ASSUME NEW a \in Accumulator, NEW p \in Nat
  PROVE  Planned(a, p) \in Accumulator
<1>1. Some(p) \in Option(Nat)
  BY Options
<1> QED  BY <1>1 DEF Planned, Accumulator

\* The attempt step, over any report.
LEMMA AttemptedTyped ==
  ASSUME NEW a \in Accumulator, NEW r \in Reports
  PROVE  Attempted(a, r) \in Accumulator
<1>1. a.counts \in [Counter -> U32]
  BY DEF Accumulator
<1>2. /\ \A c \in Counter : SatAdd(a.counts[c], 1) \in U32
      /\ 0 \in U32
  <2>1. 1 \in Nat /\ 0 \in U32
    BY WidthAssumption DEF U32
  <2> QED  BY <1>1, <2>1, SatAddTyped
<1>3. SatAdd(a.counts["established"], Artifacts(r)) \in U32
  BY <1>1, ReportCounts, SatAddTyped DEF Counter
<1>4. Attempted(a, r).counts \in [Counter -> U32]
  BY <1>1, <1>2, <1>3 DEF Attempted, Counter, Accumulator
<1>5. Some(r) \in Option(Reports)
  BY Options
<1> QED  BY <1>4, <1>5 DEF Attempted, Accumulator

\* The reflect arm: one line learned, or none, and at most one counter.
LEMMA ReflectedTyped ==
  ASSUME NEW a \in Accumulator
  PROVE  Reflected(a) \in Accumulator
<1>1. a.counts \in [Counter -> U32]
  BY DEF Accumulator
<1>2. \A c \in Counter : SatAdd(a.counts[c], 1) \in U32
  BY <1>1, SatAddTyped
<1>3. \A c \in {"banked", "unverified"} :
        [a.counts EXCEPT ![c] = SatAdd(@, 1)] \in [Counter -> U32]
  BY <1>1, <1>2 DEF Counter
<1> DEFINE Learned(b, line) == [b EXCEPT !.lessons = Append(@, <<line>>)]
           won  == [a EXCEPT !.solved = TRUE, !.counts["banked"] = SatAdd(@, 1)]
           lost == [a EXCEPT !.counts["unverified"] = SatAdd(@, 1)]
<1>4. \A b \in Accumulator, line \in Line : Learned(b, line) \in Accumulator
  <2> SUFFICES ASSUME NEW b \in Accumulator, NEW line \in Line
               PROVE  Learned(b, line) \in Accumulator
    OBVIOUS
  <2>1. Append(b.lessons, <<line>>) \in Seq(Seq(Line))
    BY DEF Accumulator
  <2> QED  BY <2>1 DEF Accumulator
<1>5. won \in Accumulator /\ lost \in Accumulator
  BY <1>3 DEF Accumulator
<1>6. Reflected(a) \in {a, Learned(a, "unreadable"), Learned(won, "solved"),
                         Learned(lost, "confabulated"), Learned(a, "no_artifact")}
  BY DEF Reflected
<1> HIDE DEF Learned, won, lost
<1>7. /\ Learned(a, "unreadable") \in Accumulator
      /\ Learned(won, "solved") \in Accumulator
      /\ Learned(lost, "confabulated") \in Accumulator
      /\ Learned(a, "no_artifact") \in Accumulator
  BY <1>4, <1>5 DEF Line
<1> QED  BY <1>6, <1>7

\* The judge arm: one score more.
LEMMA JudgedTyped ==
  ASSUME NEW a \in Accumulator
  PROVE  Judged(a) \in Accumulator
<1> DEFINE score == Least(Answered(a.last[1]) + Artifacts(a.last[1]), 10)
<1>1. a.scores \in Seq(Nat)
  BY DEF Accumulator
<1>2. a.last # None => score \in Nat
  <2>1. a.last # None => a.last[1] \in Reports
    BY Options DEF Accumulator
  <2> QED  BY <2>1, ReportCounts DEF Least
<1>3. \A n \in Nat : Append(a.scores, n) \in Seq(Nat)
  BY <1>1
<1> HIDE DEF score
<1>4. a.last # None => Append(a.scores, score) \in Seq(Nat)
  BY <1>2, <1>3
<1>5. Append(a.scores, 0) \in Seq(Nat)
  BY <1>3
<1> QED  BY <1>4, <1>5 DEF Judged, Accumulator, Steer, score

\* Whatever tunes, a proposal is a change of the closed vocabulary.
LEMMA ChoicesTyped ==
  ASSUME NEW a \in Accumulator
  PROVE  Choices(a) \subseteq Option(Change)
<1>1. RulesChange(a) \in Option(Change)
  <2>1. /\ a.profile.thresholds["stuck"] \in U32
        /\ a.profile.caps["max_model_calls"] \in U64
    BY DEF Accumulator, ProfileType, Thresholds, ThresholdField, Caps, CapName
  <2>2. Greatest(a.profile.caps["max_model_calls"] \div 2, 1) \in U64
    BY <2>1, WidthAssumption DEF Greatest, U64
  <2>3. SatAdd(a.profile.thresholds["stuck"], 1) \in U32
    <3>1. 1 \in Nat
      OBVIOUS
    <3> QED  BY <2>1, <3>1, SatAddTyped
  <2>4. /\ \A n \in U64 :
             [kind |-> "cap", field |-> "max_model_calls", to |-> n] \in Change
        /\ \A n \in U32 :
             [kind |-> "threshold", field |-> "stuck", to |-> n] \in Change
        /\ [kind |-> "mute", field |-> "judge", to |-> 0] \in Change
    BY DriveLoopAssumption DEF Change, CapField, ThresholdField
  <2> QED  BY <2>2, <2>3, <2>4, Options DEF RulesChange
<1>2. \A change \in HostChanges : Some(change) \in Option(Change)
  BY DriveLoopAssumption, Options
<1> QED  BY <1>1, <1>2, Options DEF Choices

-----------------------------------------------------------------------------
(***************************************************************************)
(* What an arm may hand back, and what the barrier makes of it.            *)
(***************************************************************************)
SameClock(a, b) ==
  /\ a.counts["attempts"] = b.counts["attempts"]
  /\ a.counts["passes"] = b.counts["passes"]

\* No arm moves the attempts or the passes of the accumulator it is given.
LEMMA CandidatesTyped ==
  ASSUME acc \in Accumulator, NEW arm \in Arms, NEW candidate \in Candidates(arm)
  PROVE  candidate \in Accumulator /\ SameClock(candidate, acc)
<1>1. CASE candidate = acc
  BY <1>1 DEF SameClock
<1>2. CASE candidate = Reflected(acc)
  <2>1. SameClock(Reflected(acc), acc)
    BY DEF Reflected, SameClock, Accumulator, Counter
  <2> QED  BY <1>2, <2>1, ReflectedTyped
<1>3. CASE candidate = Judged(acc)
  <2>1. SameClock(Judged(acc), acc)
    BY DEF Judged, SameClock, Accumulator
  <2> QED  BY <1>3, <2>1, JudgedTyped
<1>4. ASSUME NEW p \in Choices(acc), candidate = [acc EXCEPT !.proposed = p]
      PROVE  candidate \in Accumulator /\ SameClock(candidate, acc)
  <2>1. p \in Option(Change)
    BY ChoicesTyped
  <2> QED  BY <1>4, <2>1 DEF Accumulator, SameClock
<1> QED  BY <1>1, <1>2, <1>3, <1>4 DEF Candidates, Arms

\* A field comes from the accumulator the pass began with, or from an arm.
LEMMA OwnedFrom ==
  ASSUME NEW f, NEW S, acc[f] \in S, \A arm \in Arms : returned[arm][f] \in S
  PROVE  Owned(f) \in S
  BY DEF Owned, Writers

\* The barrier, over whatever the arms handed back.
LEMMA ConvergedTyped ==
  ASSUME acc \in Accumulator, \A arm \in Arms : returned[arm] \in Accumulator
  PROVE  Converged \in Accumulator
<1> DEFINE n(c) == acc.counts[c] + Movement(c, "reflect")
                     + Movement(c, "judge") + Movement(c, "tune")
           counts == [c \in Counter |-> Clamped(n(c), MaxU32)]
<1>1. \A c \in Counter : n(c) \in Int
  <2> TAKE c \in Counter
  <2>1. acc.counts[c] \in Int
    BY WidthAssumption DEF Accumulator, U32
  <2>2. \A arm \in Arms : returned[arm].counts[c] \in Int
    <3> TAKE arm \in Arms
    <3>1. returned[arm].counts \in [Counter -> U32]
      BY DEF Accumulator
    <3> QED  BY <3>1, WidthAssumption DEF U32
  <2>3. \A arm : Movement(c, arm) \in Int
    BY <2>1, <2>2 DEF Movement
  <2> QED  BY <2>1, <2>3
<1> HIDE DEF n
<1>2. counts \in [Counter -> U32]
  BY <1>1, WidthAssumption DEF Clamped, U32
<1> HIDE DEF counts
<1>3. /\ Owned("solved") \in BOOLEAN
      /\ Owned("lessons") \in Seq(Seq(Line))
      /\ Owned("steer") \in Steer
      /\ Owned("scores") \in Seq(Nat)
      /\ Owned("judged") \in {"proceed", "steer", "restart"}
      /\ Owned("proposed") \in Option(Change)
  BY OwnedFrom DEF Accumulator
<1>4. Converged = [acc EXCEPT !.counts = counts, !.solved = Owned("solved"),
                     !.lessons = Owned("lessons"), !.steer = Owned("steer"),
                     !.scores = Owned("scores"), !.judged = Owned("judged"),
                     !.proposed = Owned("proposed")]
  BY DEF Converged, counts, n
<1> QED  BY <1>2, <1>3, <1>4 DEF Accumulator

\* The barrier leaves the clock, the last report and the profile alone.
LEMMA ConvergedKeeps ==
  ASSUME acc \in Accumulator,
         \A arm \in Arms : SameClock(returned[arm], acc)
  PROVE  /\ SameClock(Converged, acc)
         /\ Converged.last = acc.last
         /\ Converged.profile = acc.profile
<1>1. /\ acc.counts["attempts"] \in U32
      /\ acc.counts["passes"] \in U32
  BY DEF Accumulator, Counter
<1>2. \A arm : /\ Movement("attempts", arm) = 0
               /\ Movement("passes", arm) = 0
  BY <1>1, WidthAssumption DEF Movement, SameClock, U32
<1>3. \A c \in {"attempts", "passes"} :
        Converged.counts[c] = Clamped(acc.counts[c] + Movement(c, "reflect")
                                + Movement(c, "judge") + Movement(c, "tune"), MaxU32)
  BY DEF Converged, Counter, Accumulator
<1>4. /\ Converged.counts["attempts"] = acc.counts["attempts"]
      /\ Converged.counts["passes"] = acc.counts["passes"]
  BY <1>1, <1>2, <1>3, WidthAssumption DEF Clamped, U32
<1> QED  BY <1>4 DEF Converged, SameClock, Accumulator

\* The `pass` step, whatever was proposed.
LEMMA AdvancedTyped ==
  ASSUME NEW a \in Accumulator, NEW p \in Nat
  PROVE  Advanced(a, p) \in Accumulator
<1>1. /\ a.counts \in [Counter -> U32]
      /\ a.profile \in ProfileType
      /\ a.proposed \in Option(Change)
  BY DEF Accumulator
<1>2. [a.counts EXCEPT !["passes"] = SatAdd(p, 1)] \in [Counter -> U32]
  <2>1. SatAdd(p, 1) \in U32
    BY WidthAssumption DEF SatAdd, Clamped, U32
  <2> QED  BY <1>1, <2>1
<1>3. (IF a.proposed = None THEN a.profile
       ELSE Fold(a.profile, a.proposed[1], Bounds)) \in ProfileType
  BY <1>1, Options, FoldTyped
<1> QED  BY <1>2, <1>3, Options DEF Advanced, Accumulator, Steer

-----------------------------------------------------------------------------
(***************************************************************************)
(* The inductive invariant.  Accounting is not inductive alone: what an    *)
(* arm returns becomes the accumulator a step later, so it must carry the  *)
(* same attempts and passes, and only an arm that already ran this pass    *)
(* has returned one; the meter counts a pass effective when the attempt    *)
(* left a report; a run that still works has a pass left; and a profile    *)
(* has answered at most one proposal a pass.                               *)
(***************************************************************************)
Working == pc \in {"plan_first", "research", "plan", "attempt", "evaluate", "pass"}

InStep ==
  /\ Working => pass < Budget["max_iterations"]
  /\ pc \notin {"evaluate", "failed"} => returned = << >>
  /\ pc = "evaluate" =>
       \A arm \in DOMAIN returned : SameClock(returned[arm], acc)
  /\ pc \in {"evaluate", "pass"} => acc.last # None
  /\ Len(acc.profile.history) <= pass

Inv == TypeOK /\ Accounting /\ InStep

\* The cap on passes is a positive counter.
LEMMA PassesCapped ==
  /\ Budget["max_iterations"] \in Nat \ {0}
  /\ Budget["max_iterations"] <= MaxU32
  BY DriveLoopAssumption, WidthAssumption
  DEF Caps, Legal, Scoped, CapName, WideCap, U64, U32

\* A run starts in step.
LEMMA InvInit == Init => Inv
<1> SUFFICES ASSUME Init PROVE Inv
  OBVIOUS
<1>1. acc \in Accumulator /\ meter \in Meter
  BY StartTyped, WidthAssumption DEF Init, FreshMeter, Meter, U32, U64
<1>2. TypeOK
  BY <1>1, PassesCapped, WidthAssumption DEF Init, TypeOK, PC, U32
<1>3. /\ acc.counts["attempts"] = 0 /\ acc.counts["passes"] = 0
      /\ Len(acc.profile.history) = 0
  BY DEF Init, StartingAcc, Counter, StartingProfile
<1>4. Accounting
  BY <1>3, PassesCapped, WidthAssumption DEF Init, Accounting, FreshMeter, U32
<1>5. InStep
  BY <1>3, PassesCapped, WidthAssumption DEF Init, InStep, Working, U32
<1> QED  BY <1>2, <1>4, <1>5 DEF Inv

\* Planning touches neither clock nor profile nor report.
LEMMA PlannedKeeps ==
  ASSUME NEW a \in Accumulator, NEW p \in Nat
  PROVE  /\ SameClock(Planned(a, p), a)
         /\ Planned(a, p).profile = a.profile
         /\ Planned(a, p).last = a.last
  BY DEF Planned, SameClock, Accumulator

\* The plan ahead of the loop.
LEMMA PlanFirstInv == Inv /\ PlanFirst => Inv'
<1> SUFFICES ASSUME Inv, PlanFirst PROVE Inv'
  OBVIOUS
<1>1. /\ acc' \in Accumulator /\ SameClock(acc', acc)
      /\ acc'.profile = acc.profile
  BY PlannedTyped, PlannedKeeps DEF Inv, TypeOK, PlanFirst
<1>2. TypeOK'
  BY <1>1 DEF Inv, TypeOK, PlanFirst, PC
<1>3. Accounting'
  BY <1>1 DEF Inv, Accounting, PlanFirst, SameClock
<1>4. InStep'
  BY <1>1 DEF Inv, InStep, PlanFirst, Working
<1> QED  BY <1>2, <1>3, <1>4 DEF Inv

\* The research step.
LEMMA ResearchInv == Inv /\ Research => Inv'
<1> SUFFICES ASSUME Inv, Research PROVE Inv'
  OBVIOUS
<1>1. /\ acc' \in Accumulator /\ SameClock(acc', acc)
      /\ acc'.profile = acc.profile
  <2>1. acc \in Accumulator /\ acc.lessons \in Seq(Seq(Line))
    BY DEF Inv, TypeOK, Accumulator
  <2>2. Append(acc.lessons, <<"research">>) \in Seq(Seq(Line))
    BY <2>1 DEF Line
  <2> QED  BY <2>1, <2>2 DEF Research, Accumulator, SameClock
<1>2. TypeOK'
  BY <1>1 DEF Inv, TypeOK, Research, PC
<1>3. Accounting'
  BY <1>1 DEF Inv, Accounting, Research, SameClock
<1>4. InStep'
  BY <1>1 DEF Inv, InStep, Research, Working
<1> QED  BY <1>2, <1>3, <1>4 DEF Inv

\* The head of an iteration writes the count it finds there.
LEMMA BeginPassInv == Inv /\ BeginPass => Inv'
<1> SUFFICES ASSUME Inv, BeginPass PROVE Inv'
  OBVIOUS
<1> DEFINE counted == [acc EXCEPT !.counts["passes"] = pass]
<1>0. /\ acc \in Accumulator /\ pass \in U32 /\ pass \in Nat
      /\ acc.counts["passes"] = pass
  BY PassesCapped, WidthAssumption DEF Inv, TypeOK, Accounting, BeginPass, U32
<1>1. /\ counted \in Accumulator /\ SameClock(counted, acc)
      /\ counted.profile = acc.profile
  BY <1>0 DEF Accumulator, SameClock, Counter
<1> HIDE DEF counted
<1>2. acc' = Planned(counted, pass)
  BY DEF BeginPass, counted
<1>3. /\ acc' \in Accumulator /\ SameClock(acc', acc)
      /\ acc'.profile = acc.profile
  BY <1>0, <1>1, <1>2, PlannedTyped, PlannedKeeps DEF SameClock
<1>4. TypeOK'
  BY <1>3 DEF Inv, TypeOK, BeginPass, PC
<1>5. Accounting'
  BY <1>3 DEF Inv, Accounting, BeginPass, SameClock
<1>6. InStep'
  BY <1>3 DEF Inv, InStep, BeginPass, Working
<1> QED  BY <1>4, <1>5, <1>6 DEF Inv

\* The attempt is the one step that counts a dispatch.
LEMMA AttemptInv == Inv /\ (\E r \in Reports : Attempt(r)) => Inv'
<1> SUFFICES ASSUME Inv, NEW r \in Reports, Attempt(r) PROVE Inv'
  OBVIOUS
<1>0. /\ acc \in Accumulator
      /\ acc.counts \in [Counter -> U32]
      /\ pc = "attempt"
      /\ acc.counts["attempts"] = pass /\ pass \in Nat
      /\ pass < Budget["max_iterations"]
  <2>1. acc \in Accumulator /\ pass \in 0 .. Budget["max_iterations"]
    BY DEF Inv, TypeOK
  <2>2. acc.counts \in [Counter -> U32] /\ pc = "attempt"
    BY <2>1 DEF Accumulator, Attempt
  <2>3. acc.counts["attempts"] = pass
    BY <2>2 DEF Inv, Accounting
  <2>4. pass < Budget["max_iterations"]
    BY <2>2 DEF Inv, InStep, Working
  <2> QED  BY <2>1, <2>2, <2>3, <2>4, PassesCapped
<1>1. /\ acc'.counts["attempts"] = pass + 1
      /\ acc'.counts["passes"] = acc.counts["passes"]
  <2>1. acc'.counts["attempts"] = SatAdd(acc.counts["attempts"], 1)
    BY <1>0 DEF Attempt, Attempted, Counter, Accumulator
  <2>2. SatAdd(pass, 1) = pass + 1
    BY <1>0, PassesCapped, WidthAssumption DEF SatAdd, Clamped, U32
  <2>3. acc'.counts["passes"] = acc.counts["passes"]
    BY <1>0 DEF Attempt, Attempted, Counter, Accumulator
  <2> QED  BY <1>0, <2>1, <2>2, <2>3
<1>2. /\ acc' \in Accumulator
      /\ acc'.profile = acc.profile
      /\ acc'.last # None
  <2>1. acc' = Attempted(acc, r)
    BY DEF Attempt
  <2>2. acc' \in Accumulator
    BY <1>0, <2>1, AttemptedTyped
  <2>3. acc'.profile = acc.profile
    BY <1>0, <2>1 DEF Attempted, Accumulator
  <2>4. acc'.last = <<r>>
    BY <1>0, <2>1 DEF Attempted, Accumulator, Some
  <2>5. <<r>> # << >>
    OBVIOUS
  <2> QED  BY <2>2, <2>3, <2>4, <2>5 DEF None
<1>3. /\ log' \in Seq([report : Reports, briefed : Steer, advised : Steer])
      /\ Len(log') = Len(log) + 1
  <2> DEFINE Entry == [report : Reports, briefed : Steer, advised : Steer]
             entry == [report |-> r, briefed |-> acc.steer, advised |-> ""]
  <2>1. acc.steer \in Steer /\ "" \in Steer
    BY <1>0 DEF Accumulator, Steer
  <2>2. entry \in Entry
    BY <2>1
  <2>3. log \in Seq(Entry) /\ log' = Append(log, entry)
    BY DEF Inv, TypeOK, Attempt
  <2> HIDE DEF Entry, entry
  <2>4. log' \in Seq(Entry) /\ Len(log') = Len(log) + 1
    BY <2>2, <2>3
  <2> QED  BY <2>4 DEF Entry
<1>4. TypeOK'
  BY <1>2, <1>3 DEF Inv, TypeOK, Attempt, PC
<1>5. Accounting'
  <2>1. /\ Len(log) = pass /\ Len(routes) = pass
        /\ acc.counts["passes"] = pass
        /\ meter.iterations = pass /\ meter.effective = pass
    BY <1>0 DEF Inv, Accounting
  <2>2. pass + 1 <= Budget["max_iterations"]
    BY <1>0, PassesCapped
  <2>3. pc' = "evaluate" /\ UNCHANGED <<pass, routes, meter>>
    BY DEF Attempt
  <2> QED  BY <1>1, <1>3, <2>1, <2>2, <2>3 DEF Accounting
<1>6. InStep'
  <2>1. returned' = << >>
    BY <1>0 DEF Inv, InStep, Attempt
  <2>2. /\ Len(acc.profile.history) <= pass
        /\ pc' = "evaluate" /\ pass' = pass
    BY DEF Inv, InStep, Attempt
  <2> QED  BY <1>0, <1>2, <2>1, <2>2 DEF InStep, Working
<1> QED  BY <1>4, <1>5, <1>6 DEF Inv

\* An arm hands its candidate to the barrier.
LEMMA ArmStepInv == Inv /\ (\E arm \in Arms : ArmStep(arm)) => Inv'
<1> SUFFICES ASSUME Inv, NEW arm \in Arms, ArmStep(arm) PROVE Inv'
  OBVIOUS
<1>1. PICK candidate \in Candidates(arm) :
        returned' = [a \in DOMAIN returned \cup {arm} |->
                       IF a = arm THEN candidate ELSE returned[a]]
  BY DEF ArmStep
<1>2. candidate \in Accumulator /\ SameClock(candidate, acc)
  BY CandidatesTyped DEF Inv, TypeOK
<1>3. TypeOK'
  BY <1>1, <1>2 DEF Inv, TypeOK, ArmStep
<1>4. Accounting'
  BY DEF Inv, Accounting, ArmStep
<1>5. InStep'
  BY <1>1, <1>2 DEF Inv, InStep, ArmStep, Working
<1> QED  BY <1>3, <1>4, <1>5 DEF Inv

\* The barrier closes the set of candidates.
LEMMA ConvergeInv == Inv /\ Converge => Inv'
<1> SUFFICES ASSUME Inv, Converge PROVE Inv'
  OBVIOUS
<1>1. /\ acc \in Accumulator
      /\ \A arm \in Arms : returned[arm] \in Accumulator /\ SameClock(returned[arm], acc)
  BY DEF Inv, TypeOK, InStep, Converge
<1>2. /\ acc' \in Accumulator
      /\ SameClock(acc', acc)
      /\ acc'.last = acc.last
      /\ acc'.profile = acc.profile
  BY <1>1, ConvergedTyped, ConvergedKeeps DEF Converge
<1>3. /\ routes' \in Seq(Route)
      /\ Len(routes') = Len(routes) + 1
  <2>1. RouteOf(Converged) \in Route
    BY DEF RouteOf, Route
  <2> QED  BY <2>1 DEF Inv, TypeOK, Converge
<1>4. /\ log' \in Seq([report : Reports, briefed : Steer, advised : Steer])
      /\ Len(log') = Len(log)
  <2> DEFINE Entry == [report : Reports, briefed : Steer, advised : Steer]
  <2>1. Converged.steer \in Steer
    BY <1>2 DEF Converge, Accumulator
  <2>2. log \in Seq(Entry)
    BY DEF Inv, TypeOK
  <2>3. \A e \in Entry : [e EXCEPT !.advised = Converged.steer] \in Entry
    BY <2>1
  <2>4. log' = [log EXCEPT ![Len(log)] = [@ EXCEPT !.advised = Converged.steer]]
    BY DEF Converge
  <2> HIDE DEF Entry
  <2>5. log' \in Seq(Entry) /\ Len(log') = Len(log)
    <3>1. Len(log) \in Nat /\ log \in [1 .. Len(log) -> Entry]
      BY <2>2
    <3>2. log' \in [1 .. Len(log) -> Entry]
      BY <2>3, <2>4, <3>1
    <3> QED  BY <3>1, <3>2
  <2> QED  BY <2>5 DEF Entry
<1>5. TypeOK'
  BY <1>2, <1>3, <1>4 DEF Inv, TypeOK, Converge, PC
<1>6. Accounting'
  BY <1>2, <1>3, <1>4 DEF Inv, TypeOK, Accounting, Converge, SameClock
<1>7. InStep'
  BY <1>2 DEF Inv, InStep, Converge, Working
<1> QED  BY <1>5, <1>6, <1>7 DEF Inv

\* A fold records one proposal more.
LEMMA FoldRecords ==
  ASSUME NEW p \in ProfileType, NEW change \in Change, NEW limits
  PROVE  Len(Fold(p, change, limits).history) = Len(p.history) + 1
<1>1. PICK q, r, ok : /\ q = Fold(p, change, limits)
                      /\ Recording(p, change, ok, r, q)
  BY FoldByCases
<1>2. p.history \in Seq(Recorded)
  BY DEF ProfileType
<1>3. Len(q.history) = Len(p.history) + 1
  BY <1>1, <1>2 DEF Recording
<1> QED  BY <1>1, <1>3

\* A pass counted: its clock, and at most one more proposal on record.
LEMMA AdvancedKeeps ==
  ASSUME NEW a \in Accumulator, NEW p \in Nat
  PROVE  /\ Advanced(a, p).counts["attempts"] = a.counts["attempts"]
         /\ Advanced(a, p).counts["passes"] = SatAdd(p, 1)
         /\ Len(Advanced(a, p).profile.history) <= Len(a.profile.history) + 1
<1>1. /\ a.counts \in [Counter -> U32]
      /\ a.profile \in ProfileType
      /\ a.proposed \in Option(Change)
      /\ a.profile.history \in Seq(Recorded)
  BY DEF Accumulator, ProfileType
<1>2. /\ Advanced(a, p).counts = [a.counts EXCEPT !["passes"] = SatAdd(p, 1)]
      /\ Advanced(a, p).profile = IF a.proposed = None THEN a.profile
                                  ELSE Fold(a.profile, a.proposed[1], Bounds)
  BY DEF Advanced, Accumulator
<1>3. Len(Advanced(a, p).profile.history) <= Len(a.profile.history) + 1
  <2>1. CASE a.proposed = None
    BY <1>1, <1>2, <2>1
  <2>2. CASE a.proposed # None
    <3>1. a.proposed[1] \in Change
      BY <1>1, <2>2, Options
    <3> QED  BY <1>1, <1>2, <2>2, <3>1, FoldRecords
  <2> QED  BY <2>1, <2>2
<1> QED  BY <1>1, <1>2, <1>3 DEF Counter

\* A pass metered, when its attempt left a report.
LEMMA MeteredPass ==
  ASSUME NEW m \in Meter
  PROVE  /\ MeterPass(m, TRUE) \in Meter
         /\ MeterPass(m, TRUE).iterations = SatAdd(m.iterations, 1)
         /\ MeterPass(m, TRUE).effective = SatAdd(m.effective, 1)
<1>1. m.iterations \in U32 /\ m.effective \in U32 /\ 1 \in Nat
  BY DEF Meter
<1>2. SatAdd(m.iterations, 1) \in U32 /\ SatAdd(m.effective, 1) \in U32
  BY <1>1, SatAddTyped
<1> QED  BY <1>2 DEF MeterPass, Meter

\* The rest of an iteration counts the pass everywhere at once.
LEMMA ClosePassInv == Inv /\ ClosePass => Inv'
<1> SUFFICES ASSUME Inv, ClosePass PROVE Inv'
  OBVIOUS
<1> DEFINE closed == Advanced(acc, pass)
           budget == Narrowed(Budget, closed.profile.caps)
<1>0. /\ pc = "pass" /\ acc \in Accumulator /\ meter \in Meter
      /\ pass \in 0 .. Budget["max_iterations"]
  BY DEF Inv, TypeOK, ClosePass
<1>1. /\ Len(log) = pass + 1 /\ Len(routes) = pass + 1
      /\ acc.counts["attempts"] = pass + 1
      /\ meter.iterations = pass /\ meter.effective = pass
  BY <1>0 DEF Inv, Accounting
<1>2. /\ pass < Budget["max_iterations"] /\ pass \in Nat
      /\ returned = << >>
      /\ acc.last # None
      /\ Len(acc.profile.history) <= pass
  <2>1. pass < Budget["max_iterations"] /\ returned = << >> /\ acc.last # None
    BY <1>0 DEF Inv, InStep, Working
  <2>2. Len(acc.profile.history) <= pass
    BY DEF Inv, InStep
  <2> QED  BY <1>0, <2>1, <2>2, PassesCapped
<1>3. SatAdd(pass, 1) = pass + 1
  BY <1>2, PassesCapped, WidthAssumption DEF SatAdd, Clamped
<1>4. /\ closed \in Accumulator
      /\ closed.counts["attempts"] = pass + 1
      /\ closed.counts["passes"] = pass + 1
      /\ Len(closed.profile.history) <= pass + 1
  <2>1. /\ closed \in Accumulator
        /\ closed.counts["attempts"] = acc.counts["attempts"]
        /\ closed.counts["passes"] = SatAdd(pass, 1)
        /\ Len(closed.profile.history) <= Len(acc.profile.history) + 1
    BY <1>0, <1>2, AdvancedTyped, AdvancedKeeps
  <2> HIDE DEF closed
  <2>2. Len(acc.profile.history) \in Nat /\ Len(closed.profile.history) \in Nat
    <3>1. /\ acc.profile.history \in Seq(Recorded)
          /\ closed.profile.history \in Seq(Recorded)
      BY <1>0, <2>1 DEF Accumulator, ProfileType
    <3> QED  BY <3>1
  <2> QED  BY <1>1, <1>2, <1>3, <2>1, <2>2
<1>5. /\ meter' \in Meter
      /\ meter'.iterations = pass + 1 /\ meter'.effective = pass + 1
  <2>1. meter' = MeterPass(meter, TRUE)
    BY <1>2 DEF ClosePass
  <2> QED  BY <1>0, <1>1, <1>3, <2>1, MeteredPass
<1> HIDE DEF closed
<1>6. /\ acc' = closed /\ pass' = pass + 1
      /\ UNCHANGED <<returned, routes, outcome, log>>
      /\ bound' \in Bound \cup {NoBound}
  <2>1. Tripped(budget, MeterPass(meter, acc.last # None)) \in Bound \cup {NoBound}
    BY DEF Tripped, Bound
  <2> QED  BY <2>1 DEF ClosePass, closed, Bound
<1>7. /\ pc' \in {"failed", "report", "plan"}
      /\ pc' = "plan" => pass + 1 < Budget["max_iterations"]
  <2>1. pc' = "plan" => ~(pass + 1 >= Budget["max_iterations"])
    BY DEF ClosePass
  <2> QED  BY <1>2, <2>1, PassesCapped DEF ClosePass
<1>8. TypeOK'
  <2>1. pass' \in 0 .. Budget["max_iterations"]
    BY <1>2, <1>6, PassesCapped
  <2> QED  BY <1>2, <1>4, <1>5, <1>6, <1>7, <2>1 DEF Inv, TypeOK, PC
<1>9. Accounting'
  <2>1. pass + 1 <= Budget["max_iterations"]
    BY <1>2, PassesCapped
  <2> QED  BY <1>1, <1>4, <1>5, <1>6, <1>7, <2>1 DEF Accounting
<1>10. InStep'
  BY <1>2, <1>4, <1>6, <1>7 DEF InStep, Working
<1> QED  BY <1>8, <1>9, <1>10 DEF Inv

\* The report only names the outcome.
LEMMA ReportInv == Inv /\ Report => Inv'
<1> SUFFICES ASSUME Inv, Report PROVE Inv'
  OBVIOUS
<1>1. outcome' \in Outcome \cup {"none"}
  BY DEF Report, Classify, Outcome
<1>2. TypeOK'
  BY <1>1 DEF Inv, TypeOK, Report, PC
<1>3. Accounting'
  BY DEF Inv, Accounting, Report
<1>4. InStep'
  BY DEF Inv, InStep, Report, Working
<1> QED  BY <1>2, <1>3, <1>4 DEF Inv

\* A failed run is held to nothing but its types.
LEMMA StepFailsInv == Inv /\ StepFails => Inv'
<1> SUFFICES ASSUME Inv, StepFails PROVE Inv'
  OBVIOUS
<1>1. pc' = "failed" /\ TypeOK'
  BY DEF Inv, TypeOK, StepFails, PC
<1>2. Accounting' /\ InStep'
  BY <1>1 DEF Inv, Accounting, InStep, StepFails, Working
<1> QED  BY <1>1, <1>2 DEF Inv

\* Every step of a run keeps the invariant.
LEMMA InvStep == Inv /\ [Next]_vars => Inv'
<1> SUFFICES ASSUME Inv, [Next]_vars PROVE Inv'
  OBVIOUS
<1>1. CASE UNCHANGED vars
  BY <1>1 DEF vars, Inv, TypeOK, Accounting, InStep, Working
<1>2. CASE Next
  BY <1>2, PlanFirstInv, ResearchInv, BeginPassInv, AttemptInv, ArmStepInv,
     ConvergeInv, ClosePassInv, ReportInv, StepFailsInv DEF Next
<1> QED  BY <1>1, <1>2

\* A profile moves when a pass is closed, and at no other step.
LEMMA ProfileStands ==
  Inv /\ [Next]_vars /\ ~ClosePass => acc'.profile = acc.profile
<1> SUFFICES ASSUME Inv, [Next]_vars, ~ClosePass
             PROVE  acc'.profile = acc.profile
  OBVIOUS
<1>1. CASE UNCHANGED vars
  BY <1>1 DEF vars
<1>2. acc \in Accumulator /\ pass \in Nat
  BY PassesCapped DEF Inv, TypeOK
<1>3. CASE PlanFirst
  BY <1>2, <1>3, PlannedKeeps DEF PlanFirst
<1>4. CASE Research
  BY <1>2, <1>4 DEF Research, Accumulator
<1>5. CASE BeginPass
  BY <1>2, <1>5 DEF BeginPass, Planned, Accumulator
<1>6. CASE \E r \in Reports : Attempt(r)
  BY <1>2, <1>6 DEF Attempt, Attempted, Accumulator
<1>7. CASE Converge
  BY <1>2, <1>7 DEF Converge, Converged, Accumulator
<1>8. CASE (\E arm \in Arms : ArmStep(arm)) \/ Report \/ StepFails
  BY <1>8 DEF ArmStep, Report, StepFails
<1> QED  BY <1>1, <1>3, <1>4, <1>5, <1>6, <1>7, <1>8 DEF Next

(***************************************************************************)
(* TypeCorrect: the accumulator keeps its shape through every step of every*)
(* run, every counter inside its width (TypeOK).                           *)
(***************************************************************************)
THEOREM TypeCorrect == Spec => []TypeOK
<1>1. Inv => TypeOK
  BY DEF Inv
<1> QED  BY <1>1, InvInit, InvStep, PTL DEF Spec

(***************************************************************************)
(* OneStory: the loop variable, the accumulator's counts, the meter, the   *)
(* routes and the dispatches never disagree, and no run dispatches past    *)
(* its iteration cap (Accounting), whatever tunes it.                      *)
(***************************************************************************)
THEOREM OneStory == Spec => []Accounting
<1>1. Inv => Accounting
  BY DEF Inv
<1> QED  BY <1>1, InvInit, InvStep, PTL DEF Spec

-----------------------------------------------------------------------------
(***************************************************************************)
(* A conclusion is earned.  What the property adds to make it inductive:   *)
(* the reflect arm cannot be muted, so of the candidates the barrier folds *)
(* only its own can differ in `solved`, and does so exactly on a           *)
(* corroborated claim of the attempt just made; and a pass that concluded  *)
(* routes to a terminal route, so no attempt follows it.                   *)
(***************************************************************************)
EarnedNow == log # << >> /\ Corroborated(Last(log).report)

OnlyTheLastEarns == \A i \in 1 .. Len(log) : Corroborated(log[i].report) => i = Len(log)

Unconcluded == ~acc.solved /\ ~EarnedNow

Judging ==
  /\ log # << >>
  /\ ~acc.solved
  /\ acc.last = Some(Last(log).report)
  /\ \A arm \in DOMAIN returned :
       returned[arm].solved = (arm = "reflect" /\ EarnedNow)

Concluding ==
  /\ acc.profile.muted \subseteq Bounds.mutable_arms
  /\ OnlyTheLastEarns
  /\ acc.solved => EarnedNow
  /\ pc \in {"plan_first", "research", "plan", "attempt"} => Unconcluded
  /\ pc = "evaluate" => Judging
  /\ pc \in {"pass", "report", "done"} => acc.solved = EarnedNow

\* A fold mutes only what the bounds let be muted.
LEMMA FoldMutes ==
  ASSUME NEW p \in ProfileType, NEW change \in Change,
         p.muted \subseteq Bounds.mutable_arms
  PROVE  Fold(p, change, Bounds).muted \subseteq Bounds.mutable_arms
<1>1. PICK q, r, ok : /\ q = Fold(p, change, Bounds)
                      /\ r = ApplyChange(p, change)
                      /\ ok = Acceptable(p, change, Bounds)
                      /\ Recording(p, change, ok, r, q)
                      /\ Moving(p, change, r)
  BY FoldByCases, ChangeByCases
<1>2. CASE ~ok
  BY <1>1, <1>2 DEF Recording
<1>3. CASE ok
  <2>1. q.muted = r.muted
    BY <1>1, <1>3 DEF Recording
  <2>2. change.kind \in {"mute", "unmute"} => change.field \in Bounds.mutable_arms
    BY <1>1, <1>3 DEF Acceptable, Permits
  <2>3. change.kind \notin {"mute", "unmute"} => r.muted = p.muted
    BY <1>1 DEF Moving
  <2>4. change.kind \in {"mute", "unmute"} =>
          r.muted = p.muted \cup {change.field} \/ r.muted = p.muted \ {change.field}
    BY <1>1 DEF Moving
  <2> QED  BY <1>1, <2>1, <2>2, <2>3, <2>4
<1> QED  BY <1>1, <1>2, <1>3 DEF Acceptable

\* Only the reflect arm concludes, and only on a corroborated claim.
LEMMA CandidateConcludes ==
  ASSUME Inv, Concluding, pc = "evaluate",
         NEW arm \in Arms, NEW candidate \in Candidates(arm)
  PROVE  candidate.solved = (arm = "reflect" /\ EarnedNow)
<1>1. /\ acc \in Accumulator /\ acc.solved = FALSE
      /\ acc.last = <<Last(log).report>> /\ log # << >>
  BY DEF Inv, TypeOK, Concluding, Judging, Some, Accumulator
<1>2. "reflect" \notin acc.profile.muted
  BY DriveLoopAssumption DEF Concluding
<1>3. CASE arm = "reflect"
  <2>1. candidate = Reflected(acc)
    BY <1>2, <1>3 DEF Candidates
  <2>2. acc.last # None /\ acc.last[1] = Last(log).report
    BY <1>1 DEF None
  <2>3. CASE EarnedNow
    <3>1. Reflected(acc).solved = TRUE
      BY <1>1, <2>2, <2>3 DEF Reflected, EarnedNow, Accumulator
    <3> QED  BY <1>3, <2>1, <2>3, <3>1
  <2>4. CASE ~EarnedNow
    <3>1. ~Corroborated(acc.last[1])
      BY <1>1, <2>2, <2>4 DEF EarnedNow
    <3>2. Reflected(acc).solved = acc.solved
      BY <1>1, <2>2, <3>1 DEF Reflected, Accumulator
    <3> QED  BY <1>1, <2>1, <2>4, <3>2
  <2> QED  BY <2>3, <2>4
<1>4. CASE arm # "reflect"
  <2>1. candidate.solved = acc.solved
    <3>1. CASE candidate = acc
      BY <3>1
    <3>2. CASE candidate = Judged(acc)
      <4>1. Judged(acc).solved = acc.solved
        BY <1>1 DEF Judged, Accumulator
      <4> QED  BY <3>2, <4>1
    <3>3. ASSUME NEW p \in Choices(acc), candidate = [acc EXCEPT !.proposed = p]
          PROVE  candidate.solved = acc.solved
      BY <1>1, <3>3 DEF Accumulator
    <3> QED  BY <1>4, <3>1, <3>2, <3>3 DEF Candidates, Arms
  <2> QED  BY <1>1, <1>4, <2>1
<1> QED  BY <1>3, <1>4

\* The barrier concludes as the reflect arm did.
LEMMA ConvergedConcludes ==
  ASSUME Inv, Concluding, pc = "evaluate", DOMAIN returned = Arms
  PROVE  Converged.solved = EarnedNow
<1>1. /\ acc.solved = FALSE
      /\ \A arm \in Arms : returned[arm].solved = (arm = "reflect" /\ EarnedNow)
      /\ acc \in Accumulator
  BY DEF Concluding, Judging, Inv, TypeOK, Accumulator
<1>2. Converged.solved = Owned("solved")
  BY <1>1 DEF Converged, Accumulator
<1>3. CASE EarnedNow
  <2>1. returned["reflect"].solved = TRUE /\ "reflect" \in Arms
    BY <1>1, <1>3 DEF Arms
  <2>2. "reflect" \in Writers("solved")
    BY <1>1, <2>1 DEF Writers
  <2>3. PICK x \in Writers("solved") : Owned("solved") = returned[x].solved
    BY <2>2 DEF Owned
  <2>4. returned[x].solved # FALSE /\ x \in Arms
    BY <1>1, <2>3 DEF Writers
  <2>5. returned[x].solved = (x = "reflect" /\ EarnedNow)
    BY <1>1, <2>4
  <2> QED  BY <1>2, <1>3, <2>3, <2>4, <2>5
<1>4. CASE ~EarnedNow
  <2>1. \A arm \in Arms : returned[arm].solved = FALSE
    BY <1>1, <1>4
  <2>2. Writers("solved") = {}
    BY <1>1, <2>1 DEF Writers
  <2>3. Owned("solved") = FALSE
    BY <1>1, <2>2 DEF Owned
  <2> QED  BY <1>2, <1>4, <2>3 DEF EarnedNow
<1> QED  BY <1>3, <1>4

\* A run starts with nothing concluded.
LEMMA ConcludingInit == Init => Concluding
<1> SUFFICES ASSUME Init PROVE Concluding
  OBVIOUS
<1>1. acc.solved = FALSE /\ acc.profile.muted = {} /\ log = << >>
      /\ pc = "plan_first"
  BY DEF Init, StartingAcc, StartingProfile
<1> QED  BY <1>1 DEF Concluding, Unconcluded, EarnedNow, OnlyTheLastEarns

\* Planning and research conclude nothing.
LEMMA PreparingConcludes ==
  Inv /\ Concluding /\ (PlanFirst \/ Research \/ BeginPass) => Concluding'
<1> SUFFICES ASSUME Inv, Concluding, PlanFirst \/ Research \/ BeginPass
             PROVE  Concluding'
  OBVIOUS
<1>1. acc \in Accumulator
  BY DEF Inv, TypeOK
<1>2. acc'.solved = acc.solved /\ acc'.profile = acc.profile
  BY <1>1 DEF PlanFirst, Research, BeginPass, Planned, Accumulator
<1>3. /\ log' = log
      /\ pc \in {"plan_first", "research", "plan"}
      /\ pc' \in {"research", "plan", "attempt"}
  BY DEF PlanFirst, Research, BeginPass
<1>4. EarnedNow' = EarnedNow /\ OnlyTheLastEarns' = OnlyTheLastEarns
  BY <1>3 DEF EarnedNow, OnlyTheLastEarns
<1> QED  BY <1>2, <1>3, <1>4 DEF Concluding, Unconcluded

\* An attempt is made only while nothing is concluded.
LEMMA AttemptConcludes ==
  Inv /\ Concluding /\ (\E r \in Reports : Attempt(r)) => Concluding'
<1> SUFFICES ASSUME Inv, Concluding, NEW r \in Reports, Attempt(r)
             PROVE  Concluding'
  OBVIOUS
<1> DEFINE entry == [report |-> r, briefed |-> acc.steer, advised |-> ""]
<1>1. /\ acc \in Accumulator /\ pc = "attempt" /\ pc' = "evaluate"
      /\ log' = Append(log, entry) /\ entry.report = r
      /\ acc' = Attempted(acc, r)
      /\ log \in Seq([report : Reports, briefed : Steer, advised : Steer])
      /\ returned' = returned
  BY DEF Inv, TypeOK, Attempt
<1>2. acc'.solved = acc.solved /\ acc'.profile = acc.profile /\ acc'.last = <<r>>
  BY <1>1 DEF Attempted, Accumulator, Some
<1>3. ~acc.solved /\ ~EarnedNow /\ OnlyTheLastEarns
  BY <1>1 DEF Concluding, Unconcluded
<1>4. \A i \in 1 .. Len(log) : ~Corroborated(log[i].report)
  <2> SUFFICES ASSUME NEW i \in 1 .. Len(log), Corroborated(log[i].report)
               PROVE  FALSE
    OBVIOUS
  <2>1. i = Len(log)
    BY <1>3 DEF OnlyTheLastEarns
  <2>2. log # << >>
    OBVIOUS
  <2> QED  BY <1>3, <2>1, <2>2 DEF EarnedNow, Last
<1> HIDE DEF entry
<1>5. /\ Len(log') = Len(log) + 1 /\ Len(log) \in Nat
      /\ log'[Len(log')] = entry
      /\ \A i \in 1 .. Len(log) : log'[i] = log[i]
      /\ log' # << >>
  BY <1>1
<1>6. OnlyTheLastEarns'
  <2>1. \A i \in 1 .. Len(log') : i \in 1 .. Len(log) \/ i = Len(log')
    BY <1>5
  <2> QED  BY <1>4, <1>5, <2>1 DEF OnlyTheLastEarns
<1>7. returned' = << >>
  BY <1>1 DEF Inv, InStep
<1>8. Judging'
  <2>1. acc'.last = Some(Last(log').report)
    BY <1>1, <1>2, <1>5 DEF Some, Last
  <2>2. DOMAIN returned' = {}
    BY <1>7
  <2> QED  BY <1>2, <1>3, <1>5, <2>1, <2>2 DEF Judging
<1> QED  BY <1>1, <1>2, <1>3, <1>6, <1>8 DEF Concluding

\* An arm hands back what it may.
LEMMA ArmStepConcludes ==
  Inv /\ Concluding /\ (\E arm \in Arms : ArmStep(arm)) => Concluding'
<1> SUFFICES ASSUME Inv, Concluding, NEW arm \in Arms, ArmStep(arm)
             PROVE  Concluding'
  OBVIOUS
<1>1. PICK candidate \in Candidates(arm) :
        returned' = [a \in DOMAIN returned \cup {arm} |->
                       IF a = arm THEN candidate ELSE returned[a]]
  BY DEF ArmStep
<1>2. pc = "evaluate" /\ pc' = pc /\ acc' = acc /\ log' = log
  BY DEF ArmStep
<1>3. candidate.solved = (arm = "reflect" /\ EarnedNow)
  BY <1>2, CandidateConcludes
<1>4. EarnedNow' = EarnedNow /\ OnlyTheLastEarns' = OnlyTheLastEarns
  BY <1>2 DEF EarnedNow, OnlyTheLastEarns
<1>5. Judging
  BY <1>2 DEF Concluding
<1>6. \A a \in DOMAIN returned' :
        returned'[a].solved = (a = "reflect" /\ EarnedNow)
  <2> TAKE a \in DOMAIN returned'
  <2>1. CASE a = arm
    BY <1>1, <1>3, <2>1
  <2>2. CASE a # arm
    <3>1. a \in DOMAIN returned /\ returned'[a] = returned[a]
      BY <1>1, <2>2
    <3> QED  BY <1>5, <3>1 DEF Judging
  <2> QED  BY <2>1, <2>2
<1>7. Judging'
  BY <1>2, <1>4, <1>5, <1>6 DEF Judging
<1> QED  BY <1>2, <1>4, <1>7 DEF Concluding

\* The barrier writes what the judge left, and revises no report.
LEMMA ConvergedLog ==
  Inv /\ Converge => /\ Len(log') = Len(log)
                     /\ log # << >> /\ log' # << >>
                     /\ \A i \in 1 .. Len(log) : log'[i].report = log[i].report
<1> SUFFICES ASSUME Inv, Converge
             PROVE  /\ Len(log') = Len(log)
                    /\ log # << >> /\ log' # << >>
                    /\ \A i \in 1 .. Len(log) : log'[i].report = log[i].report
  OBVIOUS
<1> DEFINE Entry == [report : Reports, briefed : Steer, advised : Steer]
<1>1. log \in Seq(Entry)
  BY DEF Inv, TypeOK
<1>2. /\ Len(log) \in Nat /\ DOMAIN log = 1 .. Len(log)
      /\ \A i \in 1 .. Len(log) : log[i] \in Entry
  <2> HIDE DEF Entry
  <2> QED  BY <1>1
<1>3. Len(log) = pass + 1 /\ pass \in Nat
  BY PassesCapped DEF Inv, TypeOK, Accounting, Converge
<1>4. \A e \in Entry : [e EXCEPT !.advised = Converged.steer].report = e.report
  OBVIOUS
<1>5. log' = [log EXCEPT ![Len(log)] = [@ EXCEPT !.advised = Converged.steer]]
  BY DEF Converge
<1>6. log' = [i \in 1 .. Len(log) |->
                IF i = Len(log) THEN [log[i] EXCEPT !.advised = Converged.steer]
                                ELSE log[i]]
  BY <1>2, <1>5
<1> HIDE DEF Entry
<1>7. \A i \in 1 .. Len(log) : log'[i].report = log[i].report
  BY <1>2, <1>4, <1>6
<1>8. Len(log') = Len(log)
  BY <1>2, <1>6
<1>9. Len(log) # 0
  BY <1>3
<1> QED  BY <1>7, <1>8, <1>9

\* The barrier concludes exactly on a corroborated claim.
LEMMA ConvergeConcludes == Inv /\ Concluding /\ Converge => Concluding'
<1> SUFFICES ASSUME Inv, Concluding, Converge PROVE Concluding'
  OBVIOUS
<1> DEFINE Entry == [report : Reports, briefed : Steer, advised : Steer]
<1>1. /\ acc \in Accumulator /\ pc = "evaluate" /\ pc' = "pass"
      /\ DOMAIN returned = Arms /\ acc' = Converged
      /\ log' = [log EXCEPT ![Len(log)].advised = Converged.steer]
      /\ log \in Seq(Entry)
  BY DEF Inv, TypeOK, Converge
<1>2. log # << >>
  BY <1>1 DEF Concluding, Judging
<1>3. /\ Len(log') = Len(log)
      /\ \A i \in 1 .. Len(log) : log'[i].report = log[i].report
      /\ log' # << >>
  BY ConvergedLog
<1>4. Len(log) \in 1 .. Len(log)
  BY <1>1, <1>2
<1>5. EarnedNow' = EarnedNow
  BY <1>2, <1>3, <1>4 DEF EarnedNow, Last
<1>6. OnlyTheLastEarns'
  BY <1>3 DEF Concluding, OnlyTheLastEarns
<1>7. acc'.solved = EarnedNow
  BY <1>1, ConvergedConcludes
<1>8. acc'.profile = acc.profile
  BY <1>1 DEF Converged, Accumulator
<1> QED  BY <1>1, <1>5, <1>6, <1>7, <1>8 DEF Concluding

\* A pass that concluded is followed by no other.
LEMMA ClosePassConcludes == Inv /\ Concluding /\ ClosePass => Concluding'
<1> SUFFICES ASSUME Inv, Concluding, ClosePass PROVE Concluding'
  OBVIOUS
<1>1. /\ acc \in Accumulator /\ acc.profile \in ProfileType
      /\ acc.proposed \in Option(Change)
      /\ pc = "pass" /\ log' = log /\ acc' = Advanced(acc, pass)
  BY DEF Inv, TypeOK, ClosePass, Accumulator
<1>2. /\ acc'.solved = acc.solved
      /\ acc'.profile = IF acc.proposed = None THEN acc.profile
                        ELSE Fold(acc.profile, acc.proposed[1], Bounds)
  BY <1>1 DEF Advanced, Accumulator
<1>3. acc'.profile.muted \subseteq Bounds.mutable_arms
  <2>1. acc.profile.muted \subseteq Bounds.mutable_arms
    BY DEF Concluding
  <2> QED  BY <1>1, <1>2, <2>1, Options, FoldMutes
<1>4. EarnedNow' = EarnedNow /\ OnlyTheLastEarns' = OnlyTheLastEarns
  BY <1>1 DEF EarnedNow, OnlyTheLastEarns
<1>5. /\ pc' \in {"failed", "report", "plan"}
      /\ pc' = "plan" => ~IsTerminal(acc')
  BY <1>1 DEF ClosePass
<1>6. acc'.solved => IsTerminal(acc')
  BY DEF IsTerminal, RouteOf, TerminalRoute
<1> QED  BY <1>1, <1>2, <1>3, <1>4, <1>5, <1>6 DEF Concluding, Unconcluded

\* Reporting and failing conclude nothing more.
LEMMA EndingConcludes ==
  Inv /\ Concluding /\ (Report \/ StepFails) => Concluding'
<1> SUFFICES ASSUME Inv, Concluding, Report \/ StepFails PROVE Concluding'
  OBVIOUS
<1>1. /\ acc' = acc /\ log' = log
      /\ pc' = "failed" \/ (pc = "report" /\ pc' = "done")
  BY DEF Report, StepFails
<1>2. EarnedNow' = EarnedNow /\ OnlyTheLastEarns' = OnlyTheLastEarns
  BY <1>1 DEF EarnedNow, OnlyTheLastEarns
<1> QED  BY <1>1, <1>2 DEF Concluding

\* Every step concludes only what is earned.
LEMMA ConcludingStep == Inv /\ Concluding /\ [Next]_vars => Concluding'
<1> SUFFICES ASSUME Inv, Concluding, [Next]_vars PROVE Concluding'
  OBVIOUS
<1>1. CASE UNCHANGED vars
  BY <1>1 DEF vars, Concluding, Unconcluded, Judging, EarnedNow, OnlyTheLastEarns
<1>2. CASE Next
  BY <1>2, PreparingConcludes, AttemptConcludes, ArmStepConcludes,
     ConvergeConcludes, ClosePassConcludes, EndingConcludes DEF Next
<1> QED  BY <1>1, <1>2

(***************************************************************************)
(* NoUnearnedSuccess: whatever the specialists claim and whatever tunes    *)
(* the run, it holds itself solved exactly on a claim its claimant left an *)
(* artifact behind, and stops there (ConclusionEarned).                    *)
(***************************************************************************)
THEOREM NoUnearnedSuccess == Spec => []ConclusionEarned
<1>1. Inv /\ Concluding /\ [Next]_vars => Concluding'
  BY ConcludingStep
<1>2. Inv /\ Concluding => ConclusionEarned
  <2> SUFFICES ASSUME Inv, Concluding PROVE ConclusionEarned
    OBVIOUS
  <2> DEFINE earned == {i \in DOMAIN log : Corroborated(log[i].report)}
  <2>1. DOMAIN log = 1 .. Len(log) /\ Len(log) \in Nat
        /\ (log # << >> => Len(log) \in 1 .. Len(log))
    BY DEF Inv, TypeOK
  <2>2. earned \subseteq {Len(log)}
    BY <2>1 DEF Concluding, OnlyTheLastEarns
  <2>3. EarnedNow => Len(log) \in earned
    BY <2>1 DEF EarnedNow, Last
  <2>4. earned # {} => EarnedNow
    <3>1. log = << >> => DOMAIN log = {}
      OBVIOUS
    <3> QED  BY <2>2, <3>1 DEF EarnedNow, Last
  <2>5. acc.solved => EarnedNow
    BY DEF Concluding
  <2>6. pc = "plan" => ~EarnedNow
    BY DEF Concluding, Unconcluded
  <2>7. pc \in {"pass", "report", "done"} => (acc.solved = EarnedNow)
    BY DEF Concluding
  <2> HIDE DEF earned
  <2>8. pc \in {"plan", "pass", "report", "done"} /\ earned # {} => acc.solved
    BY <2>4, <2>6, <2>7
  <2> QED  BY <2>2, <2>3, <2>5, <2>8 DEF ConclusionEarned, earned
<1> QED  BY <1>1, <1>2, ConcludingInit, InvInit, InvStep, PTL DEF Spec

-----------------------------------------------------------------------------
(***************************************************************************)
(* A run stops when told.  With the shipped tuner, or none, no threshold a *)
(* run ends by is ever moved, so the route taken at the barrier and the    *)
(* terminal check at the end of the pass, with an amendment folded between *)
(* them, decide alike.  The caps stay legal, so the pass does not fail     *)
(* there; and a threshold of no restarts at all, which ends a run whatever *)
(* its routes, is set aside.                                               *)
(***************************************************************************)
Mild(a) ==
  /\ a.counts["restarts"] = 0
  /\ a.proposed # None /\ a.proposed[1].kind = "threshold"
       => a.proposed[1].field = "stuck"

CeilingsStand ==
  /\ \A f \in ThresholdField \ {"stuck"} : acc.profile.thresholds[f] = StartThresholds[f]
  /\ Legal(acc.profile.caps)
  /\ Mild(acc)
  /\ pc = "evaluate" => \A arm \in DOMAIN returned : Mild(returned[arm])

OnlyTheLastEnds ==
  \A i \in 1 .. Len(routes) :
    routes[i] \in TerminalRoute =>
      i = Len(routes) /\ pc \in {"pass", "report", "done", "failed"}

Told ==
  /\ CeilingsStand
  /\ OnlyTheLastEnds
  /\ pc = "pass" => routes # << >> /\ Last(routes) = RouteOf(acc)
  /\ Reporting => bound # NoBound \/ Last(routes) \in TerminalRoute

\* What a terminal route is read from; `stuck` is no part of it.
Ends(a) ==
  \/ a.counts["blocked"] >= a.profile.thresholds["blocked"]
  \/ a.solved
  \/ a.counts["attempts"] >= a.profile.thresholds["max_attempts"]
  \/ a.counts["unverified"] >= a.profile.thresholds["unverified"]

\* The terminal routes are those that end a run.
LEMMA TerminalRead ==
  ASSUME NEW a
  PROVE  RouteOf(a) \in TerminalRoute <=> Ends(a)
  BY TerminalRoutes DEF Ends

\* The shipped tuner moves no other threshold.
LEMMA ShippedIsMild ==
  ASSUME Tuner # "host", NEW a \in Accumulator, Mild(a), NEW p \in Choices(a)
  PROVE  Mild([a EXCEPT !.proposed = p])
<1>1. p = RulesChange(a)
  BY DEF Choices
<1>2. p # None /\ p[1].kind = "threshold" => p[1].field = "stuck"
  BY <1>1 DEF RulesChange, Some, None
<1> QED  BY <1>2 DEF Mild, Accumulator

\* No arm moves the restarts.
LEMMA CandidatesMild ==
  ASSUME Tuner # "host", acc \in Accumulator, Mild(acc),
         NEW arm \in Arms, NEW candidate \in Candidates(arm)
  PROVE  Mild(candidate)
<1>1. CASE candidate = acc
  BY <1>1
<1>2. CASE candidate = Reflected(acc)
  <2>1. /\ Reflected(acc).counts["restarts"] = acc.counts["restarts"]
        /\ Reflected(acc).proposed = acc.proposed
    BY DEF Reflected, Accumulator, Counter
  <2> QED  BY <1>2, <2>1 DEF Mild
<1>3. CASE candidate = Judged(acc)
  <2>1. Judged(acc).counts = acc.counts /\ Judged(acc).proposed = acc.proposed
    BY DEF Judged, Accumulator
  <2> QED  BY <1>3, <2>1 DEF Mild
<1>4. ASSUME NEW p \in Choices(acc), candidate = [acc EXCEPT !.proposed = p]
      PROVE  Mild(candidate)
  BY <1>4, ShippedIsMild
<1> QED  BY <1>1, <1>2, <1>3, <1>4 DEF Candidates, Arms

\* What the barrier makes of mild candidates is mild.
LEMMA ConvergedMild ==
  ASSUME acc \in Accumulator, Mild(acc), \A arm \in Arms : Mild(returned[arm])
  PROVE  Mild(Converged)
<1> DEFINE S == {x \in {acc.proposed} \cup {returned[arm].proposed : arm \in Arms} :
                   x # None /\ x[1].kind = "threshold" => x[1].field = "stuck"}
<1>1. Owned("proposed") \in S
  <2>1. acc["proposed"] \in S /\ \A arm \in Arms : returned[arm]["proposed"] \in S
    BY DEF Mild
  <2> HIDE DEF S
  <2> QED  BY <2>1, OwnedFrom
<1>2. Converged.proposed = Owned("proposed")
  BY DEF Converged, Accumulator
<1>3. Converged.counts["restarts"] = 0
  <2>1. \A arm : Movement("restarts", arm) = 0
    BY DEF Movement, Mild
  <2>2. Converged.counts["restarts"]
          = Clamped(acc.counts["restarts"] + Movement("restarts", "reflect")
              + Movement("restarts", "judge") + Movement("restarts", "tune"), MaxU32)
    BY DEF Converged, Counter, Accumulator
  <2> QED  BY <2>1, <2>2, WidthAssumption DEF Mild, Clamped
<1> QED  BY <1>1, <1>2, <1>3 DEF Mild

\* Folding a mild proposal moves no ceiling and keeps the caps legal.
LEMMA FoldMild ==
  ASSUME NEW p \in ProfileType, NEW change \in Change, Legal(p.caps),
         change.kind = "threshold" => change.field = "stuck"
  PROVE  /\ \A f \in ThresholdField \ {"stuck"} :
              Fold(p, change, Bounds).thresholds[f] = p.thresholds[f]
         /\ Legal(Fold(p, change, Bounds).caps)
<1>1. PICK q, r, ok : /\ q = Fold(p, change, Bounds)
                      /\ r = ApplyChange(p, change)
                      /\ ok = Acceptable(p, change, Bounds)
                      /\ Recording(p, change, ok, r, q)
                      /\ Moving(p, change, r)
  BY FoldByCases, ChangeByCases
<1>2. CASE ~ok
  BY <1>1, <1>2 DEF Recording
<1>3. CASE ok
  <2>1. q.thresholds = r.thresholds /\ q.caps = r.caps
    BY <1>1, <1>3 DEF Recording
  <2>2. \A f \in ThresholdField \ {"stuck"} : r.thresholds[f] = p.thresholds[f]
    <3>1. p.thresholds \in [ThresholdField -> U32]
      BY DEF ProfileType, Thresholds
    <3> QED  BY <1>1, <3>1 DEF Moving
  <2>3. Legal(r.caps)
    <3>1. CASE change.kind = "cap"
      BY <1>1, <1>3, <3>1 DEF Acceptable, BreaksBudget, Moving
    <3>2. CASE change.kind # "cap"
      BY <1>1, <3>2 DEF Moving
    <3> QED  BY <3>1, <3>2
  <2> QED  BY <1>1, <2>1, <2>2, <2>3
<1> QED  BY <1>1, <1>2, <1>3 DEF Acceptable

\* Ahead of the barrier no ceiling moves.
LEMMA PreparingCeilings ==
  Inv /\ CeilingsStand
    /\ (PlanFirst \/ Research \/ BeginPass \/ \E r \in Reports : Attempt(r))
    => CeilingsStand'
<1> SUFFICES ASSUME Inv, CeilingsStand,
                    PlanFirst \/ Research \/ BeginPass \/ \E r \in Reports : Attempt(r)
             PROVE  CeilingsStand'
  OBVIOUS
<1>1. acc \in Accumulator
  BY DEF Inv, TypeOK
<1>2. /\ acc'.counts["restarts"] = acc.counts["restarts"]
      /\ acc'.proposed = acc.proposed
      /\ acc'.profile = acc.profile
  <2>1. CASE PlanFirst
    BY <1>1, <2>1 DEF PlanFirst, Planned, Accumulator
  <2>2. CASE Research
    BY <1>1, <2>2 DEF Research, Accumulator
  <2>3. CASE BeginPass
    BY <1>1, <2>3 DEF BeginPass, Planned, Accumulator, Counter
  <2>4. CASE \E r \in Reports : Attempt(r)
    <3>1. PICK r \in Reports : acc' = Attempted(acc, r)
      BY <2>4 DEF Attempt
    <3>2. acc'.counts["restarts"] = acc.counts["restarts"]
      BY <1>1, <3>1 DEF Attempted, Accumulator, Counter
    <3>3. acc'.proposed = acc.proposed /\ acc'.profile = acc.profile
      BY <1>1, <3>1 DEF Attempted, Accumulator
    <3> QED  BY <3>2, <3>3
  <2> QED  BY <2>1, <2>2, <2>3, <2>4
<1>3. returned' = returned /\ returned = << >>
  BY DEF PlanFirst, Research, BeginPass, Attempt, Inv, InStep
<1> QED  BY <1>2, <1>3 DEF CeilingsStand, Mild

\* Closing a pass folds a mild proposal at most.
LEMMA ClosePassCeilings == Inv /\ CeilingsStand /\ ClosePass => CeilingsStand'
<1> SUFFICES ASSUME Inv, CeilingsStand, ClosePass PROVE CeilingsStand'
  OBVIOUS
<1> DEFINE closed == Advanced(acc, pass)
<1>1. /\ acc \in Accumulator /\ acc.profile \in ProfileType
      /\ acc.proposed \in Option(Change)
      /\ acc.counts \in [Counter -> U32]
      /\ acc' = closed /\ pc' # "evaluate"
  BY DEF Inv, TypeOK, Accumulator, ClosePass
<1>2. /\ closed.counts["restarts"] = acc.counts["restarts"]
      /\ closed.proposed = None
      /\ closed.profile = IF acc.proposed = None THEN acc.profile
                          ELSE Fold(acc.profile, acc.proposed[1], Bounds)
  BY <1>1 DEF Advanced, Accumulator, Counter
<1> HIDE DEF closed
<1>3. /\ \A f \in ThresholdField \ {"stuck"} :
           closed.profile.thresholds[f] = StartThresholds[f]
      /\ Legal(closed.profile.caps)
  <2>1. CASE acc.proposed = None
    BY <1>2, <2>1 DEF CeilingsStand
  <2>2. CASE acc.proposed # None
    <3>1. acc.proposed[1] \in Change
      BY <1>1, <2>2, Options
    <3>2. acc.proposed[1].kind = "threshold" => acc.proposed[1].field = "stuck"
      BY <2>2 DEF CeilingsStand, Mild
    <3> QED  BY <1>1, <1>2, <2>2, <3>1, <3>2, FoldMild DEF CeilingsStand
  <2> QED  BY <2>1, <2>2
<1> QED  BY <1>1, <1>2, <1>3 DEF CeilingsStand, Mild

\* The shipped tuner, or none, leaves every ceiling where the run began.
LEMMA CeilingsStep ==
  ASSUME Tuner # "host"
  PROVE  Inv /\ CeilingsStand /\ [Next]_vars => CeilingsStand'
<1> SUFFICES ASSUME Inv, CeilingsStand, [Next]_vars PROVE CeilingsStand'
  OBVIOUS
<1>0. acc \in Accumulator /\ Mild(acc)
  BY DEF Inv, TypeOK, CeilingsStand
<1>1. CASE UNCHANGED vars
  BY <1>1 DEF vars, CeilingsStand, Mild
<1>2. CASE PlanFirst \/ Research \/ BeginPass \/ \E r \in Reports : Attempt(r)
  BY <1>2, PreparingCeilings
<1>3. ASSUME NEW arm \in Arms, ArmStep(arm) PROVE CeilingsStand'
  <2>1. PICK candidate \in Candidates(arm) :
          returned' = [a \in DOMAIN returned \cup {arm} |->
                         IF a = arm THEN candidate ELSE returned[a]]
    BY <1>3 DEF ArmStep
  <2>2. pc = "evaluate" /\ acc' = acc
    BY <1>3 DEF ArmStep
  <2>3. \A a \in DOMAIN returned : Mild(returned[a])
    BY <2>2 DEF CeilingsStand
  <2>4. Mild(candidate)
    BY <1>0, CandidatesMild
  <2>5. \A a \in DOMAIN returned' : Mild(returned'[a])
    BY <2>1, <2>3, <2>4
  <2> QED  BY <2>2, <2>5 DEF CeilingsStand, Mild
<1>4. CASE Converge
  <2>1. /\ pc = "evaluate" /\ pc' = "pass" /\ acc' = Converged
        /\ DOMAIN returned = Arms
    BY <1>4 DEF Converge
  <2>2. Mild(acc')
    BY <1>0, <2>1, ConvergedMild DEF CeilingsStand
  <2>3. acc'.profile = acc.profile
    BY <1>0, <2>1 DEF Converged, Accumulator
  <2> QED  BY <2>1, <2>2, <2>3 DEF CeilingsStand, Mild
<1>5. CASE ClosePass
  BY <1>5, ClosePassCeilings
<1>6. CASE Report \/ StepFails
  <2>1. acc' = acc /\ pc' # "evaluate"
    BY <1>6 DEF Report, StepFails
  <2> QED  BY <2>1 DEF CeilingsStand, Mild
<1> QED  BY <1>1, <1>2, <1>3, <1>4, <1>5, <1>6 DEF Next

\* A run starts with its own thresholds and no route.
LEMMA ToldInit == Init => Told
<1> SUFFICES ASSUME Init PROVE Told
  OBVIOUS
<1>1. /\ acc.profile = StartingProfile(StartThresholds, Budget)
      /\ acc.counts["restarts"] = 0 /\ acc.proposed = None
      /\ routes = << >> /\ pc = "plan_first"
  BY DEF Init, StartingAcc, Counter
<1>2. acc.profile.thresholds = StartThresholds /\ acc.profile.caps = Budget
  BY <1>1 DEF StartingProfile
<1> QED  BY <1>1, <1>2, DriveLoopAssumption
         DEF Told, CeilingsStand, Mild, OnlyTheLastEnds, Reporting

\* Ahead of the barrier nothing is routed.
LEMMA PreparingTold ==
  Inv /\ Told /\ (PlanFirst \/ Research \/ BeginPass \/ \E r \in Reports : Attempt(r))
    => Told'
<1> SUFFICES ASSUME Inv, Told,
                    PlanFirst \/ Research \/ BeginPass \/ \E r \in Reports : Attempt(r)
             PROVE  Told'
  OBVIOUS
<1>1. /\ routes' = routes
      /\ pc \in {"plan_first", "research", "plan", "attempt"}
      /\ pc' \in {"research", "plan", "attempt", "evaluate"}
  BY DEF PlanFirst, Research, BeginPass, Attempt
<1>2. CeilingsStand'
  BY PreparingCeilings DEF Told
<1>3. OnlyTheLastEnds'
  BY <1>1 DEF Told, OnlyTheLastEnds
<1> QED  BY <1>1, <1>2, <1>3 DEF Told, Reporting

\* An arm routes nothing.
LEMMA ArmStepTold ==
  ASSUME Tuner # "host"
  PROVE  Inv /\ Told /\ (\E arm \in Arms : ArmStep(arm)) => Told'
<1> SUFFICES ASSUME Inv, Told, NEW arm \in Arms, ArmStep(arm) PROVE Told'
  OBVIOUS
<1>1. pc = "evaluate" /\ pc' = pc /\ routes' = routes
  BY DEF ArmStep
<1>2. CeilingsStand'
  BY CeilingsStep DEF Told, Next
<1>3. OnlyTheLastEnds'
  BY <1>1 DEF Told, OnlyTheLastEnds
<1> QED  BY <1>1, <1>2, <1>3 DEF Told, Reporting

\* The barrier appends the route of what it folded.
LEMMA ConvergeTold ==
  ASSUME Tuner # "host"
  PROVE  Inv /\ Told /\ Converge => Told'
<1> SUFFICES ASSUME Inv, Told, Converge PROVE Told'
  OBVIOUS
<1>1. /\ acc \in Accumulator /\ pc = "evaluate" /\ pc' = "pass"
      /\ acc' = Converged /\ routes' = Append(routes, RouteOf(Converged))
      /\ routes \in Seq(Route)
  BY DEF Inv, TypeOK, Converge
<1>2. CeilingsStand'
  BY CeilingsStep DEF Told, Next
<1>3. \A i \in 1 .. Len(routes) : routes[i] \notin TerminalRoute
  BY <1>1 DEF Told, OnlyTheLastEnds
<1>4. /\ Len(routes) \in Nat /\ Len(routes') = Len(routes) + 1
      /\ \A i \in 1 .. Len(routes) : routes'[i] = routes[i]
      /\ routes' # << >> /\ routes'[Len(routes')] = RouteOf(acc')
  BY <1>1
<1>5. OnlyTheLastEnds'
  <2>1. \A i \in 1 .. Len(routes') : i \in 1 .. Len(routes) \/ i = Len(routes')
    BY <1>4
  <2> QED  BY <1>1, <1>3, <1>4, <2>1 DEF OnlyTheLastEnds
<1> QED  BY <1>1, <1>2, <1>4, <1>5 DEF Told, Reporting, Last

\* The end of a pass stops on the route the barrier took, and on no other.
LEMMA ClosePassTold ==
  ASSUME Tuner # "host", StartThresholds["max_restarts"] # 0
  PROVE  Inv /\ Told /\ ClosePass => Told'
<1> SUFFICES ASSUME Inv, Told, ClosePass PROVE Told'
  OBVIOUS
<1> DEFINE closed == Advanced(acc, pass)
           budget == Narrowed(Budget, closed.profile.caps)
           spent  == MeterPass(meter, acc.last # None)
<1>1. /\ acc \in Accumulator /\ acc.profile \in ProfileType
      /\ acc.proposed \in Option(Change)
      /\ acc.counts \in [Counter -> U32]
      /\ pc = "pass" /\ routes' = routes /\ acc' = closed /\ returned' = returned
      /\ pass \in Nat
  <2>1. acc \in Accumulator /\ pass \in Nat
    BY PassesCapped DEF Inv, TypeOK
  <2>2. /\ pc = "pass" /\ routes' = routes /\ acc' = closed
        /\ returned' = returned
    BY DEF ClosePass
  <2> QED  BY <2>1, <2>2 DEF Accumulator
<1>2. closed \in Accumulator /\ closed.profile \in ProfileType
  BY <1>1, AdvancedTyped DEF Accumulator
<1>3. /\ \A c \in Counter \ {"passes"} : closed.counts[c] = acc.counts[c]
      /\ closed.solved = acc.solved
      /\ closed.proposed = None
      /\ closed.expired = FALSE
      /\ closed.profile = IF acc.proposed = None THEN acc.profile
                          ELSE Fold(acc.profile, acc.proposed[1], Bounds)
  BY <1>1 DEF Advanced, Accumulator
<1> HIDE DEF closed
<1>4. CeilingsStand'
  BY CeilingsStep DEF Told, Next
<1>5. /\ \A f \in ThresholdField \ {"stuck"} :
           /\ acc.profile.thresholds[f] = StartThresholds[f]
           /\ closed.profile.thresholds[f] = StartThresholds[f]
      /\ Legal(closed.profile.caps)
  BY <1>1, <1>4 DEF Told, CeilingsStand
<1>6. closed.counts["restarts"] = 0
  BY <1>1, <1>4 DEF CeilingsStand, Mild
<1>7. Ends(closed) <=> Ends(acc)
  BY <1>3, <1>5 DEF Ends, Counter, ThresholdField
<1>8. IsTerminal(closed) <=> Last(routes) \in TerminalRoute
  <2>1. ~(closed.counts["restarts"] >= closed.profile.thresholds["max_restarts"])
    <3>1. closed.profile.thresholds["max_restarts"] = StartThresholds["max_restarts"]
      BY <1>5 DEF ThresholdField
    <3>2. StartThresholds["max_restarts"] \in U32
      BY DriveLoopAssumption DEF Thresholds, ThresholdField
    <3> QED  BY <1>6, <3>1, <3>2, WidthAssumption DEF U32
  <2>2. Last(routes) = RouteOf(acc)
    BY <1>1 DEF Told
  <2> QED  BY <1>3, <1>7, <2>1, <2>2, TerminalRead DEF IsTerminal
<1>9. Legal(budget)
  <2>1. closed.profile.caps \in Caps
    BY <1>2 DEF ProfileType
  <2> QED  BY <1>5, <2>1, NarrowedIsLegal, DriveLoopAssumption
<1>10. /\ pc' = "plan" => ~IsTerminal(closed)
       /\ pc' \in {"report", "plan"}
       /\ pc' = "report" => bound' # NoBound \/ IsTerminal(closed)
  <2> DEFINE tripped == Tripped(budget, spent)
             stops == \/ tripped # NoBound
                      \/ IsTerminal(closed)
                      \/ pass + 1 >= Budget["max_iterations"]
  <2>1. /\ pc' = IF ~Legal(budget) THEN "failed" ELSE IF stops THEN "report" ELSE "plan"
        /\ bound' = IF tripped # NoBound \/ ~stops THEN tripped
                    ELSE IF closed.counts["passes"] >= Budget["max_iterations"]
                      THEN "iterations" ELSE NoBound
    BY DEF ClosePass, closed
  <2>2. closed.counts["passes"] = pass + 1
    <3>1. closed.counts["passes"] = SatAdd(pass, 1)
      BY <1>1, AdvancedKeeps DEF closed
    <3>2. pass < Budget["max_iterations"]
      BY <1>1 DEF Inv, InStep, Working
    <3> QED  BY <1>1, <3>1, <3>2, PassesCapped, WidthAssumption DEF SatAdd, Clamped
  <2>3. "iterations" # NoBound
    BY DEF NoBound
  <2> HIDE DEF tripped
  <2> QED  BY <1>9, <2>1, <2>2, <2>3
<1>11. OnlyTheLastEnds'
  <2>1. \A i \in 1 .. Len(routes) : routes[i] \in TerminalRoute => i = Len(routes)
    BY DEF Told, OnlyTheLastEnds
  <2>2. pc' = "plan" => Last(routes) \notin TerminalRoute
    BY <1>8, <1>10
  <2> QED  BY <1>1, <1>10, <2>1, <2>2 DEF OnlyTheLastEnds, Last
<1>12. Reporting' => bound' # NoBound \/ Last(routes') \in TerminalRoute
  BY <1>1, <1>8, <1>10 DEF Reporting
<1> QED  BY <1>4, <1>10, <1>11, <1>12 DEF Told

\* Ending routes nothing.
LEMMA EndingTold == Inv /\ Told /\ (Report \/ StepFails) => Told'
<1> SUFFICES ASSUME Inv, Told, Report \/ StepFails PROVE Told'
  OBVIOUS
<1>1. /\ acc' = acc /\ routes' = routes /\ bound' = bound
      /\ \/ pc = "report" /\ pc' = "done"
         \/ pc' = "failed"
  BY DEF Report, StepFails
<1>2. CeilingsStand'
  BY <1>1 DEF Told, CeilingsStand, Mild
<1>3. OnlyTheLastEnds'
  BY <1>1 DEF Told, OnlyTheLastEnds
<1> QED  BY <1>1, <1>2, <1>3 DEF Told, Reporting

\* Every step is told what it was told before.
LEMMA ToldStep ==
  ASSUME Tuner # "host", StartThresholds["max_restarts"] # 0
  PROVE  Inv /\ Told /\ [Next]_vars => Told'
<1> SUFFICES ASSUME Inv, Told, [Next]_vars PROVE Told'
  OBVIOUS
<1>1. CASE UNCHANGED vars
  BY <1>1 DEF vars, Told, CeilingsStand, Mild, OnlyTheLastEnds, Reporting
<1>2. CASE Next
  BY <1>2, PreparingTold, ArmStepTold, ConvergeTold, ClosePassTold, EndingTold
     DEF Next
<1> QED  BY <1>1, <1>2

(***************************************************************************)
(* EndsOnlyWhenTold: with the shipped tuner or none, and restarts allowed  *)
(* at all, a run takes a terminal route once, at its last pass, and ends   *)
(* only there or at a bound (StopsWhenTold), though the check that ends it *)
(* reads a profile amended since the route was taken.                      *)
(***************************************************************************)
THEOREM EndsOnlyWhenTold ==
  ASSUME Tuner # "host", StartThresholds["max_restarts"] # 0
  PROVE  Spec => []StopsWhenTold
<1>1. Inv /\ Told /\ [Next]_vars => Told'
  BY ToldStep
<1>2. Inv /\ Told => StopsWhenTold
  <2> SUFFICES ASSUME Inv, Told PROVE StopsWhenTold
    OBVIOUS
  <2>1. DOMAIN routes = 1 .. Len(routes)
    BY DEF Inv, TypeOK
  <2> QED  BY <2>1 DEF Told, OnlyTheLastEnds, StopsWhenTold
<1> QED  BY <1>1, <1>2, ToldInit, InvInit, InvStep, PTL DEF Spec

-----------------------------------------------------------------------------
(***************************************************************************)
(* A run amends its profile as module Amending specifies.                  *)
(***************************************************************************)
\* The fold of the abstract module is the fold of the run.
LEMMA SameFold ==
  ASSUME NEW p, NEW change, NEW limits
  PROVE  Amend!Fold(p, change, limits) = Fold(p, change, limits)
<1>1. Amend!ApplyChange(p, change) = ApplyChange(p, change)
  BY DEF ApplyChange, Amend!ApplyChange, WriteCap, Amend!WriteCap, Least,
         Amend!Least, WideCap, Amend!WideCap
<1>2. Amend!Acceptable(p, change, limits) = Acceptable(p, change, limits)
  <2>1. Amend!Permits(limits, change) = Permits(limits, change)
    BY DEF Permits, Amend!Permits, Holds, Amend!Holds
  <2>2. Amend!BreaksBudget(p.caps, change) = BreaksBudget(p.caps, change)
    BY DEF BreaksBudget, Amend!BreaksBudget, Legal, Amend!Legal, WriteCap,
           Amend!WriteCap, Least, Amend!Least, WideCap, Amend!WideCap, Scoped,
           Amend!Scoped, CapName, Amend!CapName, SatMul, Amend!SatMul, Clamped,
           Amend!Clamped
  <2>3. Amend!Applied(p) = Applied(p)
    BY Zenon DEF Applied, Amend!Applied, AppliedAt, Amend!AppliedAt,
           Cardinality, Amend!Cardinality
  <2> QED  BY <2>1, <2>2, <2>3 DEF Acceptable, Amend!Acceptable
<1> QED  BY <1>1, <1>2 DEF Fold, Amend!Fold, SatAdd, Amend!SatAdd, Clamped,
         Amend!Clamped

\* So are its bounds, which a run narrows by nothing further.
LEMMA SameBounds == Amend!bounds = Bounds
<1>1. Amend!Tighter(Bounds, Bounds) = Tighter(Bounds, Bounds)
  BY DEF Tighter, Amend!Tighter, Overlap, Amend!Overlap, Least, Amend!Least,
         Greatest, Amend!Greatest, ThresholdField, Amend!ThresholdField,
         CapField, Amend!CapField
<1> QED  BY <1>1, DriveLoopAssumption, TighterOfOne DEF Amend!bounds

(***************************************************************************)
(* AmendsByTheRules: whatever the tuner, a run moves its profile only as   *)
(* module Amending lets it, one proposal a pass (AmendsAsSpecified), so    *)
(* what AmendingProofs shows of a profile holds of every run's.            *)
(***************************************************************************)
THEOREM AmendsByTheRules == Spec => AmendsAsSpecified
<1>1. Init => Amend!Init
  <2>1. Init => acc.profile = StartingProfile(StartThresholds, Budget)
    <3> DEFINE start == StartingProfile(StartThresholds, Budget)
    <3>1. StartingAcc.profile = start
      BY StartTyped DEF StartingAcc, StartingProfile
    <3> QED  BY <3>1 DEF Init
  <2>2. Amend!StartingProfile(StartThresholds, Budget)
          = StartingProfile(StartThresholds, Budget)
    BY DEF StartingProfile, Amend!StartingProfile
  <2> QED  BY <2>1, <2>2 DEF Amend!Init
<1>2. Inv /\ [Next]_vars => [Amend!Next]_(Amend!vars)
  <2> SUFFICES ASSUME Inv, [Next]_vars
               PROVE  Amend!Next \/ UNCHANGED Amend!vars
    OBVIOUS
  <2>1. CASE ClosePass
    <3>1. /\ acc \in Accumulator /\ acc.proposed \in Option(Change)
          /\ acc' = Advanced(acc, pass)
      BY <2>1 DEF Inv, TypeOK, Accumulator, ClosePass
    <3>2. acc'.profile = IF acc.proposed = None THEN acc.profile
                         ELSE Fold(acc.profile, acc.proposed[1], Bounds)
      BY <3>1 DEF Advanced, Accumulator
    <3>3. CASE acc.proposed = None
      BY <3>2, <3>3 DEF Amend!vars
    <3>4. CASE acc.proposed # None
      <4>1. acc.proposed[1] \in Change
        BY <3>1, <3>4, Options
      <4>2. Len(acc.profile.history) < Budget["max_iterations"]
        <5>1. pass < Budget["max_iterations"]
          BY <2>1 DEF Inv, InStep, Working, ClosePass
        <5>2. Len(acc.profile.history) <= pass
          BY DEF Inv, InStep
        <5>3. pass \in Int /\ Len(acc.profile.history) \in Int
          <6>1. acc.profile.history \in Seq(Recorded)
            BY <3>1 DEF Accumulator, ProfileType
          <6> QED  BY <6>1, PassesCapped DEF Inv, TypeOK
        <5> QED  BY <5>1, <5>2, <5>3, PassesCapped
      <4>3. acc'.profile = Amend!Fold(acc.profile, acc.proposed[1], Amend!bounds)
        BY <3>2, <3>4, SameFold, SameBounds
      <4> QED  BY <4>1, <4>2, <4>3 DEF Amend!Next, Amend!FoldProposal
    <3> QED  BY <3>3, <3>4
  <2>2. CASE ~ClosePass
    BY <2>2, ProfileStands DEF Amend!vars
  <2> QED  BY <2>1, <2>2
<1> QED  BY <1>1, <1>2, InvInit, InvStep, PTL
         DEF Spec, AmendsAsSpecified, Amend!Spec

-----------------------------------------------------------------------------
(***************************************************************************)
(* A run keeps the promise of module GoalRun.  Beyond what is shown above  *)
(* it takes two facts: the caps stay those of a legal budget, so that no   *)
(* run is given up where it closes a pass, and a run that reports without  *)
(* a bound has made a pass and had one left.                               *)
(***************************************************************************)
Fit ==
  /\ Legal(acc.profile.caps)
  /\ Reporting => pass > 0
  /\ Reporting /\ bound = NoBound => pass < Budget["max_iterations"]

\* Whatever is proposed, a fold keeps legal caps legal.
LEMMA FoldKeepsLegal ==
  ASSUME NEW p \in ProfileType, NEW change \in Change, Legal(p.caps)
  PROVE  Legal(Fold(p, change, Bounds).caps)
<1>1. PICK q, r, ok : /\ q = Fold(p, change, Bounds)
                      /\ r = ApplyChange(p, change)
                      /\ ok = Acceptable(p, change, Bounds)
                      /\ Recording(p, change, ok, r, q)
                      /\ Moving(p, change, r)
  BY FoldByCases, ChangeByCases
<1>2. q.caps = p.caps \/ (ok /\ q.caps = r.caps)
  BY <1>1 DEF Recording, Acceptable
<1>3. ok /\ change.kind = "cap" => Legal(r.caps)
  BY <1>1 DEF Acceptable, BreaksBudget, Moving
<1>4. change.kind # "cap" => r.caps = p.caps
  BY <1>1 DEF Moving
<1> QED  BY <1>1, <1>2, <1>3, <1>4

\* A run starts fit.
LEMMA FitInit == Init => Fit
<1> SUFFICES ASSUME Init PROVE Fit
  OBVIOUS
<1>1. acc.profile = StartingProfile(StartThresholds, Budget)
  BY DEF Init, StartingAcc
<1> QED  BY <1>1, DriveLoopAssumption DEF Fit, Init, Reporting, StartingProfile

\* Closing a pass fails nothing, and leaves the loop for a reason.
LEMMA ClosePassFit == Inv /\ Fit /\ ClosePass => Fit' /\ pc' # "failed"
<1> SUFFICES ASSUME Inv, Fit, ClosePass PROVE Fit' /\ pc' # "failed"
  OBVIOUS
<1> DEFINE closed  == Advanced(acc, pass)
           tripped == Tripped(Narrowed(Budget, closed.profile.caps),
                              MeterPass(meter, acc.last # None))
           stops   == \/ tripped # NoBound
                      \/ IsTerminal(closed)
                      \/ pass + 1 >= Budget["max_iterations"]
<1>1. /\ acc \in Accumulator /\ acc.profile \in ProfileType
      /\ acc.proposed \in Option(Change)
      /\ pass \in Nat /\ pass < Budget["max_iterations"]
  <2>1. acc \in Accumulator /\ pass \in Nat
    BY PassesCapped DEF Inv, TypeOK
  <2>2. pc = "pass"
    BY DEF ClosePass
  <2>3. pass < Budget["max_iterations"]
    BY <2>2 DEF Inv, InStep, Working
  <2> QED  BY <2>1, <2>3 DEF Accumulator
<1>2. closed.profile = IF acc.proposed = None THEN acc.profile
                       ELSE Fold(acc.profile, acc.proposed[1], Bounds)
  BY <1>1 DEF Advanced, Accumulator
<1>3. Legal(closed.profile.caps)
  BY <1>1, <1>2, Options, FoldKeepsLegal DEF Fit
<1>4. closed.profile.caps \in Caps
  <2>1. closed \in Accumulator
    BY <1>1, AdvancedTyped
  <2> QED  BY <2>1 DEF Accumulator, ProfileType
<1>5. Legal(Narrowed(Budget, closed.profile.caps))
  BY <1>3, <1>4, NarrowedIsLegal, DriveLoopAssumption
<1>6. closed.counts["passes"] = pass + 1
  <2>1. closed.counts["passes"] = SatAdd(pass, 1)
    BY <1>1, AdvancedKeeps
  <2> QED  BY <1>1, <2>1, PassesCapped, WidthAssumption DEF SatAdd, Clamped
<1>7. /\ pc' = IF stops THEN "report" ELSE "plan"
      /\ bound' = IF tripped # NoBound \/ ~stops THEN tripped
                  ELSE IF pass + 1 >= Budget["max_iterations"]
                    THEN "iterations" ELSE NoBound
      /\ pass' = pass + 1
      /\ acc' = closed
  BY <1>5, <1>6 DEF ClosePass
<1>8. Reporting' /\ bound' = NoBound => pass' < Budget["max_iterations"]
  <2>1. "iterations" # NoBound
    BY DEF NoBound
  <2> HIDE DEF tripped
  <2>2. Reporting' => stops
    BY <1>7 DEF Reporting
  <2>3. stops /\ bound' = NoBound => ~(pass + 1 >= Budget["max_iterations"])
    BY <1>7, <2>1
  <2> QED  BY <1>1, <1>7, <2>2, <2>3, PassesCapped
<1> HIDE DEF closed, tripped
<1> QED  BY <1>1, <1>3, <1>7, <1>8 DEF Fit

\* Every step keeps a run fit.
LEMMA FitStep == Inv /\ Fit /\ [Next]_vars => Fit'
<1> SUFFICES ASSUME Inv, Fit, [Next]_vars, ~ClosePass PROVE Fit'
  BY ClosePassFit
<1>1. acc'.profile = acc.profile
  BY ProfileStands
<1>2. Reporting' => Reporting
  BY DEF vars, Next, PlanFirst, Research, BeginPass, Attempt, ArmStep, Converge,
         Report, StepFails, Reporting
<1>3. pass' = pass /\ bound' = bound
  BY DEF vars, Next, PlanFirst, Research, BeginPass, Attempt, ArmStep, Converge,
         Report, StepFails
<1> QED  BY <1>1, <1>2, <1>3 DEF Fit

\* Whether a pass already closed earned the goal.
EarnedBefore == \E i \in 1 .. pass : Corroborated(log[i].report)

\* A report once made is not revised.
LEMMA ReportsStand ==
  Inv /\ [Next]_vars => /\ Len(log) <= Len(log')
                        /\ \A i \in 1 .. Len(log) : log'[i].report = log[i].report
<1> SUFFICES ASSUME Inv, [Next]_vars
             PROVE  /\ Len(log) <= Len(log')
                    /\ \A i \in 1 .. Len(log) : log'[i].report = log[i].report
  OBVIOUS
<1> DEFINE Entry == [report : Reports, briefed : Steer, advised : Steer]
<1>1. log \in Seq(Entry)
  BY DEF Inv, TypeOK
<1> HIDE DEF Entry
<1>2. CASE log' = log
  BY <1>1, <1>2
<1>3. ASSUME NEW r \in Reports, Attempt(r)
      PROVE  /\ Len(log) <= Len(log')
             /\ \A i \in 1 .. Len(log) : log'[i].report = log[i].report
  <2>1. PICK e : log' = Append(log, e)
    BY <1>3 DEF Attempt
  <2> QED  BY <1>1, <2>1
<1>4. CASE Converge
  BY <1>1, <1>4, ConvergedLog
<1>5. CASE UNCHANGED vars
  BY <1>2, <1>5 DEF vars
<1>6. CASE PlanFirst \/ Research \/ BeginPass \/ (\E arm \in Arms : ArmStep(arm))
             \/ ClosePass \/ Report \/ StepFails
  BY <1>2, <1>6 DEF PlanFirst, Research, BeginPass, ArmStep, ClosePass, Report,
     StepFails
<1> QED  BY <1>3, <1>4, <1>5, <1>6 DEF Next

\* Only closing a pass changes whether the goal was earned before.
LEMMA EarnedStands ==
  Inv /\ [Next]_vars /\ ~ClosePass => EarnedBefore' = EarnedBefore
<1> SUFFICES ASSUME Inv, [Next]_vars, ~ClosePass
             PROVE  EarnedBefore' = EarnedBefore
  OBVIOUS
<1>1. pass' = pass
  BY DEF vars, Next, PlanFirst, Research, BeginPass, Attempt, ArmStep, Converge,
         Report, StepFails
<1>2. CASE pc # "failed"
  <2>1. pass <= Len(log) /\ pass \in Nat /\ Len(log) \in Nat
    BY <1>2, PassesCapped DEF Inv, TypeOK, Accounting
  <2>2. \A i \in 1 .. pass : log'[i].report = log[i].report
    BY <2>1, ReportsStand
  <2> QED  BY <1>1, <2>2 DEF EarnedBefore
<1>3. CASE pc = "failed"
  <2>1. UNCHANGED vars
    BY <1>3 DEF Next, PlanFirst, Research, BeginPass, Attempt, ArmStep, Converge,
       ClosePass, Report, StepFails
  <2> QED  BY <2>1 DEF vars, EarnedBefore
<1> QED  BY <1>2, <1>3

\* What was earned before is what is earned now, once a pass is closed.
LEMMA EarnedClosed ==
  ASSUME Inv, Concluding
  PROVE  /\ pc \in {"report", "done"} => EarnedBefore = acc.solved
         /\ pc = "pass" => ~EarnedBefore
<1>1. /\ log \in Seq([report : Reports, briefed : Steer, advised : Steer])
      /\ pass \in Nat /\ acc.solved \in BOOLEAN
  BY PassesCapped DEF Inv, TypeOK, Accumulator
<1>2. OnlyTheLastEarns
  BY DEF Concluding
<1>3. CASE pc \in {"report", "done"}
  <2>1. Len(log) = pass
    BY <1>3 DEF Inv, Accounting
  <2>2. acc.solved = EarnedNow
    BY <1>3 DEF Concluding
  <2>3. EarnedNow => EarnedBefore
    <3>1. log # << >> => Len(log) \in 1 .. Len(log)
      BY <1>1
    <3> QED  BY <2>1, <3>1 DEF EarnedNow, EarnedBefore, Last
  <2>4. EarnedBefore => EarnedNow
    <3> SUFFICES ASSUME NEW i \in 1 .. Len(log), Corroborated(log[i].report)
                 PROVE  EarnedNow
      BY <2>1 DEF EarnedBefore
    <3>1. i = Len(log)
      BY <1>2 DEF OnlyTheLastEarns
    <3>2. log # << >>
      OBVIOUS
    <3> QED  BY <3>1, <3>2 DEF EarnedNow, Last
  <2> QED  BY <1>1, <1>3, <2>2, <2>3, <2>4 DEF EarnedNow, EarnedBefore
<1>4. CASE pc = "pass"
  <2>1. Len(log) = pass + 1
    BY <1>4 DEF Inv, Accounting
  <2> SUFFICES ASSUME NEW i \in 1 .. pass, Corroborated(log[i].report) PROVE FALSE
    BY <1>4 DEF EarnedBefore
  <2>2. i \in 1 .. Len(log)
    BY <1>1, <2>1
  <2>3. i = Len(log)
    BY <1>2, <2>2 DEF OnlyTheLastEarns
  <2> QED  BY <1>1, <2>1, <2>3
<1> QED  BY <1>3, <1>4

\* The report step stops a goal run, with a verdict it may give.
LEMMA ReportStops ==
  Inv /\ Concluding /\ Fit /\ Report => Goal!Stop
<1> SUFFICES ASSUME Inv, Concluding, Fit, Report PROVE Goal!Stop
  OBVIOUS
<1>1. /\ pc = "report" /\ pc' = "done" /\ pass' = pass
      /\ pass > 0 /\ (bound = NoBound => pass < Budget["max_iterations"])
  BY DEF Report, Fit, Reporting
<1>2. EarnedBefore = acc.solved /\ acc.solved \in BOOLEAN
  BY <1>1, EarnedClosed DEF Inv, TypeOK, Accumulator
<1>3. EarnedBefore' = EarnedBefore
  BY EarnedStands DEF Next, Report, ClosePass
<1>4. /\ outcome' \in Outcome
      /\ outcome' = "success" => acc.solved
      /\ outcome' = "stalled" => ~acc.solved /\ bound = NoBound
  BY DEF Report, Classify, Outcome
<1> QED  BY <1>1, <1>2, <1>3, <1>4 DEF Goal!Stop, EarnedBefore

(***************************************************************************)
(* KeepsThePromise: whatever the specialists bring back and whatever tunes *)
(* it, a run works in passes, no more than it was given, makes none once   *)
(* one earned the goal, and ends once, with a verdict that says success    *)
(* only if it was earned (Promise).                                        *)
(***************************************************************************)
THEOREM KeepsThePromise == Spec => Promise
<1>1. Init => Goal!Init
  <2> SUFFICES ASSUME Init PROVE Goal!Init
    OBVIOUS
  <2>1. pc = "plan_first" /\ pass = 0 /\ outcome = "none"
    BY DEF Init
  <2>2. 1 .. pass = {}
    BY <2>1
  <2> QED  BY <2>1, <2>2 DEF Goal!Init
<1>2. /\ Inv /\ Concluding /\ Fit /\ [Next]_vars
      => [Goal!Next]_(Goal!vars)
  <2> SUFFICES ASSUME Inv, Concluding, Fit, [Next]_vars
               PROVE  Goal!Next \/ UNCHANGED Goal!vars
    OBVIOUS
  <2>1. CASE ClosePass
    <3>1. /\ pc = "pass" /\ pc' \in {"plan", "report"}
          /\ pass' = pass + 1 /\ outcome' = outcome
      BY <2>1, ClosePassFit DEF ClosePass
    <3>2. pass < Budget["max_iterations"]
      BY <3>1 DEF Inv, InStep, Working
    <3>3. ~EarnedBefore
      BY <3>1, EarnedClosed
    <3> QED  BY <3>1, <3>2, <3>3 DEF Goal!Next, Goal!Pass, EarnedBefore
  <2>2. CASE Report
    BY <2>2, ReportStops DEF Goal!Next
  <2>3. CASE StepFails
    <3>1. EarnedBefore' = EarnedBefore
      BY <2>3, EarnedStands DEF StepFails, ClosePass
    <3>2. pc \notin {"done", "failed"} /\ pc' = "failed" /\ pass' = pass
          /\ outcome' = outcome
      BY <2>3 DEF StepFails
    <3> QED  BY <3>1, <3>2 DEF Goal!Next, Goal!GiveUp, EarnedBefore
  <2>4. CASE ~ClosePass /\ ~Report /\ ~StepFails
    <3>1. EarnedBefore' = EarnedBefore
      BY <2>4, EarnedStands
    <3>2. pass' = pass /\ outcome' = outcome
          /\ (pc' = pc \/ (pc \notin {"done", "failed"} /\ pc' \notin {"done", "failed"}))
      BY <2>4 DEF vars, Next, PlanFirst, Research, BeginPass, Attempt, ArmStep,
         Converge
    <3> QED  BY <3>1, <3>2 DEF Goal!vars, EarnedBefore
  <2> QED  BY <2>1, <2>2, <2>3, <2>4
<1>3. Inv /\ Fit /\ [Next]_vars => Fit'
  BY FitStep
<1> QED  BY <1>1, <1>2, <1>3, FitInit, ConcludingInit, ConcludingStep, InvInit,
            InvStep, PTL
         DEF Spec, Promise, Goal!Spec

-----------------------------------------------------------------------------
(***************************************************************************)
(* The counters say what the reports said.  A report more changes the sets *)
(* the counters count by the one pass it was brought on; between the       *)
(* attempt and the barrier an arm's candidate has moved nothing but, for   *)
(* the reflect arm and a claim nothing backs, one count.                   *)
(***************************************************************************)
\* Sets of passes are finite, and no larger than the run is long.
LEMMA PassesCounted ==
  ASSUME NEW rs \in Seq(Reports), NEW S \in SUBSET (1 .. Len(rs))
  PROVE  /\ IsFiniteSet(S)
         /\ Cardinality(S) \in 0 .. Len(rs)
<1>1. IsFiniteSet(1 .. Len(rs)) /\ Cardinality(1 .. Len(rs)) = Len(rs)
  <2>1. Len(rs) \in Nat /\ 1 \in Int
    OBVIOUS
  <2> QED  BY <2>1, FS_Interval
<1>2. IsFiniteSet(S) /\ Cardinality(S) <= Len(rs)
  BY <1>1, FS_Subset
<1> QED  BY <1>2, FS_CardinalityType

\* What one report more does to the passes since something last came back.
LEMMA SinceGrows ==
  ASSUME NEW rs \in Seq(Reports), NEW r \in Reports
  PROVE  LET more == Append(rs, r)
             n    == Len(rs) + 1
         IN  /\ Informative(r) => Since(more) = {}
             /\ ~Informative(r) => Since(more) = Since(rs) \cup {n}
             /\ ~Informative(r) =>
                  Failing(more) = IF Blocked(r) THEN Failing(rs) \cup {n}
                                                ELSE Failing(rs)
<1> DEFINE more == Append(rs, r)
           n    == Len(rs) + 1
<1>1. /\ Len(rs) \in Nat /\ DOMAIN rs = 1 .. Len(rs)
      /\ Len(more) = n /\ DOMAIN more = 1 .. n
      /\ more[n] = r
      /\ \A i \in 1 .. Len(rs) : more[i] = rs[i]
  OBVIOUS
<1> HIDE DEF more
<1>2. Informative(r) => Since(more) = {}
  <2> SUFFICES ASSUME NEW i \in Since(more) PROVE ~Informative(r)
    OBVIOUS
  <2>1. i \in 1 .. n /\ n \in i .. Len(more)
    BY <1>1 DEF Since
  <2> QED  BY <1>1, <2>1 DEF Since
<1>3. ~Informative(r) => Since(more) = Since(rs) \cup {n}
  <2> SUFFICES ASSUME ~Informative(r), NEW i \in 1 .. n
               PROVE  i \in Since(more) <=> i \in Since(rs) \/ i = n
    BY <1>1 DEF Since
  <2>1. CASE i = n
    <3>1. \A j \in i .. Len(more) : j = n
      BY <1>1, <2>1
    <3> QED  BY <1>1, <2>1, <3>1 DEF Since
  <2>2. CASE i # n
    <3>1. i \in 1 .. Len(rs)
      BY <1>1, <2>2
    <3>2. \A j \in i .. Len(more) : j = n \/ (j \in i .. Len(rs) /\ more[j] = rs[j])
      BY <1>1, <3>1
    <3>3. \A j \in i .. Len(rs) : j \in i .. Len(more) /\ more[j] = rs[j]
      BY <1>1, <3>1
    <3> QED  BY <1>1, <2>2, <3>1, <3>2, <3>3 DEF Since
  <2> QED  BY <2>1, <2>2
<1>4. ~Informative(r) =>
        Failing(more) = IF Blocked(r) THEN Failing(rs) \cup {n} ELSE Failing(rs)
  <2> SUFFICES ASSUME ~Informative(r)
               PROVE  \A i : i \in Failing(more) <=>
                              i \in Failing(rs) \/ (i = n /\ Blocked(r))
    OBVIOUS
  <2>1. Since(rs) \subseteq 1 .. Len(rs)
    BY <1>1 DEF Since
  <2> QED  BY <1>1, <1>3, <2>1 DEF Failing
<1> QED  BY <1>2, <1>3, <1>4 DEF more

\* What it does to the artifacts.
LEMMA WrittenGrows ==
  ASSUME NEW rs \in Seq(Reports), NEW r \in Reports, IsFiniteSet(Written(rs))
  PROVE  /\ IsFiniteSet(Written(Append(rs, r)))
         /\ Cardinality(Written(Append(rs, r)))
              = Cardinality(Written(rs)) + Artifacts(r)
<1> DEFINE more == Append(rs, r)
           n    == Len(rs) + 1
           last == {n} \X Wrote(r)
<1>1. /\ Len(rs) \in Nat /\ DOMAIN rs = 1 .. Len(rs)
      /\ DOMAIN more = 1 .. n
      /\ more[n] = r
      /\ \A i \in 1 .. Len(rs) : more[i] = rs[i]
  OBVIOUS
<1> HIDE DEF more
<1>2. Written(more) = Written(rs) \cup last
  <2>1. \A i \in 1 .. n : i = n \/ i \in 1 .. Len(rs)
    BY <1>1
  <2>2. \A x : x \in Written(more) <=> \E i \in 1 .. n : x \in {i} \X Wrote(more[i])
    BY <1>1 DEF Written
  <2>3. \A x : x \in Written(rs) <=>
                 \E i \in 1 .. Len(rs) : x \in {i} \X Wrote(rs[i])
    BY <1>1 DEF Written
  <2>4. n \in 1 .. n /\ \A i \in 1 .. Len(rs) : i \in 1 .. n
    BY <1>1
  <2>5. \A x \in Written(more) : x \in Written(rs) \cup last
    BY <1>1, <2>1, <2>2, <2>3
  <2>6. \A x \in Written(rs) \cup last : x \in Written(more)
    BY <1>1, <2>2, <2>3, <2>4
  <2> QED  BY <2>5, <2>6
<1>3. Written(rs) \cap last = {}
  <2> SUFFICES ASSUME NEW x \in Written(rs) PROVE x \notin last
    OBVIOUS
  <2>1. PICK i \in 1 .. Len(rs) : x \in {i} \X Wrote(rs[i])
    BY <1>1 DEF Written
  <2>2. x[1] # n
    BY <1>1, <2>1
  <2> QED  BY <2>2
<1>4. IsFiniteSet(Wrote(r)) /\ Cardinality(Wrote(r)) = Artifacts(r)
  <2>1. r \in Seq(Delegation)
    BY DriveLoopAssumption DEF AttemptReport
  <2>2. IsFiniteSet(1 .. Len(r)) /\ DOMAIN r = 1 .. Len(r)
    BY <2>1, FS_Interval
  <2> QED  BY <2>2, FS_Subset DEF Wrote, Artifacts
<1>5. IsFiniteSet(last) /\ Cardinality(last) = Artifacts(r)
  <2>1. IsFiniteSet({n}) /\ Cardinality({n}) = 1
    BY FS_Singleton
  <2>2. IsFiniteSet(last) /\ Cardinality(last) = Cardinality({n}) * Cardinality(Wrote(r))
    BY <1>4, <2>1, FS_Product
  <2> QED  BY <1>4, <2>1, <2>2, ReportCounts
<1> HIDE DEF last
<1>6. /\ IsFiniteSet(Written(rs) \cup last)
      /\ Cardinality(Written(rs) \cup last)
           = Cardinality(Written(rs)) + Cardinality(last)
               - Cardinality(Written(rs) \cap last)
  BY <1>5, FS_Union
<1>7. Cardinality(Written(rs) \cap last) = 0
  BY <1>3, FS_EmptySet
<1>8. Cardinality(Written(rs)) \in Nat /\ Artifacts(r) \in Nat
  BY FS_CardinalityType, ReportCounts
<1> QED  BY <1>2, <1>5, <1>6, <1>7, <1>8 DEF more

\* A saturating count of what saturates is the saturating count of it all.
LEMMA SaturatingSum ==
  ASSUME NEW m \in Nat, NEW n \in Nat
  PROVE  SatAdd(Least(m, MaxU32), n) = Least(m + n, MaxU32)
  BY WidthAssumption DEF SatAdd, Clamped, Least

\* A claim more, or not.
LEMMA UnprovenGrows ==
  ASSUME NEW rs \in Seq(Reports), Len(rs) # 0
  PROVE  LET n == Len(rs)
         IN  /\ Cardinality(Unproven(rs, n - 1)) \in 0 .. n - 1
             /\ Cardinality(Unproven(rs, n))
                  = Cardinality(Unproven(rs, n - 1))
                      + (IF Claimed(rs[n]) /\ ~Corroborated(rs[n]) THEN 1 ELSE 0)
<1> DEFINE n     == Len(rs)
           fewer == Unproven(rs, n - 1)
<1>0. n \in Nat \ {0}
  OBVIOUS
<1>1. fewer \subseteq 1 .. n - 1
  BY DEF Unproven
<1>2. IsFiniteSet(1 .. n - 1) /\ Cardinality(1 .. n - 1) = n - 1
  <2>1. n - 1 \in Nat /\ 1 \in Int
    BY <1>0
  <2> QED  BY <2>1, FS_Interval
<1>3. /\ IsFiniteSet(fewer) /\ Cardinality(fewer) \in Nat
      /\ Cardinality(fewer) <= n - 1
  BY <1>1, <1>2, FS_Subset, FS_CardinalityType
<1>4. Unproven(rs, n) = IF Claimed(rs[n]) /\ ~Corroborated(rs[n])
                          THEN fewer \cup {n} ELSE fewer
  <2>1. \A i : i \in 1 .. n <=> i = n \/ i \in 1 .. n - 1
    BY <1>0
  <2> QED  BY <2>1 DEF Unproven
<1>5. n \notin fewer
  BY <1>0, <1>1
<1> HIDE DEF n, fewer
<1>6. Cardinality(fewer \cup {n}) = Cardinality(fewer) + 1
  BY <1>3, <1>5, FS_AddElement
<1> QED  BY <1>0, <1>3, <1>4, <1>6 DEF n, fewer

-----------------------------------------------------------------------------
\* What the counters are, to the pass: blocked and unproductive count every pass
\* of their kind since something last came back, unverified every claim nothing
\* backed.
CountersMatchHistory ==
  LET judged == IF pc = "evaluate" THEN Len(log) - 1 ELSE Len(log)
  IN  pc # "failed" =>
        /\ acc.counts["blocked"] = Cardinality(Failing(Brought))
        /\ acc.counts["unproductive"]
             = Cardinality(Since(Brought) \ Failing(Brought))
        /\ acc.counts["unverified"] = Cardinality(Unproven(Brought, judged))
        /\ acc.counts["established"]
             = Least(Cardinality(Written(Brought)), MaxU32)

Unbacked == Claimed(Last(log).report) /\ ~Corroborated(Last(log).report)

Streaks == {"blocked", "unproductive", "established"}

\* What an arm has done to the counters by the time the barrier reads them.
Moves(arm, a) ==
  /\ \A c \in Streaks : a.counts[c] = acc.counts[c]
  /\ a.counts["unverified"]
       = acc.counts["unverified"] + (IF arm = "reflect" /\ Unbacked THEN 1 ELSE 0)

Counting ==
  /\ CountersMatchHistory
  /\ IsFiniteSet(Written(Brought))
  /\ pc = "evaluate" => \A arm \in DOMAIN returned : Moves(arm, returned[arm])

\* The reports brought are a sequence of reports, one a pass.
LEMMA BroughtTyped ==
  ASSUME Inv
  PROVE  /\ Brought \in Seq(Reports)
         /\ Len(Brought) = Len(log)
         /\ Len(log) \in Nat
         /\ \A i \in 1 .. Len(log) : Brought[i] = log[i].report
<1> DEFINE Entry == [report : Reports, briefed : Steer, advised : Steer]
<1>1. log \in Seq(Entry)
  BY DEF Inv, TypeOK
<1>2. \A e \in Entry : e.report \in Reports
  OBVIOUS
<1> HIDE DEF Entry
<1>3. Len(log) \in Nat /\ DOMAIN log = 1 .. Len(log)
      /\ \A i \in 1 .. Len(log) : log[i] \in Entry
  BY <1>1
<1> QED  BY <1>2, <1>3 DEF Brought

\* A run starts with nothing brought and nothing counted.
LEMMA CountingInit == Init => Counting
<1> SUFFICES ASSUME Init PROVE Counting
  OBVIOUS
<1>1. log = << >> /\ pc = "plan_first" /\ acc.counts = [c \in Counter |-> 0]
  BY DEF Init, StartingAcc
<1>2. Brought = << >> /\ Len(log) = 0
  BY <1>1 DEF Brought
<1>3. Since(Brought) = {} /\ Failing(Brought) = {} /\ Unproven(Brought, 0) = {}
      /\ Written(Brought) = {}
  <2>1. 1 .. 0 = {}
    OBVIOUS
  <2> QED  BY <1>2, <2>1 DEF Since, Failing, Unproven, Written
<1>4. /\ IsFiniteSet({}) /\ Cardinality({}) = 0 /\ {} \ {} = {}
      /\ Least(0, MaxU32) = 0
  BY FS_EmptySet, WidthAssumption DEF Least
<1> QED  BY <1>1, <1>2, <1>3, <1>4 DEF Counting, CountersMatchHistory, Counter

\* The steps that bring nothing and fold nothing count nothing.
LEMMA QuietCounts ==
  Inv /\ Counting
    /\ (PlanFirst \/ Research \/ BeginPass \/ ClosePass \/ Report \/ StepFails)
    => Counting'
<1> SUFFICES ASSUME Inv, Counting, PlanFirst \/ Research \/ BeginPass \/ ClosePass
                                     \/ Report \/ StepFails
             PROVE  Counting'
  OBVIOUS
<1>1. acc \in Accumulator /\ acc.counts \in [Counter -> U32]
  BY DEF Inv, TypeOK, Accumulator
<1>2. \A c \in Streaks \cup {"unverified"} : acc'.counts[c] = acc.counts[c]
  <2>1. \A c \in Streaks \cup {"unverified"} : c \in Counter /\ c # "passes"
    BY DEF Streaks, Counter
  <2>2. CASE PlanFirst
    BY <1>1, <2>2 DEF PlanFirst, Planned, Accumulator
  <2>3. CASE Research
    BY <1>1, <2>3 DEF Research, Accumulator
  <2>4. CASE BeginPass
    <3> DEFINE counted == [acc EXCEPT !.counts["passes"] = pass]
    <3>1. acc' = Planned(counted, pass)
      BY <2>4 DEF BeginPass
    <3>2. counted.counts = [acc.counts EXCEPT !["passes"] = pass]
          /\ counted \in [DOMAIN acc -> {counted[f] : f \in DOMAIN acc}]
          /\ DOMAIN acc = {"counts", "solved", "expired", "last", "lessons",
                           "steer", "scores", "judged", "planned", "proposed",
                           "profile"}
      BY <1>1 DEF Accumulator
    <3> HIDE DEF counted
    <3>3. acc'.counts = counted.counts
      BY <3>1, <3>2 DEF Planned
    <3> QED  BY <1>1, <2>1, <3>2, <3>3
  <2>5. CASE ClosePass
    <3>1. acc' = Advanced(acc, pass)
      BY <2>5 DEF ClosePass
    <3>2. acc'.counts = [acc.counts EXCEPT !["passes"] = SatAdd(pass, 1)]
      BY <1>1, <3>1 DEF Advanced, Accumulator
    <3> QED  BY <1>1, <2>1, <3>2
  <2>6. CASE Report \/ StepFails
    BY <2>6 DEF Report, StepFails
  <2> QED  BY <2>2, <2>3, <2>4, <2>5, <2>6
<1>3. /\ log' = log /\ pc' # "evaluate"
      /\ pc' # "failed" => pc # "evaluate" /\ pc # "failed"
  BY DEF PlanFirst, Research, BeginPass, ClosePass, Report, StepFails
<1>4. Brought' = Brought
  BY <1>3 DEF Brought
<1>5. CountersMatchHistory'
  BY <1>2, <1>3, <1>4 DEF Counting, CountersMatchHistory, Streaks
<1> QED  BY <1>3, <1>4, <1>5 DEF Counting

\* Below the cap on passes a count of passes has room for one more.
LEMMA RoomForOne ==
  ASSUME Inv, pc \in {"attempt", "evaluate"}, NEW k \in 0 .. pass
  PROVE  SatAdd(k, 1) = k + 1
<1>1. pass \in Nat /\ pass < Budget["max_iterations"]
  BY PassesCapped DEF Inv, TypeOK, InStep, Working
<1> QED  BY <1>1, PassesCapped, WidthAssumption DEF SatAdd, Clamped

\* The attempt counts what it brought.
LEMMA AttemptCounts ==
  Inv /\ Counting /\ (\E r \in Reports : Attempt(r)) => Counting'
<1> SUFFICES ASSUME Inv, Counting, NEW r \in Reports, Attempt(r) PROVE Counting'
  OBVIOUS
<1>1. /\ acc \in Accumulator /\ acc.counts \in [Counter -> U32]
      /\ pc = "attempt" /\ pc' = "evaluate"
      /\ acc' = Attempted(acc, r) /\ returned' = returned
  BY DEF Inv, TypeOK, Accumulator, Attempt
<1>2. /\ Brought \in Seq(Reports) /\ Len(Brought) = pass /\ Len(log) = pass
      /\ pass \in Nat
  BY <1>1, BroughtTyped DEF Inv, Accounting
<1>3. Brought' = Append(Brought, r) /\ Len(log') = Len(log) + 1
  <2> DEFINE Entry == [report : Reports, briefed : Steer, advised : Steer]
             entry == [report |-> r, briefed |-> acc.steer, advised |-> ""]
  <2>1. log \in Seq(Entry) /\ log' = Append(log, entry)
    BY DEF Inv, TypeOK, Attempt
  <2>2. entry.report = r
    OBVIOUS
  <2> HIDE DEF Entry, entry
  <2>3. /\ Len(log') = Len(log) + 1 /\ DOMAIN log' = 1 .. Len(log) + 1
        /\ DOMAIN log = 1 .. Len(log) /\ log'[Len(log) + 1] = entry
        /\ \A i \in 1 .. Len(log) : log'[i] = log[i]
    BY <2>1
  <2>4. Append(Brought, r) = [i \in 1 .. Len(log) + 1 |->
                                IF i = Len(log) + 1 THEN r ELSE Brought[i]]
    <3> DEFINE more == Append(Brought, r)
    <3>1. /\ more \in Seq(Reports) /\ Len(more) = Len(log) + 1
          /\ more[Len(log) + 1] = r
          /\ \A i \in 1 .. Len(log) : more[i] = Brought[i]
      BY <1>2
    <3> HIDE DEF more
    <3>2. more = [i \in 1 .. Len(log) + 1 |-> more[i]]
      BY <3>1
    <3> QED  BY <1>2, <3>1, <3>2 DEF more
  <2>5. \A i \in 1 .. Len(log) + 1 :
          log'[i].report = IF i = Len(log) + 1 THEN r ELSE Brought[i]
    BY <1>2, <2>2, <2>3 DEF Brought
  <2> QED  BY <2>3, <2>4, <2>5 DEF Brought
<1>4. /\ acc.counts["blocked"] = Cardinality(Failing(Brought))
      /\ acc.counts["unproductive"] = Cardinality(Since(Brought) \ Failing(Brought))
      /\ acc.counts["unverified"] = Cardinality(Unproven(Brought, pass))
      /\ acc.counts["established"] = Least(Cardinality(Written(Brought)), MaxU32)
      /\ IsFiniteSet(Written(Brought))
  BY <1>1, <1>2 DEF Counting, CountersMatchHistory
<1>5. /\ Since(Brought) \subseteq 1 .. pass
      /\ Failing(Brought) \subseteq Since(Brought)
  <2>1. DOMAIN Brought = 1 .. pass
    BY <1>2
  <2> QED  BY <2>1 DEF Since, Failing
<1>6. /\ IsFiniteSet(Failing(Brought))
      /\ Cardinality(Failing(Brought)) \in 0 .. pass
      /\ IsFiniteSet(Since(Brought) \ Failing(Brought))
      /\ Cardinality(Since(Brought) \ Failing(Brought)) \in 0 .. pass
  <2>1. /\ Failing(Brought) \in SUBSET (1 .. Len(Brought))
        /\ Since(Brought) \ Failing(Brought) \in SUBSET (1 .. Len(Brought))
    BY <1>2, <1>5
  <2> QED  BY <1>2, <2>1, PassesCounted
<1> DEFINE n == pass + 1
<1>7. n \notin Since(Brought) /\ n \notin Failing(Brought)
  BY <1>2, <1>5
<1>8. /\ acc'.counts["blocked"] = Cardinality(Failing(Brought'))
      /\ acc'.counts["unproductive"] = Cardinality(Since(Brought') \ Failing(Brought'))
  <2>1. CASE Informative(r)
    <3>1. acc'.counts["blocked"] = 0 /\ acc'.counts["unproductive"] = 0
      BY <1>1, <2>1 DEF Attempted, Accumulator, Counter
    <3>2. Since(Brought') = {}
      BY <1>2, <1>3, <2>1, SinceGrows
    <3>3. Failing(Brought') = {} /\ {} \ {} = {}
      BY <3>2 DEF Failing
    <3> QED  BY <3>1, <3>2, <3>3, FS_EmptySet
  <2>2. CASE ~Informative(r) /\ Blocked(r)
    <3>1. /\ acc'.counts["blocked"] = SatAdd(acc.counts["blocked"], 1)
          /\ acc'.counts["unproductive"] = acc.counts["unproductive"]
      BY <1>1, <2>2 DEF Attempted, Accumulator, Counter
    <3>2. /\ Since(Brought') = Since(Brought) \cup {n}
          /\ Failing(Brought') = Failing(Brought) \cup {n}
      BY <1>2, <1>3, <2>2, SinceGrows
    <3>3. Cardinality(Failing(Brought')) = Cardinality(Failing(Brought)) + 1
      BY <1>6, <1>7, <3>2, FS_AddElement
    <3>4. Since(Brought') \ Failing(Brought') = Since(Brought) \ Failing(Brought)
      BY <1>7, <3>2
    <3>5. SatAdd(acc.counts["blocked"], 1) = acc.counts["blocked"] + 1
      BY <1>1, <1>4, <1>6, RoomForOne
    <3> QED  BY <1>4, <3>1, <3>3, <3>4, <3>5
  <2>3. CASE ~Informative(r) /\ ~Blocked(r)
    <3>1. /\ acc'.counts["unproductive"] = SatAdd(acc.counts["unproductive"], 1)
          /\ acc'.counts["blocked"] = acc.counts["blocked"]
      BY <1>1, <2>3 DEF Attempted, Accumulator, Counter
    <3>2. /\ Since(Brought') = Since(Brought) \cup {n}
          /\ Failing(Brought') = Failing(Brought)
      BY <1>2, <1>3, <2>3, SinceGrows
    <3>3. Since(Brought') \ Failing(Brought')
            = (Since(Brought) \ Failing(Brought)) \cup {n}
      BY <1>7, <3>2
    <3>4. Cardinality(Since(Brought') \ Failing(Brought'))
            = Cardinality(Since(Brought) \ Failing(Brought)) + 1
      BY <1>6, <1>7, <3>3, FS_AddElement
    <3>5. SatAdd(acc.counts["unproductive"], 1) = acc.counts["unproductive"] + 1
      BY <1>1, <1>4, <1>6, RoomForOne
    <3> QED  BY <1>4, <3>1, <3>2, <3>4, <3>5
  <2> QED  BY <2>1, <2>2, <2>3
<1>9. acc'.counts["unverified"] = Cardinality(Unproven(Brought', pass))
  <2>1. acc'.counts["unverified"] = acc.counts["unverified"]
    BY <1>1 DEF Attempted, Accumulator, Counter
  <2>2. \A i \in 1 .. pass : Brought'[i] = Brought[i]
    BY <1>2, <1>3
  <2>3. Unproven(Brought', pass) = Unproven(Brought, pass)
    BY <2>2 DEF Unproven
  <2> QED  BY <1>4, <2>1, <2>3
<1>10. /\ acc'.counts["established"] = Least(Cardinality(Written(Brought')), MaxU32)
       /\ IsFiniteSet(Written(Brought'))
  <2>1. acc'.counts["established"] = SatAdd(acc.counts["established"], Artifacts(r))
    BY <1>1 DEF Attempted, Accumulator, Counter
  <2>2. /\ IsFiniteSet(Written(Brought'))
        /\ Cardinality(Written(Brought'))
             = Cardinality(Written(Brought)) + Artifacts(r)
    BY <1>2, <1>3, <1>4, WrittenGrows
  <2>3. Cardinality(Written(Brought)) \in Nat /\ Artifacts(r) \in Nat
    BY <1>4, FS_CardinalityType, ReportCounts
  <2> QED  BY <1>4, <2>1, <2>2, <2>3, SaturatingSum
<1>11. returned' = << >>
  BY <1>1 DEF Inv, InStep
<1>12. CountersMatchHistory'
  <2>1. Len(log') - 1 = pass
    BY <1>2, <1>3
  <2> QED  BY <1>1, <1>8, <1>9, <1>10, <2>1 DEF CountersMatchHistory
<1> QED  BY <1>10, <1>11, <1>12 DEF Counting

\* An arm moves no streak, and only an unbacked claim is counted.
LEMMA CandidateMoves ==
  ASSUME Inv, Concluding, Counting, pc = "evaluate",
         NEW arm \in Arms, NEW candidate \in Candidates(arm)
  PROVE  Moves(arm, candidate)
<1>1. /\ acc \in Accumulator /\ acc.counts \in [Counter -> U32]
      /\ acc.last = <<Last(log).report>> /\ log # << >>
  BY DEF Inv, TypeOK, Concluding, Judging, Some, Accumulator
<1>2. Streaks \cup {"unverified"} \subseteq Counter \ {"banked"}
  BY DEF Streaks, Counter
<1>3. CASE arm = "reflect"
  <2>1. candidate = Reflected(acc)
    <3>1. "reflect" \notin acc.profile.muted
      BY DriveLoopAssumption DEF Concluding
    <3> QED  BY <1>3, <3>1 DEF Candidates
  <2>2. acc.last # None /\ acc.last[1] = Last(log).report
    BY <1>1 DEF None
  <2>3. \A c \in Streaks : candidate.counts[c] = acc.counts[c]
    <3>1. "unverified" \notin Streaks
      BY DEF Streaks
    <3> QED  BY <1>1, <1>2, <2>1, <2>2, <3>1 DEF Reflected, Accumulator
  <2>4. CASE Unbacked
    <3>1. candidate.counts["unverified"] = SatAdd(acc.counts["unverified"], 1)
      BY <1>1, <2>1, <2>2, <2>4 DEF Unbacked, Reflected, Accumulator, Counter
    <3>2. acc.counts["unverified"] \in 0 .. pass
      <4>1. /\ Brought \in Seq(Reports) /\ Len(Brought) = pass + 1
            /\ Len(log) = pass + 1 /\ pass \in Nat
        BY BroughtTyped, PassesCapped DEF Inv, TypeOK, Accounting
      <4>2. Cardinality(Unproven(Brought, pass)) \in 0 .. pass
        <5>1. Len(Brought) # 0 /\ Len(Brought) - 1 = pass
          BY <4>1
        <5> QED  BY <4>1, <5>1, UnprovenGrows
      <4>3. acc.counts["unverified"] = Cardinality(Unproven(Brought, pass))
        BY <4>1 DEF Counting, CountersMatchHistory
      <4> QED  BY <4>2, <4>3
    <3>3. SatAdd(acc.counts["unverified"], 1) = acc.counts["unverified"] + 1
      BY <3>2, RoomForOne
    <3> QED  BY <1>3, <2>3, <2>4, <3>1, <3>3 DEF Moves
  <2>5. CASE ~Unbacked
    <3>1. candidate.counts["unverified"] = acc.counts["unverified"]
      BY <1>1, <2>1, <2>2, <2>5 DEF Unbacked, Reflected, Accumulator, Counter
    <3>2. acc.counts["unverified"] \in Int
      BY <1>1, <1>2, WidthAssumption DEF U32
    <3> QED  BY <2>3, <2>5, <3>1, <3>2 DEF Moves
  <2> QED  BY <2>4, <2>5
<1>4. CASE arm # "reflect"
  <2>1. candidate.counts = acc.counts
    <3>1. CASE candidate = acc
      BY <3>1
    <3>2. CASE candidate = Judged(acc)
      <4>1. Judged(acc).counts = acc.counts
        BY <1>1 DEF Judged, Accumulator
      <4> QED  BY <3>2, <4>1
    <3>3. ASSUME NEW p \in Choices(acc), candidate = [acc EXCEPT !.proposed = p]
          PROVE  candidate.counts = acc.counts
      BY <1>1, <3>3 DEF Accumulator
    <3> QED  BY <1>4, <3>1, <3>2, <3>3 DEF Candidates, Arms
  <2>2. acc.counts["unverified"] \in Int
    BY <1>1, <1>2, WidthAssumption DEF U32
  <2> QED  BY <1>4, <2>1, <2>2 DEF Moves
<1> QED  BY <1>3, <1>4

\* An arm hands back what it counted.
LEMMA ArmStepCounts ==
  Inv /\ Concluding /\ Counting /\ (\E arm \in Arms : ArmStep(arm)) => Counting'
<1> SUFFICES ASSUME Inv, Concluding, Counting, NEW arm \in Arms, ArmStep(arm)
             PROVE  Counting'
  OBVIOUS
<1>1. PICK candidate \in Candidates(arm) :
        returned' = [a \in DOMAIN returned \cup {arm} |->
                       IF a = arm THEN candidate ELSE returned[a]]
  BY DEF ArmStep
<1>2. pc = "evaluate" /\ pc' = pc /\ acc' = acc /\ log' = log
  BY DEF ArmStep
<1>3. Moves(arm, candidate)
  BY <1>2, CandidateMoves
<1>4. \A a \in DOMAIN returned' : Moves(a, returned'[a])
  BY <1>1, <1>2, <1>3 DEF Counting
<1>5. \A a \in DOMAIN returned' : Moves(a, returned[a])'
  BY <1>2, <1>4 DEF Moves, Unbacked
<1>6. Brought' = Brought /\ CountersMatchHistory'
  BY <1>2 DEF Counting, CountersMatchHistory, Brought
<1> QED  BY <1>5, <1>6 DEF Counting

\* The barrier adds up what the arms counted.
LEMMA ConvergeCounts == Inv /\ Concluding /\ Counting /\ Converge => Counting'
<1> SUFFICES ASSUME Inv, Concluding, Counting, Converge PROVE Counting'
  OBVIOUS
<1>1. /\ acc \in Accumulator /\ acc.counts \in [Counter -> U32]
      /\ pc = "evaluate" /\ pc' = "pass" /\ acc' = Converged
      /\ DOMAIN returned = Arms /\ {"reflect", "judge"} \subseteq Arms
  BY DEF Inv, TypeOK, Accumulator, Converge, Arms
<1>2. \A arm \in Arms : Moves(arm, returned[arm])
  BY <1>1 DEF Counting
<1>3. /\ Brought \in Seq(Reports) /\ Len(Brought) = pass + 1
      /\ Len(log) = pass + 1 /\ pass \in Nat
      /\ pass + 1 <= Budget["max_iterations"]
      /\ \A i \in 1 .. Len(log) : Brought[i] = log[i].report
  <2>1. pass < Budget["max_iterations"] /\ pass \in Nat
    BY <1>1, PassesCapped DEF Inv, TypeOK, InStep, Working
  <2> QED  BY <1>1, <2>1, BroughtTyped, PassesCapped DEF Inv, Accounting
<1>4. Brought' = Brought /\ Len(log') = Len(log)
  <2>1. /\ Len(log') = Len(log)
        /\ \A i \in 1 .. Len(log) : log'[i].report = log[i].report
    BY ConvergedLog
  <2>2. DOMAIN log = 1 .. Len(log) /\ DOMAIN log' = 1 .. Len(log')
    <3>1. Inv'
      BY ConvergeInv
    <3> QED  BY <3>1 DEF Inv, TypeOK
  <2> QED  BY <2>1, <2>2 DEF Brought
<1>5. \A c \in Counter :
        acc'.counts[c] = Clamped(acc.counts[c] + Movement(c, "reflect")
                           + Movement(c, "judge") + Movement(c, "tune"), MaxU32)
  BY <1>1 DEF Converged, Accumulator
<1>6. \A c \in Counter : acc.counts[c] \in 0 .. MaxU32
  BY <1>1 DEF U32
<1>7. \A c \in Streaks : acc'.counts[c] = acc.counts[c]
  <2> SUFFICES ASSUME NEW c \in Streaks PROVE acc'.counts[c] = acc.counts[c]
    OBVIOUS
  <2>1. c \in Counter
    BY DEF Streaks, Counter
  <2>2. \A arm : Movement(c, arm) = 0
    <3>1. acc.counts[c] \in Int
      BY <1>6, <2>1, WidthAssumption
    <3> QED  BY <1>2, <3>1 DEF Moves, Movement
  <2> QED  BY <1>5, <1>6, <2>1, <2>2, WidthAssumption DEF Clamped
<1> DEFINE one == IF Unbacked THEN 1 ELSE 0
<1>8. /\ acc.counts["unverified"] = Cardinality(Unproven(Brought, pass))
      /\ acc.counts["blocked"] = Cardinality(Failing(Brought))
      /\ acc.counts["unproductive"] = Cardinality(Since(Brought) \ Failing(Brought))
      /\ acc.counts["established"] = Least(Cardinality(Written(Brought)), MaxU32)
      /\ IsFiniteSet(Written(Brought))
  BY <1>1, <1>3 DEF Counting, CountersMatchHistory
<1>9. /\ Cardinality(Unproven(Brought, pass)) \in 0 .. pass
      /\ Cardinality(Unproven(Brought, pass + 1))
           = Cardinality(Unproven(Brought, pass)) + one
  <2>1. Len(Brought) # 0 /\ Len(Brought) - 1 = pass
    BY <1>3
  <2>2. Brought[pass + 1] = Last(log).report
    BY <1>3 DEF Last
  <2> QED  BY <1>3, <2>1, <2>2, UnprovenGrows DEF Unbacked
<1>10. acc'.counts["unverified"] = acc.counts["unverified"] + one
  <2>1. /\ Movement("unverified", "reflect") = one
        /\ Movement("unverified", "judge") = 0
        /\ Movement("unverified", "tune") = 0
    <3>1. acc.counts["unverified"] \in Int
      BY <1>6, WidthAssumption DEF Counter
    <3> QED  BY <1>1, <1>2, <3>1 DEF Moves, Movement
  <2>2. acc.counts["unverified"] + one \in 0 .. MaxU32
    BY <1>3, <1>8, <1>9, PassesCapped, WidthAssumption
  <2> HIDE DEF one
  <2>3. one \in Int /\ acc.counts["unverified"] \in Int
    BY <1>6, WidthAssumption DEF Counter, one
  <2>4. acc'.counts["unverified"] = Clamped(acc.counts["unverified"] + one, MaxU32)
    BY <1>5, <2>1, <2>3 DEF Counter
  <2> QED  BY <2>2, <2>4, WidthAssumption DEF Clamped
<1> HIDE DEF one
<1>11. CountersMatchHistory'
  BY <1>1, <1>3, <1>4, <1>7, <1>8, <1>9, <1>10 DEF CountersMatchHistory, Streaks
<1> QED  BY <1>1, <1>4, <1>8, <1>11 DEF Counting

\* Every step counts what it brought.
LEMMA CountingStep == Inv /\ Concluding /\ Counting /\ [Next]_vars => Counting'
<1> SUFFICES ASSUME Inv, Concluding, Counting, [Next]_vars PROVE Counting'
  OBVIOUS
<1>1. CASE UNCHANGED vars
  BY <1>1 DEF vars, Counting, CountersMatchHistory, Brought, Moves, Unbacked
<1>2. CASE Next
  BY <1>2, QuietCounts, AttemptCounts, ArmStepCounts, ConvergeCounts DEF Next
<1> QED  BY <1>1, <1>2

\* A run of passes at the end of a kind is no more than the kind.
LEMMA InARowCounted ==
  ASSUME NEW rs \in Seq(Reports), NEW n \in 0 .. Len(rs),
         NEW kind \in SUBSET (1 .. Len(rs))
  PROVE  Cardinality(InARow(kind, n)) <= Cardinality(kind)
<1>1. IsFiniteSet(kind)
  BY PassesCounted
<1>2. InARow(kind, n) \subseteq kind
  <2> SUFFICES ASSUME NEW i \in 1 .. n, i .. n \subseteq kind PROVE i \in kind
    BY DEF InARow
  <2>1. i \in i .. n
    OBVIOUS
  <2> QED  BY <2>1
<1> QED  BY <1>1, <1>2, FS_Subset

(***************************************************************************)
(* CountersTellTheHistory: over every history of reports, whatever tunes   *)
(* the run, a counter its routes are taken on is at least the passes of    *)
(* its kind in a row and at most those of the kind since something last    *)
(* came back (StreaksMatchHistory): no streak survives a pass that brought *)
(* something, none is lost, and no claim is counted twice.                 *)
(***************************************************************************)
THEOREM CountersTellTheHistory == Spec => []StreaksMatchHistory
<1>1. Inv /\ Concluding /\ Counting /\ [Next]_vars => Counting'
  BY CountingStep
<1>2. Inv /\ Counting => StreaksMatchHistory
  <2> SUFFICES ASSUME Inv, Counting, pc # "failed" PROVE StreaksMatchHistory
    BY DEF StreaksMatchHistory
  <2> DEFINE n       == Len(log)
             judged  == IF pc = "evaluate" THEN n - 1 ELSE n
             failing == Failing(Brought)
             quiet   == Since(Brought) \ failing
             unproven == Unproven(Brought, judged)
  <2>1. /\ Brought \in Seq(Reports) /\ Len(Brought) = n /\ n \in Nat
        /\ judged \in 0 .. n
    <3>1. pc = "evaluate" => n = pass + 1 /\ pass \in Nat
      BY PassesCapped DEF Inv, TypeOK, Accounting
    <3> QED  BY <3>1, BroughtTyped
  <2>2. /\ failing \in SUBSET (1 .. Len(Brought))
        /\ quiet \in SUBSET (1 .. Len(Brought))
        /\ unproven \in SUBSET (1 .. Len(Brought))
    <3>1. DOMAIN Brought = 1 .. n /\ 1 .. judged \subseteq 1 .. n
      BY <2>1
    <3> QED  BY <2>1, <3>1 DEF Since, Failing, Unproven
  <2>3. /\ acc.counts["blocked"] = Cardinality(failing)
        /\ acc.counts["unproductive"] = Cardinality(quiet)
        /\ acc.counts["unverified"] = Cardinality(unproven)
        /\ acc.counts["established"] = Least(Cardinality(Written(Brought)), MaxU32)
    BY DEF Counting, CountersMatchHistory
  <2> HIDE DEF failing, quiet, unproven, judged, n
  <2>4. n \in 0 .. Len(Brought) /\ judged \in 0 .. Len(Brought)
    BY <2>1
  <2>5. \A kind \in {failing, quiet, unproven} : Cardinality(kind) \in Nat
    BY <2>1, <2>2, PassesCounted, FS_CardinalityType
  <2>6. /\ Cardinality(InARow(failing, n)) <= Cardinality(failing)
        /\ Cardinality(InARow(quiet, n)) <= Cardinality(quiet)
        /\ Cardinality(InARow(unproven, judged)) <= Cardinality(unproven)
    BY <2>1, <2>2, <2>4, InARowCounted
  <2>7. /\ Cardinality(failing) <= Cardinality(failing)
        /\ Cardinality(quiet) <= Cardinality(quiet)
        /\ Cardinality(unproven) <= Cardinality(unproven)
    BY <2>5
  <2> QED  BY <2>3, <2>6, <2>7
           DEF StreaksMatchHistory, failing, quiet, unproven, judged, n
<1> QED  BY <1>1, <1>2, CountingInit, ConcludingInit, ConcludingStep, InvInit,
            InvStep, PTL
         DEF Spec

-----------------------------------------------------------------------------
(***************************************************************************)
(* The board stays fresh.  The cadence is a threshold, and one the shipped *)
(* tuner never moves (CeilingsStand); with it standing, the pass a board   *)
(* was last planned at is a multiple of it, and the next multiple plans.   *)
(***************************************************************************)
Interval == StartThresholds["plan_interval"]

Fresh ==
  /\ pc \in {"plan_first", "research"} => pass = 0
  /\ pc \notin {"plan_first", "failed"} => acc.planned # None
  /\ acc.planned # None /\ Interval # 0 =>
       /\ \E q \in Nat : acc.planned[1] = q * Interval
       /\ pass <= acc.planned[1] + Interval
       /\ pc \in {"attempt", "evaluate", "pass"} => pass < acc.planned[1] + Interval

\* Multiples of the cadence, and only they, come round.
LEMMA ComesRound ==
  ASSUME NEW k \in Nat \ {0}
  PROVE  /\ \A q \in Nat : (q * k) % k = 0
         /\ \A p \in Nat : p % k = 0 => \E q \in Nat : p = q * k
<1>1. \A q \in Nat : (q * k) % k = 0
  OBVIOUS
<1>2. ASSUME NEW p \in Nat, p % k = 0 PROVE p = (p \div k) * k /\ p \div k \in Nat
  BY <1>2
<1> QED  BY <1>1, <1>2

\* The plan step at the head of a pass plans just when the board is due.
LEMMA BeginPassFresh == Inv /\ CeilingsStand /\ Fresh /\ BeginPass => Fresh'
<1> SUFFICES ASSUME Inv, CeilingsStand, Fresh, BeginPass PROVE Fresh'
  OBVIOUS
<1> DEFINE counted == [acc EXCEPT !.counts["passes"] = pass]
<1>1. /\ acc \in Accumulator /\ acc.planned \in Option(Nat) /\ pass \in Nat
      /\ pc = "plan" /\ pc' = "attempt" /\ pass' = pass
      /\ acc.planned # None
  <2>1. acc \in Accumulator /\ pass \in Nat
    BY PassesCapped DEF Inv, TypeOK
  <2>2. pc = "plan" /\ pc' = "attempt" /\ pass' = pass
    BY DEF BeginPass
  <2> QED  BY <2>1, <2>2 DEF Accumulator, Fresh
<1>2. /\ counted.planned = acc.planned /\ counted.profile = acc.profile
      /\ counted \in Accumulator
  <2>1. acc.counts \in [Counter -> U32] /\ pass \in U32
    BY <1>1, PassesCapped, WidthAssumption DEF Inv, TypeOK, Accumulator, U32
  <2> QED  BY <1>1, <2>1 DEF Accumulator, Counter
<1>3. acc' = Planned(counted, pass)
  BY DEF BeginPass
<1> HIDE DEF counted
<1>4. acc'.planned = IF Plans(counted, pass) THEN Some(pass) ELSE acc.planned
  BY <1>2, <1>3 DEF Planned, Accumulator
<1>5. counted.profile.thresholds["plan_interval"] = Interval
      /\ Interval \in Nat
  BY <1>2, DriveLoopAssumption, WidthAssumption
     DEF CeilingsStand, Interval, ThresholdField, Thresholds, U32
<1>6. Plans(counted, pass) <=> pass = 0 \/ (Interval # 0 /\ pass % Interval = 0)
  BY <1>1, <1>5 DEF Plans, PlansOn
<1>7. CASE Plans(counted, pass)
  <2>1. acc'.planned = <<pass>>
    BY <1>4, <1>7 DEF Some
  <2>2. acc'.planned # None /\ acc'.planned[1] = pass
    BY <2>1 DEF None
  <2>3. Interval # 0 => \E q \in Nat : pass = q * Interval
    <3>1. pass = 0 => pass = 0 * Interval
      BY <1>5
    <3> QED  BY <1>1, <1>5, <1>6, <1>7, <3>1, ComesRound
  <2> QED  BY <1>1, <1>5, <2>2, <2>3 DEF Fresh
<1>8. CASE ~Plans(counted, pass)
  <2>1. acc'.planned = acc.planned
    BY <1>4, <1>8
  <2>2. Interval # 0 => pass # acc.planned[1] + Interval
    <3> SUFFICES ASSUME Interval # 0, pass = acc.planned[1] + Interval PROVE FALSE
      OBVIOUS
    <3>1. PICK q \in Nat : acc.planned[1] = q * Interval
      BY <1>1 DEF Fresh
    <3>2. pass = (q + 1) * Interval
      BY <1>5, <3>1
    <3>3. pass % Interval = 0
      <4>1. q + 1 \in Nat
        OBVIOUS
      <4> QED  BY <1>5, <3>2, <4>1, ComesRound
    <3> QED  BY <1>6, <1>8, <3>3
  <2>3. acc.planned[1] \in Nat
    BY <1>1, Options
  <2> QED  BY <1>1, <1>5, <2>1, <2>2, <2>3 DEF Fresh
<1> QED  BY <1>7, <1>8

\* Every other step leaves the board alone, and a pass closes at most one later.
LEMMA OthersFresh == Inv /\ Fresh /\ [Next]_vars /\ ~BeginPass => Fresh'
<1> SUFFICES ASSUME Inv, Fresh, [Next]_vars, ~BeginPass PROVE Fresh'
  OBVIOUS
<1>1. acc \in Accumulator /\ acc.planned \in Option(Nat) /\ pass \in Nat
      /\ Interval \in Nat
  <2>1. acc \in Accumulator /\ pass \in Nat
    BY PassesCapped DEF Inv, TypeOK
  <2>2. Interval \in Nat
    BY DriveLoopAssumption, WidthAssumption
       DEF Interval, Thresholds, ThresholdField, U32
  <2> QED  BY <2>1, <2>2 DEF Accumulator
<1>2. CASE PlanFirst
  <2>1. acc'.planned = <<0>>
    BY <1>1, <1>2 DEF PlanFirst, Planned, Plans, Some, Accumulator
  <2>2. acc'.planned # None /\ acc'.planned[1] = 0
    BY <2>1 DEF None
  <2>3. pc = "plan_first" /\ pc' = "research" /\ pass' = pass
    BY <1>2 DEF PlanFirst
  <2>4. pass = 0 /\ 0 = 0 * Interval
    BY <1>1, <2>3 DEF Fresh
  <2> QED  BY <1>1, <2>2, <2>3, <2>4 DEF Fresh
<1>3. CASE ~PlanFirst
  <2>1. acc'.planned = acc.planned
    <3>1. CASE UNCHANGED vars
      BY <3>1 DEF vars
    <3>2. CASE Research
      BY <1>1, <3>2 DEF Research, Accumulator
    <3>3. CASE \E r \in Reports : Attempt(r)
      BY <1>1, <3>3 DEF Attempt, Attempted, Accumulator
    <3>4. CASE Converge
      BY <1>1, <3>4 DEF Converge, Converged, Accumulator
    <3>5. CASE ClosePass
      <4>1. acc' = Advanced(acc, pass)
        BY <3>5 DEF ClosePass
      <4> QED  BY <1>1, <4>1 DEF Advanced, Accumulator
    <3>6. CASE (\E arm \in Arms : ArmStep(arm)) \/ Report \/ StepFails
      BY <3>6 DEF ArmStep, Report, StepFails
    <3> QED  BY <1>3, <3>1, <3>2, <3>3, <3>4, <3>5, <3>6 DEF Next
  <2>2. acc.planned # None => acc.planned[1] \in Nat
    BY <1>1, Options
  <2>3. CASE ClosePass
    <3>1. pc = "pass" /\ pc' \in {"failed", "report", "plan"} /\ pass' = pass + 1
      BY <2>3 DEF ClosePass
    <3> QED  BY <1>1, <2>1, <2>2, <3>1 DEF Fresh
  <2>4. CASE ~ClosePass
    <3>1. /\ pass' = pass
          /\ pc' \in {"attempt", "evaluate", "pass"} =>
               pc \in {"attempt", "evaluate", "pass"}
          /\ pc' \in {"plan_first", "research"} => pc \in {"plan_first", "research"}
          /\ pc' \notin {"plan_first", "failed"} => pc \notin {"plan_first", "failed"}
      BY <1>3, <2>4 DEF vars, Next, Research, Attempt, ArmStep, Converge, Report,
         StepFails
    <3> QED  BY <1>1, <2>1, <2>2, <3>1 DEF Fresh
  <2> QED  BY <2>3, <2>4
<1> QED  BY <1>2, <1>3

(***************************************************************************)
(* BoardsAreFresh: with the shipped tuner or none, whatever the interval,  *)
(* no attempt works from a board planned a full interval ago or more, and  *)
(* none before the board was planned at all (PlanStaysFresh).              *)
(***************************************************************************)
THEOREM BoardsAreFresh ==
  ASSUME Tuner # "host"
  PROVE  Spec => []PlanStaysFresh
<1>1. Init => Fresh
  <2> SUFFICES ASSUME Init PROVE Fresh
    OBVIOUS
  <2>1. acc.planned = None /\ pass = 0 /\ pc = "plan_first"
    BY DEF Init, StartingAcc
  <2> QED  BY <2>1 DEF Fresh
<1>2. Inv /\ CeilingsStand /\ Fresh /\ [Next]_vars => Fresh'
  BY BeginPassFresh, OthersFresh
<1>3. Inv /\ CeilingsStand /\ Fresh => PlanStaysFresh
  <2> SUFFICES ASSUME Inv, CeilingsStand, Fresh, pc = "attempt" PROVE PlanStaysFresh
    BY DEF PlanStaysFresh
  <2>1. acc.profile.thresholds["plan_interval"] = Interval
    BY DEF CeilingsStand, Interval, ThresholdField
  <2>2. acc.planned # None /\ acc.planned \in Option(Nat) /\ pass \in Nat
        /\ Interval \in Nat
    BY PassesCapped, DriveLoopAssumption, WidthAssumption
       DEF Inv, TypeOK, Accumulator, Fresh, Interval, Thresholds, ThresholdField, U32
  <2>3. acc.planned[1] \in Nat
    BY <2>2, Options
  <2> QED  BY <2>1, <2>2, <2>3 DEF Fresh, PlanStaysFresh
<1>4. Init => CeilingsStand
  BY ToldInit DEF Told
<1> QED  BY <1>1, <1>2, <1>3, <1>4, CeilingsStep, InvInit, InvStep, PTL DEF Spec

-----------------------------------------------------------------------------
(***************************************************************************)
(* The verdict is one the history supports.  A run banks exactly when it   *)
(* concludes, so it never ends a clean no-op; and a ceiling on blocked     *)
(* passes that starts above zero, and that no bound lets be moved to zero, *)
(* is reached only by a streak of passes the machinery failed.             *)
(***************************************************************************)
Banks(a) == a.counts["banked"] = IF a.solved THEN 1 ELSE 0

Banking ==
  /\ Banks(acc)
  /\ pc = "evaluate" => \A arm \in DOMAIN returned : Banks(returned[arm])

\* An arm banks when it concludes.
LEMMA CandidateBanks ==
  ASSUME Inv, Concluding, Banking, pc = "evaluate",
         NEW arm \in Arms, NEW candidate \in Candidates(arm)
  PROVE  Banks(candidate)
<1>1. /\ acc \in Accumulator /\ acc.solved = FALSE /\ acc.counts["banked"] = 0
  BY DEF Inv, TypeOK, Concluding, Judging, Accumulator, Banking, Banks
<1>2. CASE candidate = acc
  BY <1>2 DEF Banking
<1>3. CASE candidate = Reflected(acc)
  <2>1. SatAdd(0, 1) = 1
    BY WidthAssumption DEF SatAdd, Clamped
  <2>2. \/ /\ Reflected(acc).solved = TRUE
           /\ Reflected(acc).counts["banked"] = SatAdd(acc.counts["banked"], 1)
        \/ /\ Reflected(acc).solved = acc.solved
           /\ Reflected(acc).counts["banked"] = acc.counts["banked"]
    BY <1>1 DEF Reflected, Accumulator, Counter
  <2> QED  BY <1>1, <1>3, <2>1, <2>2 DEF Banks
<1>4. CASE candidate = Judged(acc)
  <2>1. Judged(acc).counts = acc.counts /\ Judged(acc).solved = acc.solved
    BY <1>1 DEF Judged, Accumulator
  <2> QED  BY <1>1, <1>4, <2>1 DEF Banks
<1>5. ASSUME NEW p \in Choices(acc), candidate = [acc EXCEPT !.proposed = p]
      PROVE  Banks(candidate)
  BY <1>1, <1>5 DEF Accumulator, Banks
<1> QED  BY <1>2, <1>3, <1>4, <1>5 DEF Candidates, Arms

\* The barrier banks when it concludes.
LEMMA ConvergedBanks ==
  ASSUME Inv, Concluding, Banking, pc = "evaluate", DOMAIN returned = Arms
  PROVE  Banks(Converged)
<1>1. /\ acc \in Accumulator /\ acc.counts["banked"] = 0
      /\ \A arm \in Arms : /\ returned[arm].solved = (arm = "reflect" /\ EarnedNow)
                           /\ Banks(returned[arm])
  BY DEF Inv, TypeOK, Concluding, Judging, Accumulator, Banking, Banks
<1> DEFINE one == IF EarnedNow THEN 1 ELSE 0
<1>2. /\ Movement("banked", "reflect") = one
      /\ Movement("banked", "judge") = 0
      /\ Movement("banked", "tune") = 0
  <2>0. EarnedNow \in BOOLEAN
    BY DEF EarnedNow
  <2>1. /\ Banks(returned["reflect"])
        /\ returned["reflect"].solved = EarnedNow
    BY <1>1, <2>0 DEF Arms
  <2>2. /\ Banks(returned["judge"])
        /\ returned["judge"].solved = FALSE
    BY <1>1 DEF Arms
  <2>3. "tune" \in Arms => Banks(returned["tune"]) /\ returned["tune"].solved = FALSE
    BY <1>1
  <2>4. /\ returned["reflect"].counts["banked"] = one
        /\ returned["judge"].counts["banked"] = 0
        /\ "tune" \in Arms => returned["tune"].counts["banked"] = 0
    BY <2>1, <2>2, <2>3 DEF Banks
  <2>5. one \in 0 .. 1
    OBVIOUS
  <2>6. /\ "reflect" \in Arms /\ "judge" \in Arms
    BY DEF Arms
  <2> HIDE DEF one
  <2> QED  BY <1>1, <2>4, <2>5, <2>6 DEF Movement
<1>3. Converged.counts["banked"]
        = Clamped(acc.counts["banked"] + Movement("banked", "reflect")
            + Movement("banked", "judge") + Movement("banked", "tune"), MaxU32)
  BY <1>1 DEF Converged, Counter, Accumulator
<1>4. Converged.counts["banked"] = one
  <2>1. one \in 0 .. 1
    OBVIOUS
  <2> HIDE DEF one
  <2> QED  BY <1>1, <1>2, <1>3, <2>1, WidthAssumption DEF Clamped
<1> QED  BY <1>4, ConvergedConcludes DEF Banks

\* Every step banks what it concludes.
LEMMA BankingStep == Inv /\ Concluding /\ Banking /\ [Next]_vars => Banking'
<1> SUFFICES ASSUME Inv, Concluding, Banking, [Next]_vars PROVE Banking'
  OBVIOUS
<1>1. acc \in Accumulator /\ acc.counts \in [Counter -> U32]
  BY DEF Inv, TypeOK, Accumulator
<1>2. CASE UNCHANGED vars
  BY <1>2 DEF vars, Banking, Banks
<1>3. ASSUME NEW arm \in Arms, ArmStep(arm) PROVE Banking'
  <2>1. PICK candidate \in Candidates(arm) :
          returned' = [a \in DOMAIN returned \cup {arm} |->
                         IF a = arm THEN candidate ELSE returned[a]]
    BY <1>3 DEF ArmStep
  <2>2. pc = "evaluate" /\ acc' = acc
    BY <1>3 DEF ArmStep
  <2>3. Banks(candidate)
    BY <2>2, CandidateBanks
  <2>4. \A a \in DOMAIN returned' : Banks(returned'[a])
    BY <2>1, <2>2, <2>3 DEF Banking
  <2> QED  BY <2>2, <2>4 DEF Banking, Banks
<1>4. CASE Converge
  <2>1. /\ pc = "evaluate" /\ pc' = "pass" /\ acc' = Converged
        /\ DOMAIN returned = Arms
    BY <1>4 DEF Converge
  <2>2. Banks(acc')
    BY <2>1, ConvergedBanks
  <2> QED  BY <2>1, <2>2 DEF Banking, Banks
<1>5. ASSUME \/ PlanFirst \/ Research \/ BeginPass
             \/ \E r \in Reports : Attempt(r)
             \/ ClosePass \/ Report \/ StepFails
      PROVE  Banking'
  <2>1. /\ acc'.counts["banked"] = acc.counts["banked"]
        /\ acc'.solved = acc.solved
    <3>1. CASE PlanFirst
      BY <1>1, <3>1 DEF PlanFirst, Planned, Accumulator
    <3>2. CASE Research
      BY <1>1, <3>2 DEF Research, Accumulator
    <3>3. CASE BeginPass
      BY <1>1, <3>3 DEF BeginPass, Planned, Accumulator, Counter
    <3>4. CASE \E r \in Reports : Attempt(r)
      <4>1. PICK r \in Reports : acc' = Attempted(acc, r)
        BY <3>4 DEF Attempt
      <4>2. acc'.counts["banked"] = acc.counts["banked"]
        BY <1>1, <4>1 DEF Attempted, Accumulator, Counter
      <4>3. acc'.solved = acc.solved
        BY <1>1, <4>1 DEF Attempted, Accumulator
      <4> QED  BY <4>2, <4>3
    <3>5. CASE ClosePass
      <4>1. acc' = Advanced(acc, pass)
        BY <3>5 DEF ClosePass
      <4>2. acc'.counts["banked"] = acc.counts["banked"]
        BY <1>1, <4>1 DEF Advanced, Accumulator, Counter
      <4>3. acc'.solved = acc.solved
        BY <1>1, <4>1 DEF Advanced, Accumulator
      <4> QED  BY <4>2, <4>3
    <3>6. CASE Report \/ StepFails
      BY <3>6 DEF Report, StepFails
    <3> QED  BY <1>5, <3>1, <3>2, <3>3, <3>4, <3>5, <3>6
  <2>2. pc' = "evaluate" => returned' = << >>
    <3>1. pc' = "evaluate" => pc = "attempt" /\ returned' = returned
      BY <1>5 DEF PlanFirst, Research, BeginPass, Attempt, ClosePass, Report,
         StepFails
    <3> QED  BY <3>1 DEF Inv, InStep
  <2> QED  BY <2>1, <2>2 DEF Banking, Banks
<1> QED  BY <1>2, <1>3, <1>4, <1>5 DEF Next

\* A ceiling that may not be moved to zero is never at zero.
LEMMA CeilingStaysUp ==
  ASSUME Bounds.thresholds["blocked"].low # 0
  PROVE  Inv /\ acc.profile.thresholds["blocked"] # 0 /\ [Next]_vars
           => acc'.profile.thresholds["blocked"] # 0
<1> SUFFICES ASSUME Inv, acc.profile.thresholds["blocked"] # 0, [Next]_vars
             PROVE  acc'.profile.thresholds["blocked"] # 0
  OBVIOUS
<1>1. CASE ~ClosePass
  BY <1>1, ProfileStands
<1>2. CASE ClosePass
  <2>1. /\ acc \in Accumulator /\ acc.proposed \in Option(Change)
        /\ acc.profile \in ProfileType /\ acc' = Advanced(acc, pass)
    BY <1>2 DEF Inv, TypeOK, Accumulator, ClosePass
  <2>2. acc'.profile = IF acc.proposed = None THEN acc.profile
                       ELSE Fold(acc.profile, acc.proposed[1], Bounds)
    BY <2>1 DEF Advanced, Accumulator
  <2>3. CASE acc.proposed = None
    BY <2>2, <2>3
  <2>4. CASE acc.proposed # None
    <3>1. acc.proposed[1] \in Change
      BY <2>1, <2>4, Options
    <3>2. PICK change, q, r, ok :
               /\ change = acc.proposed[1]
               /\ q = Fold(acc.profile, change, Bounds)
               /\ r = ApplyChange(acc.profile, change)
               /\ ok = Acceptable(acc.profile, change, Bounds)
               /\ Recording(acc.profile, change, ok, r, q)
               /\ Moving(acc.profile, change, r)
      BY <2>1, <3>1, FoldByCases, ChangeByCases
    <3>3. \/ q.thresholds = acc.profile.thresholds
          \/ ok /\ q.thresholds = r.thresholds
      BY <3>2 DEF Recording, Acceptable
    <3>4. ok /\ change.kind = "threshold" =>
            change.to # 0 \/ change.field # "blocked"
      <4> SUFFICES ASSUME ok, change.kind = "threshold", change.field = "blocked"
                   PROVE  change.to # 0
        OBVIOUS
      <4>1. Bounds.thresholds["blocked"].low <= change.to
        BY <3>2 DEF Acceptable, Permits, Holds
      <4>2. Bounds.thresholds["blocked"].low \in Nat
        BY DriveLoopAssumption, WidthAssumption
           DEF BoundsType, RangeType, ThresholdField, U64
      <4> QED  BY <4>1, <4>2
    <3>5. acc.profile.thresholds \in [ThresholdField -> U32]
      BY <2>1 DEF ProfileType, Thresholds
    <3>6. ok => r.thresholds["blocked"] # 0
      BY <3>2, <3>4, <3>5 DEF Moving, ThresholdField
    <3> QED  BY <2>2, <2>4, <3>2, <3>3, <3>6
  <2> QED  BY <2>3, <2>4
<1> QED  BY <1>1, <1>2

\* A streak of blocked passes reaches up to the last one.
LEMMA StreakReachesTheLast ==
  ASSUME Inv, Counting, pc # "failed", log # << >>, acc.counts["blocked"] # 0
  PROVE  ~Informative(Last(log).report)
<1>1. /\ Brought \in Seq(Reports) /\ Len(Brought) = Len(log) /\ Len(log) \in Nat
      /\ \A i \in 1 .. Len(log) : Brought[i] = log[i].report
  BY BroughtTyped
<1>2. Cardinality(Failing(Brought)) # 0
  BY DEF Counting, CountersMatchHistory
<1>3. PICK i \in Since(Brought) : TRUE
  <2>1. Failing(Brought) # {}
    BY <1>2, FS_EmptySet
  <2> QED  BY <2>1 DEF Failing
<1>4. i \in 1 .. Len(log) /\ Len(log) \in i .. Len(Brought)
  BY <1>1, <1>3 DEF Since
<1>5. ~Informative(Brought[Len(log)])
  BY <1>3, <1>4 DEF Since
<1> QED  BY <1>1, <1>4, <1>5 DEF Last

\* The report's verdict.
LEMMA ReportHonest ==
  ASSUME Inv, Concluding, Fit, Counting, Banking,
         acc.profile.thresholds["blocked"] # 0, Report
  PROVE  VerdictHonest'
<1> DEFINE classified == Classify(acc)
<1>1. /\ pc = "report" /\ pc' = "done"
      /\ UNCHANGED <<acc, log, bound>>
      /\ outcome' =
           IF bound \notin GracefulBound \cup {NoBound} THEN "exhausted"
           ELSE IF bound # NoBound /\ classified = "stalled" THEN "exhausted"
           ELSE classified
  BY DEF Report
<1>2. /\ acc \in Accumulator /\ acc.solved \in BOOLEAN /\ acc.expired = FALSE
      /\ acc.profile.thresholds["blocked"] \in U32
      /\ acc.counts["blocked"] \in U32
  BY DEF Inv, TypeOK, Accumulator, ProfileType, Thresholds, ThresholdField, Counter
<1>3. acc.counts["attempts"] = Len(log) /\ log # << >>
  <2>1. acc.counts["attempts"] = pass /\ Len(log) = pass /\ pass > 0
    BY <1>1 DEF Inv, Accounting, Fit, Reporting
  <2> QED  BY <2>1
<1>4. acc.solved = EarnedNow
  BY <1>1 DEF Concluding
<1>5. acc.solved => acc.counts["banked"] = 1
  BY DEF Banking, Banks
<1>6. /\ classified = "blocked" => acc.counts["blocked"] # 0
      /\ classified = "exhausted" =>
           Len(log) >= acc.profile.thresholds["max_attempts"]
      /\ classified = "stalled" => ~acc.solved
      /\ classified = "success" => acc.solved
      /\ classified \in {"blocked", "exhausted", "stalled", "success"}
  BY <1>2, <1>3, <1>5, WidthAssumption DEF Classify, U32
<1>7. acc.counts["blocked"] # 0 => ~Informative(Last(log).report)
  BY <1>1, <1>3, StreakReachesTheLast
<1> HIDE DEF classified
<1>8. /\ outcome' = "success" => classified = "success"
      /\ outcome' = "blocked" => classified = "blocked"
      /\ outcome' = "exhausted" => bound # NoBound \/ classified = "exhausted"
      /\ outcome' = "stalled" => classified = "stalled" /\ bound = NoBound
      /\ outcome' \in {"blocked", "exhausted", "stalled", "success"}
  BY <1>1, <1>6
<1>9. Last(log)' = Last(log)
  BY <1>1 DEF Last
<1> QED  BY <1>1, <1>4, <1>6, <1>7, <1>8, <1>9 DEF VerdictHonest, EarnedNow

(***************************************************************************)
(* VerdictsAreHonest: whatever a host's tuner proposes, provided the       *)
(* ceiling on blocked passes cannot be zero, a run that is done says what  *)
(* its history supports (VerdictHonest): success on an earned claim,       *)
(* blocked on a last pass that brought nothing, exhausted at a bound or    *)
(* out of attempts, stalled short of every bound, and nothing else.        *)
(***************************************************************************)
THEOREM VerdictsAreHonest ==
  ASSUME StartThresholds["blocked"] # 0, Bounds.thresholds["blocked"].low # 0
  PROVE  Spec => []VerdictHonest
<1> DEFINE Up == acc.profile.thresholds["blocked"] # 0
<1>1. Init => Banking /\ Up /\ VerdictHonest
  <2> SUFFICES ASSUME Init PROVE Banking /\ Up /\ VerdictHonest
    OBVIOUS
  <2>1. /\ acc.counts["banked"] = 0 /\ acc.solved = FALSE /\ pc = "plan_first"
        /\ acc.profile.thresholds = StartThresholds
    BY DEF Init, StartingAcc, StartingProfile, Counter
  <2> QED  BY <2>1 DEF Banking, Banks, VerdictHonest
<1>2. Inv /\ Up /\ [Next]_vars => Up'
  BY CeilingStaysUp
<1>3. /\ Inv /\ Concluding /\ Fit /\ Counting /\ Banking /\ Up
      /\ VerdictHonest /\ [Next]_vars
      => VerdictHonest'
  <2> SUFFICES ASSUME Inv, Concluding, Fit, Counting, Banking, Up, VerdictHonest,
                      [Next]_vars
               PROVE  VerdictHonest'
    OBVIOUS
  <2>1. CASE Report
    BY <2>1, ReportHonest
  <2>2. CASE UNCHANGED vars
    BY <2>2 DEF vars, VerdictHonest, Last
  <2>3. CASE Next /\ ~Report
    <3>1. pc' # "done"
      BY <2>3 DEF Next, PlanFirst, Research, BeginPass, Attempt, ArmStep, Converge,
         ClosePass, StepFails
    <3> QED  BY <3>1 DEF VerdictHonest
  <2> QED  BY <2>1, <2>2, <2>3
<1> HIDE DEF Up
<1> QED  BY <1>1, <1>2, <1>3, BankingStep, CountingInit, CountingStep, FitInit,
            FitStep, ConcludingInit, ConcludingStep, InvInit, InvStep, PTL
         DEF Spec
-----------------------------------------------------------------------------
(***************************************************************************)
(* The shipped tuner asks for a cap or a threshold once: it remembers that *)
(* it asked, whatever the answer.  A mute it remembers only as muted, so   *)
(* one refused it asks for again, and one granted never.  Where the bounds *)
(* grant the mute, naming the judge and allowing one amendment more than   *)
(* the other questions can use up, as every shipped preset's do, nothing   *)
(* is asked twice at all.                                                  *)
(***************************************************************************)
Open(range) == range.low <= range.high

Contested == {c \in {"max_model_calls"} : Open(Bounds.caps[c])}
               \cup {f \in {"stuck"} : Open(Bounds.thresholds[f])}

MuteGranted ==
  /\ "judge" \in Bounds.mutable_arms
  /\ Cardinality(Contested) < Bounds.max_amendments

Question(change) ==
  \/ change.kind = "cap" /\ change.field = "max_model_calls"
  \/ change.kind = "threshold" /\ change.field = "stuck"
  \/ change.kind = "mute" /\ change.field = "judge" /\ Bounds.muting_window # 0

\* Only a mute that was refused is asked for when it was before.
Refusal(entry) == entry.change.kind = "mute" /\ ~entry.applied

Unasked(p) ==
  p # None => /\ Question(p[1])
              /\ \A i \in 1 .. Len(acc.profile.history) :
                   acc.profile.history[i].change.field = p[1].field =>
                     p[1].kind = "mute" /\ Refusal(acc.profile.history[i])

Remembered(profile) ==
  LET history == profile.history
  IN  /\ \A i \in 1 .. Len(history) :
           /\ Question(history[i].change)
           /\ history[i].applied => Permits(Bounds, history[i].change)
           /\ history[i].change.kind = "mute" =>
                IF history[i].applied THEN "judge" \in profile.muted ELSE ~MuteGranted
      /\ \A i, j \in 1 .. Len(history) :
           i < j /\ history[i].change.field = history[j].change.field =>
             Refusal(history[i])

Asking ==
  /\ Remembered(acc.profile)
  /\ Unasked(acc.proposed)
  /\ pc = "evaluate" => \A arm \in DOMAIN returned : Unasked(returned[arm].proposed)

\* What the rules propose is a question not asked before.
LEMMA RulesAskAfresh ==
  ASSUME acc \in Accumulator, Remembered(acc.profile)
  PROVE  Unasked(RulesChange(acc))
<1> DEFINE p == RulesChange(acc)
           history == acc.profile.history
<1>0. acc.profile.muted \in SUBSET ArmName /\ history \in Seq(Recorded)
      /\ DOMAIN history = 1 .. Len(history) /\ Bounds.muting_window \in Nat
  BY DriveLoopAssumption, WidthAssumption
     DEF Accumulator, ProfileType, BoundsType, U32
<1>1. \/ p = None
      \/ /\ p = Some([kind |-> "cap", field |-> "max_model_calls", to |-> p[1].to])
         /\ ~AskedFor(acc, "cap", "max_model_calls")
      \/ /\ p = Some([kind |-> "threshold", field |-> "stuck", to |-> p[1].to])
         /\ ~AskedFor(acc, "threshold", "stuck")
      \/ /\ p = Some([kind |-> "mute", field |-> "judge", to |-> p[1].to])
         /\ Bounds.muting_window # 0 /\ "judge" \notin acc.profile.muted
  BY <1>0 DEF RulesChange, Flat, Some
<1> HIDE DEF p
<1>2. CASE p = None
  BY <1>2 DEF Unasked, p
<1>3. CASE /\ p = Some([kind |-> "cap", field |-> "max_model_calls", to |-> p[1].to])
           /\ ~AskedFor(acc, "cap", "max_model_calls")
  <2>1. p[1].kind = "cap" /\ p[1].field = "max_model_calls"
    BY <1>3 DEF Some
  <2>2. \A i \in 1 .. Len(history) : history[i].change.field # "max_model_calls"
    BY <1>0, <1>3 DEF AskedFor, Remembered, Question
  <2> QED  BY <2>1, <2>2 DEF Unasked, Question, p
<1>4. CASE /\ p = Some([kind |-> "threshold", field |-> "stuck", to |-> p[1].to])
           /\ ~AskedFor(acc, "threshold", "stuck")
  <2>1. p[1].kind = "threshold" /\ p[1].field = "stuck"
    BY <1>4 DEF Some
  <2>2. \A i \in 1 .. Len(history) : history[i].change.field # "stuck"
    BY <1>0, <1>4 DEF AskedFor, Remembered, Question
  <2> QED  BY <2>1, <2>2 DEF Unasked, Question, p
<1>5. CASE /\ p = Some([kind |-> "mute", field |-> "judge", to |-> p[1].to])
           /\ Bounds.muting_window # 0 /\ "judge" \notin acc.profile.muted
  <2>1. p[1].kind = "mute" /\ p[1].field = "judge"
    BY <1>5 DEF Some
  <2>2. \A i \in 1 .. Len(history) :
          history[i].change.field = "judge" => Refusal(history[i])
    BY <1>5 DEF Remembered, Question, Refusal
  <2> QED  BY <1>5, <2>1, <2>2 DEF Unasked, Question, p
<1> QED  BY <1>1, <1>2, <1>3, <1>4, <1>5

\* No arm but the tuner proposes.
LEMMA CandidatesUnasked ==
  ASSUME Tuner # "host", acc \in Accumulator, Remembered(acc.profile),
         Unasked(acc.proposed), NEW arm \in Arms, NEW candidate \in Candidates(arm)
  PROVE  Unasked(candidate.proposed)
<1>1. CASE candidate = acc
  BY <1>1
<1>2. CASE candidate = Reflected(acc)
  <2>1. Reflected(acc).proposed = acc.proposed
    BY DEF Reflected, Accumulator
  <2> QED  BY <1>2, <2>1
<1>3. CASE candidate = Judged(acc)
  <2>1. Judged(acc).proposed = acc.proposed
    BY DEF Judged, Accumulator
  <2> QED  BY <1>3, <2>1
<1>4. ASSUME NEW p \in Choices(acc), candidate = [acc EXCEPT !.proposed = p]
      PROVE  Unasked(candidate.proposed)
  <2>1. p = RulesChange(acc) /\ candidate.proposed = p
    BY <1>4 DEF Choices, Accumulator
  <2> QED  BY <2>1, RulesAskAfresh
<1> QED  BY <1>1, <1>2, <1>3, <1>4 DEF Candidates, Arms

\* The barrier keeps one of the proposals it is handed.
LEMMA ConvergedUnasked ==
  ASSUME acc \in Accumulator, Unasked(acc.proposed),
         \A arm \in Arms : Unasked(returned[arm].proposed)
  PROVE  Unasked(Converged.proposed)
<1> DEFINE S == {x \in {acc.proposed} \cup {returned[arm].proposed : arm \in Arms} :
                   Unasked(x)}
<1>1. Owned("proposed") \in S
  <2>1. acc["proposed"] \in S /\ \A arm \in Arms : returned[arm]["proposed"] \in S
    OBVIOUS
  <2> HIDE DEF S
  <2> QED  BY <2>1, OwnedFrom
<1>2. Converged.proposed = Owned("proposed")
  BY DEF Converged, Accumulator
<1> QED  BY <1>1, <1>2

\* There are at most two such questions.
LEMMA ContestedFinite == IsFiniteSet(Contested) /\ Cardinality(Contested) \in Nat
<1>1. IsFiniteSet({"stuck"})
  BY FS_Singleton
<1>2. IsFiniteSet({"stuck"} \cup {"max_model_calls"})
  BY <1>1, FS_AddElement
<1>3. Contested \subseteq {"stuck"} \cup {"max_model_calls"}
  BY DEF Contested
<1> QED  BY <1>2, <1>3, FS_Subset, FS_CardinalityType

\* No more is applied before a mute is asked for than the other questions.
LEMMA RoomForTheMute ==
  ASSUME NEW p \in ProfileType, Remembered(p),
         \A i \in 1 .. Len(p.history) :
           p.history[i].applied => p.history[i].change.field # "judge"
  PROVE  Applied(p) \in Nat /\ Applied(p) <= Cardinality(Contested)
<1> DEFINE at == AppliedAt(p.history)
           asked == [i \in at |-> p.history[i].change.field]
<1>1. /\ p.history \in Seq(Recorded) /\ Len(p.history) \in Nat
      /\ DOMAIN p.history = 1 .. Len(p.history)
      /\ \A i \in 1 .. Len(p.history) : p.history[i] \in Recorded
  BY DEF ProfileType
<1>2. at \subseteq 1 .. Len(p.history)
  BY <1>1 DEF AppliedAt
<1>3. ASSUME NEW i \in at PROVE p.history[i].change.field \in Contested
  <2>1. /\ i \in 1 .. Len(p.history) /\ p.history[i].applied
        /\ p.history[i].change \in Change
    BY <1>1, <1>2 DEF AppliedAt, Recorded
  <2>2. /\ Permits(Bounds, p.history[i].change)
        /\ Question(p.history[i].change)
        /\ p.history[i].change.field # "judge"
    BY <2>1 DEF Remembered
  <2>3. CASE p.history[i].change.kind = "cap"
                /\ p.history[i].change.field = "max_model_calls"
    <3>1. Holds(Bounds.caps["max_model_calls"], p.history[i].change.to)
      BY <2>2, <2>3 DEF Permits
    <3>2. /\ p.history[i].change.to \in Nat
          /\ Bounds.caps["max_model_calls"].low \in Nat
          /\ Bounds.caps["max_model_calls"].high \in Nat
      BY <2>1, <2>3, DriveLoopAssumption, WidthAssumption
         DEF Change, BoundsType, RangeType, CapField, U64
    <3>3. Open(Bounds.caps["max_model_calls"])
      BY <3>1, <3>2 DEF Holds, Open
    <3> QED  BY <2>3, <3>3 DEF Contested
  <2>4. CASE p.history[i].change.kind = "threshold"
                /\ p.history[i].change.field = "stuck"
    <3>1. Holds(Bounds.thresholds["stuck"], p.history[i].change.to)
      BY <2>2, <2>4 DEF Permits
    <3>2. /\ p.history[i].change.to \in Nat
          /\ Bounds.thresholds["stuck"].low \in Nat
          /\ Bounds.thresholds["stuck"].high \in Nat
      <4>1. p.history[i].change.to \in Nat
        BY <2>1, <2>4, WidthAssumption DEF Change, U32, U64
      <4>2. Bounds.thresholds["stuck"] \in RangeType
        BY DriveLoopAssumption DEF BoundsType, ThresholdField
      <4> QED  BY <4>1, <4>2, WidthAssumption DEF RangeType, U64
    <3>3. Open(Bounds.thresholds["stuck"])
      BY <3>1, <3>2 DEF Holds, Open
    <3> QED  BY <2>4, <3>3 DEF Contested
  <2> QED  BY <2>2, <2>3, <2>4 DEF Question
<1>4. asked \in Injection(at, Contested)
  <2>1. asked \in [at -> Contested]
    BY <1>3
  <2>2. ASSUME NEW i \in at, NEW j \in at, asked[i] = asked[j] PROVE i = j
    <3>1. /\ i \in 1 .. Len(p.history) /\ j \in 1 .. Len(p.history)
          /\ p.history[i].applied /\ p.history[j].applied
          /\ p.history[i].change.field = p.history[j].change.field
      BY <1>1, <1>2, <2>2 DEF AppliedAt
    <3>2. ~(i < j) /\ ~(j < i)
      BY <3>1 DEF Remembered, Refusal
    <3> QED  BY <3>1, <3>2
  <2> HIDE DEF at, asked
  <2> QED  BY <2>1, <2>2 DEF Injection, IsInjective
<1>5. Cardinality(at) <= Cardinality(Contested) /\ IsFiniteSet(at)
  <2> HIDE DEF at, asked
  <2> QED  BY <1>4, ContestedFinite, FS_Injection
<1> QED  BY <1>5, FS_CardinalityType DEF Applied

\* Folding a question leaves only refused mutes asked before it.
LEMMA FoldRemembers ==
  ASSUME acc.profile \in ProfileType, Remembered(acc.profile),
         NEW change \in Change, Unasked(Some(change))
  PROVE  Remembered(Fold(acc.profile, change, Bounds))
<1> DEFINE p == acc.profile
<1>1. PICK q, r, ok : /\ q = Fold(p, change, Bounds)
                      /\ r = ApplyChange(p, change)
                      /\ ok = Acceptable(p, change, Bounds)
                      /\ Recording(p, change, ok, r, q)
                      /\ Moving(p, change, r)
  BY FoldByCases, ChangeByCases
<1> DEFINE len == Len(p.history)
           history == q.history
<1>2. /\ len \in Nat /\ p.history \in Seq(Recorded)
      /\ history = Append(p.history, [change |-> change, applied |-> ok])
  BY <1>1 DEF ProfileType, Recording
<1>3. /\ Len(history) = len + 1
      /\ \A i \in 1 .. len : history[i] = p.history[i]
      /\ history[len + 1].change = change
      /\ history[len + 1].applied = ok
  BY <1>2
<1>4. /\ Question(change)
      /\ \A i \in 1 .. len : p.history[i].change.field = change.field =>
           change.kind = "mute" /\ Refusal(p.history[i])
  BY DEF Unasked, Some, None
<1>5. q.muted = p.muted \/ (change.kind = "mute" /\ q.muted = p.muted \cup {change.field})
  <2>1. change.kind # "unmute"
    BY <1>4 DEF Question
  <2>2. change.kind = "mute" => r.muted = p.muted \cup {change.field}
    BY <1>1 DEF ApplyChange, ProfileType
  <2>3. change.kind \in {"threshold", "cap"} => r.muted = p.muted
    BY <1>1 DEF Moving
  <2>4. q.muted = p.muted \/ q.muted = r.muted
    BY <1>1 DEF Recording, Acceptable
  <2> QED  BY <1>1, <2>1, <2>2, <2>3, <2>4 DEF Moving
<1>6. change.kind = "mute" => IF ok THEN "judge" \in q.muted ELSE ~MuteGranted
  <2> SUFFICES ASSUME change.kind = "mute"
               PROVE  IF ok THEN "judge" \in q.muted ELSE ~MuteGranted
    OBVIOUS
  <2>1. change.field = "judge"
    BY <1>4 DEF Question
  <2>2. CASE ok
    <3>1. q.muted = r.muted /\ r.muted = p.muted \cup {"judge"}
      BY <1>1, <2>1, <2>2 DEF Recording, ApplyChange, ProfileType
    <3> QED  BY <2>2, <3>1
  <2>3. CASE MuteGranted
    <3>1. \A i \in 1 .. len : p.history[i].applied => p.history[i].change.field # "judge"
      BY <1>4, <2>1 DEF Refusal
    <3>2. Applied(p) \in Nat /\ Applied(p) <= Cardinality(Contested)
      BY <3>1, RoomForTheMute
    <3>3. Bounds.max_amendments \in Nat /\ Cardinality(Contested) < Bounds.max_amendments
      BY <2>3, DriveLoopAssumption, WidthAssumption DEF MuteGranted, BoundsType, U32
    <3>4. Cardinality(Contested) \in Nat
      BY ContestedFinite
    <3>5. ok
      BY <1>1, <2>1, <2>3, <3>2, <3>3, <3>4
         DEF Acceptable, Permits, BreaksBudget, MuteGranted
    <3> QED  BY <2>2, <3>5
  <2> QED  BY <2>2, <2>3
<1>7. ok => Permits(Bounds, change)
  BY <1>1 DEF Acceptable
<1> HIDE DEF history
<1>8. ASSUME NEW i \in 1 .. len + 1
      PROVE  /\ Question(history[i].change)
             /\ history[i].applied => Permits(Bounds, history[i].change)
             /\ history[i].change.kind = "mute" =>
                  IF history[i].applied THEN "judge" \in q.muted ELSE ~MuteGranted
  <2>1. CASE i = len + 1
    BY <1>3, <1>4, <1>6, <1>7, <2>1
  <2>2. CASE i \in 1 .. len
    BY <1>3, <1>5, <2>2 DEF Remembered
  <2> QED  BY <1>2, <2>1, <2>2
<1>9. ASSUME NEW i \in 1 .. len + 1, NEW j \in 1 .. len + 1, i < j,
             history[i].change.field = history[j].change.field
      PROVE  Refusal(history[i])
  <2>1. CASE j \in 1 .. len
    <3>1. i \in 1 .. len
      BY <1>2, <1>9, <2>1
    <3> QED  BY <1>3, <1>9, <2>1, <3>1 DEF Remembered
  <2>2. CASE j = len + 1
    <3>1. i \in 1 .. len
      BY <1>2, <1>9, <2>2
    <3> QED  BY <1>3, <1>4, <1>9, <2>2, <3>1
  <2>3. j \in 1 .. len \/ j = len + 1
    <3>1. len \in Nat
      BY <1>2
    <3> HIDE DEF len
    <3> QED  BY <3>1
  <2> QED  BY <2>1, <2>2, <2>3
<1> QED  BY <1>1, <1>3, <1>8, <1>9 DEF Remembered, history

\* Every step keeps the questions apart.
LEMMA AskingStep ==
  ASSUME Tuner # "host"
  PROVE  Inv /\ Asking /\ [Next]_vars => Asking'
<1> SUFFICES ASSUME Inv, Asking, [Next]_vars PROVE Asking'
  OBVIOUS
<1>0. /\ acc \in Accumulator /\ acc.profile \in ProfileType
      /\ acc.proposed \in Option(Change)
  BY DEF Inv, TypeOK, Accumulator
<1>1. CASE UNCHANGED vars
  BY <1>1 DEF vars, Asking, Unasked
<1>2. CASE PlanFirst \/ Research \/ BeginPass \/ \E r \in Reports : Attempt(r)
  <2>1. acc'.proposed = acc.proposed
    <3>1. CASE PlanFirst
      BY <1>0, <3>1 DEF PlanFirst, Planned, Accumulator
    <3>2. CASE Research
      BY <1>0, <3>2 DEF Research, Accumulator
    <3>3. CASE BeginPass
      BY <1>0, <3>3 DEF BeginPass, Planned, Accumulator
    <3>4. CASE \E r \in Reports : Attempt(r)
      BY <1>0, <3>4 DEF Attempt, Attempted, Accumulator
    <3> QED  BY <1>2, <3>1, <3>2, <3>3, <3>4
  <2>2. acc'.profile = acc.profile
    BY <1>2, ProfileStands DEF PlanFirst, Research, BeginPass, Attempt, ClosePass
  <2>3. returned' = returned /\ returned = << >>
    BY <1>2 DEF PlanFirst, Research, BeginPass, Attempt, Inv, InStep
  <2> QED  BY <2>1, <2>2, <2>3 DEF Asking, Unasked
<1>3. ASSUME NEW arm \in Arms, ArmStep(arm) PROVE Asking'
  <2>1. PICK candidate \in Candidates(arm) :
          returned' = [a \in DOMAIN returned \cup {arm} |->
                         IF a = arm THEN candidate ELSE returned[a]]
    BY <1>3 DEF ArmStep
  <2>2. pc = "evaluate" /\ acc' = acc
    BY <1>3 DEF ArmStep
  <2>3. \A a \in DOMAIN returned : Unasked(returned[a].proposed)
    BY <2>2 DEF Asking
  <2>4. Unasked(candidate.proposed)
    BY <1>0, CandidatesUnasked DEF Asking
  <2>5. \A a \in DOMAIN returned' : Unasked(returned'[a].proposed)
    BY <2>1, <2>3, <2>4
  <2> QED  BY <2>2, <2>5 DEF Asking, Unasked
<1>4. CASE Converge
  <2>1. /\ pc = "evaluate" /\ pc' = "pass" /\ acc' = Converged
        /\ DOMAIN returned = Arms
    BY <1>4 DEF Converge
  <2>2. Unasked(acc'.proposed)
    BY <1>0, <2>1, ConvergedUnasked DEF Asking
  <2>3. acc'.profile = acc.profile
    BY <1>0, <2>1 DEF Converged, Accumulator
  <2> QED  BY <2>1, <2>2, <2>3 DEF Asking, Unasked
<1>5. CASE ClosePass
  <2>1. acc' = Advanced(acc, pass) /\ pc' # "evaluate"
    BY <1>5 DEF ClosePass
  <2>2. /\ acc'.proposed = None
        /\ acc'.profile = IF acc.proposed = None THEN acc.profile
                          ELSE Fold(acc.profile, acc.proposed[1], Bounds)
    BY <1>0, <2>1 DEF Advanced, Accumulator
  <2>3. Remembered(acc'.profile)
    <3>1. CASE acc.proposed = None
      BY <2>2, <3>1 DEF Asking
    <3>2. CASE acc.proposed # None
      <4>1. acc.proposed[1] \in Change /\ Unasked(Some(acc.proposed[1]))
        BY <1>0, <3>2, Options DEF Asking, Unasked, Some
      <4> QED  BY <1>0, <2>2, <3>2, <4>1, FoldRemembers DEF Asking
    <3> QED  BY <3>1, <3>2
  <2> QED  BY <2>1, <2>2, <2>3 DEF Asking, Unasked
<1>6. CASE Report \/ StepFails
  <2>1. acc' = acc /\ pc' # "evaluate"
    BY <1>6 DEF Report, StepFails
  <2> QED  BY <2>1 DEF Asking, Unasked
<1> QED  BY <1>1, <1>2, <1>3, <1>4, <1>5, <1>6 DEF Next

\* A run starts with nothing asked.
LEMMA AskingInit == Init => Asking
<1> SUFFICES ASSUME Init PROVE Asking
  OBVIOUS
<1>1. acc.profile.history = << >> /\ acc.proposed = None /\ pc = "plan_first"
  BY DEF Init, StartingAcc, StartingProfile
<1> QED  BY <1>1 DEF Asking, Remembered, Unasked

(***************************************************************************)
(* NothingAskedTwice: with the shipped tuner, or none, and whatever the    *)
(* bounds answer, no cap and no threshold is the subject of two proposals  *)
(* of a run, and no mute is asked for that was granted (RulesAskOnce).     *)
(***************************************************************************)
THEOREM NothingAskedTwice ==
  ASSUME Tuner # "host"
  PROVE  Spec => []RulesAskOnce
<1>1. Inv /\ Asking => RulesAskOnce
  <2> SUFFICES ASSUME Inv, Asking PROVE RulesAskOnce
    OBVIOUS
  <2>1. DOMAIN acc.profile.history = 1 .. Len(acc.profile.history)
    BY DEF Inv, TypeOK, Accumulator, ProfileType
  <2> QED  BY <2>1 DEF Asking, Remembered, Refusal, RulesAskOnce
<1> QED  BY <1>1, AskingInit, AskingStep, InvInit, InvStep, PTL DEF Spec

(***************************************************************************)
(* NothingRefusedIsReasked: under bounds that grant the mute the tuner may *)
(* come to ask for, as the shipped presets' do, no field at all is the     *)
(* subject of two proposals (presets/tuner.rs:92-95).  Run ClaimAsked is   *)
(* of bounds that do not.                                                  *)
(***************************************************************************)
THEOREM NothingRefusedIsReasked ==
  ASSUME Tuner # "host", Bounds.muting_window # 0 => MuteGranted
  PROVE  Spec => [](\A i, j \in DOMAIN acc.profile.history :
                      acc.profile.history[i].change.field
                        = acc.profile.history[j].change.field => i = j)
<1> DEFINE history == acc.profile.history
           Once == \A i, j \in DOMAIN history :
                     history[i].change.field = history[j].change.field => i = j
<1>1. Inv /\ Asking => Once
  <2> SUFFICES ASSUME Inv, Asking, NEW i \in DOMAIN history, NEW j \in DOMAIN history,
                      history[i].change.field = history[j].change.field
               PROVE  i = j
    OBVIOUS
  <2>1. DOMAIN history = 1 .. Len(history)
    BY DEF Inv, TypeOK, Accumulator, ProfileType
  <2>2. \A k \in 1 .. Len(history) : ~Refusal(history[k])
    BY DEF Asking, Remembered, Refusal, Question
  <2>3. ~(i < j) /\ ~(j < i)
    BY <2>1, <2>2 DEF Asking, Remembered
  <2> QED  BY <2>1, <2>3
<1> QED  BY <1>1, AskingInit, AskingStep, InvInit, InvStep, PTL DEF Spec

-----------------------------------------------------------------------------
(***************************************************************************)
(* The barrier of a run's own arms, taken as the general one.              *)
(***************************************************************************)
\* Between passes nothing is proposed, and what an arm returned is what it may.
Handed ==
  /\ pc \notin {"pass", "failed"} => acc.proposed = None
  /\ pc = "evaluate" =>
       \A arm \in DOMAIN returned : returned[arm] \in Candidates(arm)

\* An arm hands in a candidate of its own, and a pass closes what it proposed.
LEMMA HandedStep == Inv /\ Handed /\ [Next]_vars => Handed'
<1> SUFFICES ASSUME Inv, Handed, [Next]_vars PROVE Handed'
  OBVIOUS
<1>1. CASE PlanFirst \/ Research \/ BeginPass
  BY <1>1 DEF PlanFirst, Research, BeginPass, Planned, Handed, Inv, TypeOK, Accumulator
<1>2. ASSUME NEW r \in Reports, Attempt(r) PROVE Handed'
  <2>1. acc'.proposed = acc.proposed /\ returned' = << >> /\ pc = "attempt"
    BY <1>2 DEF Attempt, Attempted, Inv, TypeOK, Accumulator, InStep
  <2> QED  BY <2>1 DEF Handed
<1>3. ASSUME NEW arm \in Arms, ArmStep(arm) PROVE Handed'
  <2>1. pc = "evaluate" /\ pc' = pc /\ acc' = acc
    BY <1>3 DEF ArmStep
  <2>2. \A a : Candidates(a)' = Candidates(a)
    BY <2>1 DEF Candidates, Choices, RulesChange, AskedFor, Flat, Reflected, Judged
  <2>3. \A a \in DOMAIN returned' : returned'[a] \in Candidates(a)
    BY <1>3, <2>1 DEF ArmStep, Handed
  <2> QED  BY <2>1, <2>2, <2>3 DEF Handed
<1>4. CASE Converge
  BY <1>4 DEF Converge, Handed
<1>5. CASE ClosePass
  <2>1. acc'.proposed = None /\ pc' # "evaluate"
    BY <1>5 DEF ClosePass, Advanced, Inv, TypeOK, Accumulator
  <2> QED  BY <2>1 DEF Handed
<1>6. CASE Report \/ StepFails
  BY <1>6 DEF Report, StepFails, Handed
<1>7. CASE UNCHANGED vars
  <2>1. pc' = pc /\ acc' = acc /\ returned' = returned
    BY <1>7 DEF vars
  <2>2. \A a : Candidates(a)' = Candidates(a)
    BY <2>1 DEF Candidates, Choices, RulesChange, AskedFor, Flat, Reflected, Judged
  <2> QED  BY <2>1, <2>2 DEF Handed
<1> QED  BY <1>1, <1>2, <1>3, <1>4, <1>5, <1>6, <1>7 DEF Next

\* A run starts with nothing proposed.
LEMMA HandedInit == Init => Handed
<1>1. StartingAcc.proposed = None
  BY DEF StartingAcc
<1> QED  BY <1>1 DEF Init, Handed

\* The fields an arm may move, counters aside; `c` is the accumulator but for
\* those given.
Voiced == {"solved", "expired", "last", "lessons", "steer", "scores", "judged",
           "proposed"}

Besides(c, fields) == \A f \in Voiced \ fields : c[f] = acc[f]

\* What each arm may have moved.
ByReflect(c) ==
  /\ Besides(c, {"solved", "lessons"})
  /\ c.lessons = acc.lessons \/ \E l \in Seq(Line) : c.lessons = Append(acc.lessons, l)
  /\ c.solved = acc.solved \/ c.solved = TRUE

ByJudge(c) ==
  /\ Besides(c, {"steer", "scores", "judged"})
  /\ c.scores = acc.scores \/ \E n \in Nat : c.scores = Append(acc.scores, n)

ByTuner(c) == Besides(c, {"proposed"})

\* The reviewer latches a win and draws at most one lesson.
LEMMA ReflectMoves ==
  ASSUME acc \in Accumulator, NEW c \in {acc, Reflected(acc)} PROVE ByReflect(c)
<1>1. CASE c = acc
  BY <1>1 DEF ByReflect, Besides, Voiced
<1>2. CASE c = Reflected(acc)
  <2> DEFINE Learned(b, line) == [b EXCEPT !.lessons = Append(@, <<line>>)]
             won  == [acc EXCEPT !.solved = TRUE, !.counts["banked"] = SatAdd(@, 1)]
             lost == [acc EXCEPT !.counts["unverified"] = SatAdd(@, 1)]
  <2>1. Reflected(acc) \in {acc, Learned(acc, "unreadable"), Learned(won, "solved"),
                           Learned(lost, "confabulated"), Learned(acc, "no_artifact")}
    BY DEF Reflected
  <2>2. ASSUME NEW b \in {acc, won, lost}, NEW line \in Line
        PROVE  ByReflect(Learned(b, line))
    <3>1. Besides(b, {"solved"}) /\ Voiced \subseteq DOMAIN b
      BY DEF Besides, Voiced, Accumulator
    <3>2. b.solved = acc.solved \/ b.solved = TRUE
      BY DEF Accumulator
    <3>3. <<line>> \in Seq(Line)
      OBVIOUS
    <3> HIDE DEF won, lost
    <3>4. Learned(b, line).lessons = Append(acc.lessons, <<line>>)
      BY <3>1 DEF Besides, Voiced
    <3>5. Learned(b, line).solved = b.solved
      OBVIOUS
    <3>6. Besides(Learned(b, line), {"solved", "lessons"})
      BY <3>1 DEF Besides, Voiced
    <3> HIDE DEF Learned
    <3> QED  BY <3>2, <3>3, <3>4, <3>5, <3>6 DEF ByReflect
  <2> HIDE DEF Learned, won, lost
  <2>3. ByReflect(acc)
    BY DEF ByReflect, Besides, Voiced
  <2> QED  BY <1>2, <2>1, <2>2, <2>3 DEF Line
<1> QED  BY <1>1, <1>2

\* The judge moves its verdict and its steer, and scores at most once.
LEMMA JudgeMoves ==
  ASSUME acc \in Accumulator, NEW c \in {acc, Judged(acc)} PROVE ByJudge(c)
<1>1. CASE c = acc
  BY <1>1 DEF ByJudge, Besides
<1>2. CASE c = Judged(acc)
  <2>1. Judged(acc) \in Accumulator
    BY JudgedTyped
  <2> DEFINE score == Least(Answered(acc.last[1]) + Artifacts(acc.last[1]), 10)
             n == IF acc.last = None THEN 0 ELSE score
  <2>2. n \in Nat
    <3>1. acc.last # None => acc.last[1] \in Reports
      BY Options DEF Accumulator
    <3> QED  BY <3>1, ReportCounts DEF Least
  <2>3. Judged(acc).scores = Append(acc.scores, n)
    BY DEF Judged, Accumulator
  <2>4. Besides(Judged(acc), {"steer", "scores", "judged"})
    BY DEF Judged, Accumulator, Besides, Voiced
  <2> HIDE DEF n
  <2> QED  BY <1>2, <2>2, <2>3, <2>4 DEF ByJudge
<1> QED  BY <1>1, <1>2

\* What an arm returned moved its own fields only.
LEMMA CandidatesMove ==
  ASSUME acc \in Accumulator, NEW c
  PROVE  /\ c \in Candidates("reflect") => ByReflect(c)
         /\ c \in Candidates("judge") => ByJudge(c)
         /\ c \in Candidates("tune") => ByTuner(c)
<1>1. Candidates("reflect") \subseteq {acc, Reflected(acc)}
  BY DEF Candidates
<1>2. Candidates("judge") \subseteq {acc, Judged(acc)}
  BY DEF Candidates
<1>3. \A p : ByTuner([acc EXCEPT !.proposed = p])
  BY DEF ByTuner, Besides, Voiced, Accumulator
<1>4. ByTuner(acc)
  BY DEF ByTuner, Besides
<1> QED  BY <1>1, <1>2, <1>3, <1>4, ReflectMoves, JudgeMoves DEF Candidates

-----------------------------------------------------------------------------
\* What the barrier reads of an arm's candidate.
ClaimOf(arm) == General!ClaimedFrom(acc, returned[arm])

DeltaOf(arm) == General!DeltaFrom(returned[arm], acc)

\* The barrier's reading of `c`, field by field.
ReadOff(w, c) ==
  /\ w["lesson"] = IF Len(c.lessons) > Len(acc.lessons)
                     THEN <<General!FlattenSeq(SubSeq(c.lessons,
                              Len(acc.lessons) + 1, Len(c.lessons)))>>
                     ELSE << >>
  /\ w["score"] = IF Len(c.scores) > Len(acc.scores)
                    THEN <<c.scores[Len(acc.scores) + 1]>> ELSE << >>
  /\ w["steer"] = IF c.steer # acc.steer THEN <<c.steer>> ELSE << >>
  /\ w["judged"] = IF c.judged # acc.judged THEN <<c.judged>> ELSE << >>
  /\ w["last_attempt"] = IF c.last # acc.last THEN <<c.last>> ELSE << >>
  /\ w["amendment"] = IF c.proposed = acc.proposed THEN << >> ELSE c.proposed

\* The general barrier reads an arm's claims off its candidate.
LEMMA ReadsOff == ASSUME NEW c PROVE ReadOff(General!ClaimedFrom(acc, c), c)
  BY DEF General!ClaimedFrom, General!None, General!Some, ReadOff

\* One lesson of an arm is claimed as it was drawn.
LEMMA OneFlattens == ASSUME NEW x PROVE General!FlattenSeq(<<x>>) = x
<1> DEFINE s == <<x>>
           f == [i \in 1 .. 1 |-> x]
           Unrolled(g) == g = [i \in 1 .. Len(s) |->
                             IF i = 1 THEN s[i] ELSE g[i - 1] \o s[i]]
<1>1. Unrolled(f)
  OBVIOUS
<1>2. \A g : Unrolled(g) => g[1] = x
  OBVIOUS
<1>3. General!FlattenSeq(s) = (CHOOSE g : Unrolled(g))[1]
  BY DEF General!FlattenSeq
<1> HIDE DEF Unrolled, f, s
<1>4. Unrolled(CHOOSE g : Unrolled(g))
  BY <1>1
<1>5. General!FlattenSeq(s) = x
  BY <1>2, <1>3, <1>4
<1> QED  BY <1>5 DEF s

\* The arms each claim and each vote can come from.
Owner(f) == IF f = "lesson" THEN "reflect"
            ELSE IF f = "amendment" THEN "tune" ELSE "judge"

\* The arms of a pass, gathered at its barrier.
Gathering ==
  /\ acc \in Accumulator /\ acc.proposed = None
  /\ \A arm \in Arms : returned[arm] \in Accumulator
  /\ ByReflect(returned["reflect"]) /\ ByJudge(returned["judge"])
  /\ "tune" \in Arms => ByTuner(returned["tune"])

\* Only a lesson is claimed by the reviewer, the one it drew.
LEMMA ReflectClaims ==
  ASSUME Gathering
  PROVE  /\ \A f \in General!NarrativeField \ {"lesson"} : ClaimOf("reflect")[f] = << >>
         /\ acc.lessons \o ClaimOf("reflect")["lesson"] = returned["reflect"].lessons
<1> DEFINE c == returned["reflect"]
<1>1. ReadOff(ClaimOf("reflect"), c)
  BY ReadsOff DEF ClaimOf
<1>2. Besides(c, {"solved", "lessons"}) /\ acc.lessons \in Seq(Seq(Line))
  BY DEF Gathering, ByReflect, Accumulator
<1>3. c.lessons = acc.lessons \/ \E l \in Seq(Line) : c.lessons = Append(acc.lessons, l)
  BY DEF Gathering, ByReflect
<1> HIDE DEF c
<1>4. ASSUME c.lessons = acc.lessons
      PROVE  acc.lessons \o ClaimOf("reflect")["lesson"] = c.lessons
  <2>1. ClaimOf("reflect")["lesson"] = << >>
    BY <1>1, <1>2, <1>4, LenProperties DEF ReadOff
  <2>2. acc.lessons \o << >> = acc.lessons
    BY <1>2, ConcatEmptySeq
  <2> QED  BY <1>4, <2>1, <2>2
<1>5. ASSUME NEW l \in Seq(Line), c.lessons = Append(acc.lessons, l)
      PROVE  acc.lessons \o ClaimOf("reflect")["lesson"] = c.lessons
  <2> DEFINE S == Seq(Line)
             m == Len(acc.lessons) + 1
             s == acc.lessons
             d == c.lessons
  <2>4. l \in S /\ s \in Seq(S) /\ d = Append(s, l)
    BY <1>2, <1>5
  <2> HIDE DEF S, s, d
  <2>1. d = s \o <<l>> /\ Len(d) = Len(s) + 1 /\ SubSeq(d, Len(s) + 1, Len(s) + 1) = <<l>>
    <3>1. s \o <<l>> = Append(s, l)
      BY <2>4, Grown
    <3>2. Len(s \o <<l>>) = Len(s) + 1
      BY <2>4, Grown
    <3>3. SubSeq(s \o <<l>>, Len(s) + 1, Len(s) + 1) = <<l>>
      BY <2>4, Grown
    <3> QED  BY <2>4, <3>1, <3>2, <3>3
  <2>2. Len(acc.lessons) \in Nat
    BY <1>2, LenProperties
  <2>5. Len(c.lessons) = m /\ SubSeq(c.lessons, m, m) = <<l>> /\ m > Len(acc.lessons)
    BY <2>1, <2>2 DEF s, d
  <2>6. ClaimOf("reflect")["lesson"]
          = IF Len(c.lessons) > Len(acc.lessons)
              THEN <<General!FlattenSeq(SubSeq(c.lessons, m, Len(c.lessons)))>>
              ELSE << >>
    BY <1>1 DEF ReadOff
  <2> HIDE DEF m
  <2>3. ClaimOf("reflect")["lesson"] = <<General!FlattenSeq(<<l>>)>>
    BY <2>5, <2>6
  <2>7. ClaimOf("reflect")["lesson"] = <<l>>
    BY <2>3, OneFlattens
  <2> QED  BY <2>1, <2>7 DEF s, d
<1>6. \A f \in General!NarrativeField \ {"lesson"} : ClaimOf("reflect")[f] = << >>
  BY <1>1, <1>2 DEF ReadOff, Besides, Voiced, General!NarrativeField
<1> QED  BY <1>3, <1>4, <1>5, <1>6 DEF c

\* The judge claims a score, its steer and its verdict, and nothing else.
LEMMA JudgeClaims ==
  ASSUME Gathering
  PROVE  /\ \A f \in {"lesson", "last_attempt", "amendment"} : ClaimOf("judge")[f] = << >>
         /\ acc.scores \o ClaimOf("judge")["score"] = returned["judge"].scores
         /\ \A f \in {"steer", "judged"} :
              ClaimOf("judge")[f] = IF returned["judge"][f] = acc[f] THEN << >>
                                    ELSE <<returned["judge"][f]>>
<1> DEFINE c == returned["judge"]
<1>1. ReadOff(ClaimOf("judge"), c)
  BY ReadsOff DEF ClaimOf
<1>2. /\ Besides(c, {"steer", "scores", "judged"}) /\ acc.scores \in Seq(Nat)
      /\ Len(acc.scores) \in Nat /\ Len(acc.lessons) \in Nat
  BY LenProperties DEF Gathering, ByJudge, Accumulator
<1>3. c.scores = acc.scores \/ \E n \in Nat : c.scores = Append(acc.scores, n)
  BY DEF Gathering, ByJudge
<1> HIDE DEF c
<1>4. ASSUME c.scores = acc.scores
      PROVE  acc.scores \o ClaimOf("judge")["score"] = c.scores
  <2>1. ClaimOf("judge")["score"] = << >>
    BY <1>1, <1>2, <1>4 DEF ReadOff
  <2>2. acc.scores \o << >> = acc.scores
    BY <1>2, ConcatEmptySeq
  <2> QED  BY <1>4, <2>1, <2>2
<1>5. ASSUME NEW n \in Nat, c.scores = Append(acc.scores, n)
      PROVE  acc.scores \o ClaimOf("judge")["score"] = c.scores
  <2>1. /\ c.scores = acc.scores \o <<n>>
        /\ Len(c.scores) = Len(acc.scores) + 1
        /\ c.scores[Len(acc.scores) + 1] = n
    BY <1>2, <1>5, Grown
  <2>2. ClaimOf("judge")["score"] = <<n>>
    BY <1>1, <1>2, <2>1 DEF ReadOff
  <2> QED  BY <2>1, <2>2
<1>6. \A f \in {"lesson", "last_attempt", "amendment"} : ClaimOf("judge")[f] = << >>
  BY <1>1, <1>2 DEF ReadOff, Besides, Voiced
<1>7. \A f \in {"steer", "judged"} :
        ClaimOf("judge")[f] = IF c[f] = acc[f] THEN << >> ELSE <<c[f]>>
  BY <1>1 DEF ReadOff
<1> QED  BY <1>3, <1>4, <1>5, <1>6, <1>7 DEF c

\* The tuner claims its proposal alone.
LEMMA TunerClaims ==
  ASSUME Gathering, "tune" \in Arms
  PROVE  /\ \A f \in General!NarrativeField \ {"amendment"} : ClaimOf("tune")[f] = << >>
         /\ ClaimOf("tune")["amendment"] = returned["tune"].proposed
<1> DEFINE c == returned["tune"]
<1>1. ReadOff(ClaimOf("tune"), c)
  BY ReadsOff DEF ClaimOf
<1>2. /\ Besides(c, {"proposed"}) /\ acc.proposed = << >>
      /\ Len(acc.scores) \in Nat /\ Len(acc.lessons) \in Nat
  BY LenProperties DEF Gathering, ByTuner, Accumulator, None
<1> HIDE DEF c
<1>3. \A f \in General!NarrativeField \ {"amendment"} : ClaimOf("tune")[f] = << >>
  BY <1>1, <1>2 DEF ReadOff, Besides, Voiced, General!NarrativeField
<1>4. ClaimOf("tune")["amendment"] = c.proposed
  BY <1>1, <1>2 DEF ReadOff
<1> QED  BY <1>3, <1>4 DEF c

-----------------------------------------------------------------------------
(* The order the barrier takes a run's own arms in.                        *)

Count == IF "tune" \in Arms THEN 3 ELSE 2

At(k) == CASE k = 1 -> "judge" [] k = 2 -> "reflect" [] OTHER -> "tune"

\* The fold's module counts as this one does.
LEMMA GeneralCardinality == \A S : General!Cardinality(S) = Cardinality(S)
  BY DEF Cardinality, General!Cardinality

\* A rank for each of the run's arms, and an arm for each rank.
LEMMA Ranks ==
  /\ Count \in Nat
  /\ \A arm \in Arms : Rank(arm) \in 1 .. Count /\ At(Rank(arm)) = arm
  /\ \A k \in 1 .. Count : At(k) \in Arms /\ Rank(At(k)) = k
  /\ Cardinality(Arms) = Count
<1>1. Count \in Nat
  BY DEF Count
<1>2. \A arm \in Arms : Rank(arm) \in 1 .. Count /\ At(Rank(arm)) = arm
  BY DEF Arms, Rank, At, Count
<1>3. \A k \in 1 .. Count : At(k) \in Arms /\ Rank(At(k)) = k
  BY DEF Arms, Rank, At, Count
<1> DEFINE g == [k \in 1 .. Count |-> At(k)]
<1>4. g \in Bijection(1 .. Count, Arms)
  BY <1>2, <1>3 DEF Bijection, Injection, Surjection, IsInjective
<1>5. IsFiniteSet(1 .. Count) /\ Cardinality(1 .. Count) = Count
  BY <1>1, FS_Interval
<1>6. Cardinality(Arms) = Count
  <2> HIDE DEF g
  <2> QED  BY <1>4, <1>5, FS_Bijection DEF ExistsBijection
<1> QED  BY <1>1, <1>2, <1>3, <1>6

\* Whatever order they finished in, they are taken by name.
LEMMA TakenByName ==
  ASSUME NEW order \in General!SetToSeqs(Arms)
  PROVE  /\ DOMAIN General!Sorted(ArrivalOf(order)) = 1 .. Count
         /\ \A k \in 1 .. Count :
              General!Sorted(ArrivalOf(order))[k]
                = [arm |-> k, candidate |-> returned[At(k)]]
<1> DEFINE n == Count
           r == [i \in 1 .. n |-> Rank(order[i])]
           arrival == ArrivalOf(order)
<1>1. /\ order \in [1 .. n -> Arms]
      /\ \A i, j \in 1 .. n : i # j => order[i] # order[j]
  BY Ranks, GeneralCardinality DEF General!SetToSeqs
<1>2. r \in Injection(1 .. n, 1 .. n)
  <2>1. \A i \in 1 .. n : r[i] \in 1 .. n /\ At(r[i]) = order[i]
    BY <1>1, Ranks
  <2>2. r = [i \in 1 .. n |-> r[i]]
    OBVIOUS
  <2> HIDE DEF r, n
  <2> QED  BY <1>1, <2>1, <2>2 DEF Injection, IsInjective
<1>3. n \in Nat /\ IsFiniteSet(1 .. n) /\ Cardinality(1 .. n) = n
  <2>1. n \in Nat
    BY Ranks
  <2> HIDE DEF n
  <2> QED  BY <2>1, FS_Interval
<1>4. r \in Surjection(1 .. n, 1 .. n)
  <2> HIDE DEF r, n
  <2> QED  BY <1>2, <1>3, FS_Injection
<1>5. /\ DOMAIN arrival = 1 .. n
      /\ \A i \in 1 .. n :
           arrival[i] = [arm |-> r[i], candidate |-> returned[order[i]]]
  BY <1>1 DEF ArrivalOf
<1>6. ASSUME NEW i \in 1 .. n PROVE General!Place(arrival, i) = r[i]
  <2> DEFINE L == {j \in 1 .. n : r[j] <= r[i]}
             q == [j \in L |-> r[j]]
  <2>1. /\ r \in [1 .. n -> 1 .. n] /\ r[i] \in 1 .. n
        /\ \A j, k \in 1 .. n : r[j] = r[k] => j = k
        /\ \A k \in 1 .. n : \E j \in 1 .. n : r[j] = k
    <3> HIDE DEF r, n
    <3> QED  BY <1>2, <1>4 DEF Injection, Surjection, IsInjective
  <2> HIDE DEF r, n
  <2>2. General!Place(arrival, i) = Cardinality(L)
    <3>1. ASSUME NEW j \in 1 .. n
          PROVE  (r[j] < r[i] \/ (r[j] = r[i] /\ j <= i)) <=> r[j] <= r[i]
      <4>1. r[j] = r[i] => j = i
        BY <2>1
      <4>2. r[j] \in Int /\ r[i] \in Int /\ i \in Int
        BY <1>3, <2>1
      <4> QED  BY <4>1, <4>2
    <3>2. {j \in DOMAIN arrival : \/ arrival[j].arm < arrival[i].arm
                                  \/ arrival[j].arm = arrival[i].arm /\ j <= i} = L
      BY <1>5, <3>1
    <3> QED  BY <3>2, GeneralCardinality DEF General!Place
  <2>3. q \in Bijection(L, 1 .. r[i])
    <3>3. /\ \A j \in 1 .. n : r[j] \in 1 .. n
          /\ 1 .. n \subseteq Nat /\ r[i] \in 1 .. n
      BY <1>3, <2>1
    <3>4. \A j \in L : j \in 1 .. n /\ r[j] \in 1 .. r[i] /\ q[j] = r[j]
      BY <3>3
    <3>1. q \in [L -> 1 .. r[i]] /\ \A j, k \in L : q[j] = q[k] => j = k
      BY <2>1, <3>4
    <3>2. ASSUME NEW k \in 1 .. r[i] PROVE \E j \in L : q[j] = k
      <4>1. k \in 1 .. n
        BY <1>3, <3>3
      <4>2. PICK j \in 1 .. n : r[j] = k
        BY <2>1, <4>1
      <4>3. j \in L
        BY <4>2
      <4> QED  BY <3>4, <4>2, <4>3
    <3> HIDE DEF q, L
    <3> QED  BY <3>1, <3>2 DEF Bijection, Injection, Surjection, IsInjective
  <2>4. IsFiniteSet(L)
    BY <1>3, FS_Subset
  <2>5. Cardinality(1 .. r[i]) = r[i]
    <3> DEFINE m == r[i]
    <3>1. m \in Nat
      BY <1>3, <2>1
    <3> HIDE DEF m
    <3>2. Cardinality(1 .. m) = m
      BY <3>1, FS_Interval
    <3> QED  BY <3>2 DEF m
  <2>6. Cardinality(1 .. r[i]) = Cardinality(L)
    <3> HIDE DEF q, L
    <3> QED  BY <2>3, <2>4, FS_Bijection DEF ExistsBijection
  <2> QED  BY <2>2, <2>5, <2>6
<1>7. ASSUME NEW k \in 1 .. n
      PROVE  General!Sorted(arrival)[k] = [arm |-> k, candidate |-> returned[At(k)]]
  <2> DEFINE i == CHOOSE i \in DOMAIN arrival : General!Place(arrival, i) = k
  <2>1. \E j \in 1 .. n : r[j] = k
    <3> HIDE DEF r, n
    <3> QED  BY <1>4 DEF Surjection
  <2>2. i \in 1 .. n /\ r[i] = k
    <3> HIDE DEF r, n, arrival
    <3> QED  BY <1>5, <1>6, <2>1
  <2>3. At(r[i]) = order[i]
    BY <1>1, <2>2, Ranks
  <2>4. General!Sorted(arrival)[k] = arrival[i]
    BY <1>5 DEF General!Sorted
  <2> HIDE DEF i, r, n, arrival
  <2> QED  BY <1>5, <2>2, <2>3, <2>4
<1>8. DOMAIN General!Sorted(arrival) = 1 .. n
  BY <1>5 DEF General!Sorted
<1> QED  BY <1>7, <1>8

-----------------------------------------------------------------------------
(* What the general fold makes of them.                                    *)

DeltasByName == [k \in 1 .. Count |-> DeltaOf(At(k))]

ClaimsByName == [k \in 1 .. Count |-> ClaimOf(At(k))]

\* The merge, over the candidates by name.
LEMMA MergeByName ==
  ASSUME NEW order \in General!SetToSeqs(Arms),
         General!Contesting(ClaimsByName) = {}
  PROVE  /\ General!Merge(acc, ArrivalOf(order)).ok
         /\ General!Merge(acc, ArrivalOf(order)).state
              = General!Claim(General!Apply(acc, DeltasByName),
                              General!Pooled(ClaimsByName))
<1> DEFINE outcomes == General!Sorted(ArrivalOf(order))
           deltas == [i \in DOMAIN outcomes |->
                        General!DeltaFrom(outcomes[i].candidate, acc)]
           claims == [i \in DOMAIN outcomes |->
                        General!ClaimedFrom(acc, outcomes[i].candidate)]
<1>0. /\ DOMAIN outcomes = 1 .. Count
      /\ \A k \in 1 .. Count :
           outcomes[k] = [arm |-> k, candidate |-> returned[At(k)]]
  BY TakenByName
<1>1. \A k \in 1 .. Count : outcomes[k].candidate = returned[At(k)]
  <2> HIDE DEF outcomes
  <2> QED  BY <1>0
<1>2. General!Merge(acc, ArrivalOf(order))
        = IF General!Contesting(claims) # {}
            THEN [ok |-> FALSE, state |-> acc,
                  also |-> outcomes[General!Min(General!Contesting(claims))].arm]
            ELSE [ok |-> TRUE, also |-> 0,
                  state |-> General!Claim(General!Apply(acc, deltas),
                                          General!Pooled(claims))]
  BY DEF General!Merge
<1> HIDE DEF outcomes
<1>3. deltas = DeltasByName
  BY <1>0, <1>1 DEF DeltasByName, DeltaOf
<1>4. claims = ClaimsByName
  BY <1>0, <1>1 DEF ClaimsByName, ClaimOf
<1> HIDE DEF deltas, claims
<1> QED  BY <1>2, <1>3, <1>4

\* A field is claimed by its owner alone.
LEMMA OwnersClaim ==
  ASSUME Gathering, NEW k \in 1 .. Count, NEW f \in General!NarrativeField,
         At(k) # Owner(f)
  PROVE  ClaimsByName[k][f] = << >>
<1>1. At(k) \in Arms /\ ClaimsByName[k] = ClaimOf(At(k))
  BY Ranks DEF ClaimsByName
<1>2. CASE At(k) = "reflect"
  BY <1>1, <1>2, ReflectClaims DEF Owner
<1>3. CASE At(k) = "judge"
  <2>1. f \in {"lesson", "amendment"}
    BY <1>3 DEF Owner
  <2> QED  BY <1>1, <1>3, <2>1, JudgeClaims
<1>4. CASE At(k) = "tune"
  BY <1>1, <1>4, TunerClaims DEF Owner
<1> QED  BY <1>2, <1>3, <1>4 DEF At

\* So no two arms contest a field.
LEMMA NoneContested == Gathering => General!Contesting(ClaimsByName) = {}
<1> SUFFICES ASSUME Gathering,
                    NEW i \in 1 .. Count, NEW j \in 1 .. i - 1,
                    NEW f \in General!NarrativeField,
                    ClaimsByName[i][f] # << >>, ClaimsByName[j][f] # << >>
             PROVE  FALSE
  BY DEF General!Contesting, General!None, ClaimsByName
<1>1. Count \in Nat /\ j \in 1 .. Count /\ i # j
  BY Ranks
<1>2. At(i) = Owner(f) /\ At(j) = Owner(f)
  BY <1>1, OwnersClaim
<1> QED  BY <1>1, <1>2, Ranks

\* So its claim is the one pooled.
LEMMA PooledByOwner ==
  ASSUME Gathering, NEW f \in General!NarrativeField
  PROVE  General!Pooled(ClaimsByName)[f]
           = IF Owner(f) \in Arms THEN ClaimOf(Owner(f))[f] ELSE << >>
<1> DEFINE held == {ClaimsByName[i][f] : i \in DOMAIN ClaimsByName} \ {<< >>}
           x == ClaimOf(Owner(f))[f]
<1>1. General!Pooled(ClaimsByName)[f]
        = IF held = {} THEN << >> ELSE CHOOSE claim \in held : TRUE
  BY DEF General!Pooled, General!None
<1>2. DOMAIN ClaimsByName = 1 .. Count
  BY DEF ClaimsByName
<1>3. CASE Owner(f) \in Arms
  <2>1. PICK k \in 1 .. Count : At(k) = Owner(f)
    BY <1>3, Ranks
  <2>2. ClaimsByName[k][f] = x
    BY <2>1 DEF ClaimsByName
  <2>3. \A i \in 1 .. Count : i # k => ClaimsByName[i][f] = << >>
    BY <2>1, OwnersClaim, Ranks
  <2> HIDE DEF x
  <2>4. held = {x} \ {<< >>}
    BY <1>2, <2>2, <2>3
  <2>5. CASE x = << >>
    BY <1>1, <1>3, <2>4, <2>5 DEF x
  <2>6. CASE x # << >>
    <3>1. held = {x}
      BY <2>4, <2>6
    <3> HIDE DEF held
    <3>2. General!Pooled(ClaimsByName)[f] = x
      BY <1>1, <3>1
    <3> QED  BY <1>3, <3>2 DEF x
  <2> QED  BY <2>5, <2>6
<1>4. CASE Owner(f) \notin Arms
  <2>1. \A i \in 1 .. Count : ClaimsByName[i][f] = << >>
    BY <1>4, OwnersClaim, Ranks
  <2>2. held = {}
    BY <1>2, <2>1
  <2> QED  BY <1>1, <1>4, <2>2
<1> QED  BY <1>3, <1>4

\* The movements are summed.
LEMMA TotalByName ==
  ASSUME Gathering, NEW c \in Counter
  PROVE  General!Total(DeltasByName, c)
           = Movement(c, "reflect") + Movement(c, "judge") + Movement(c, "tune")
<1> DEFINE m(k) == Movement(c, At(k))
           d == DeltasByName
<1>1. /\ \A k \in 1 .. Count : m(k) \in Int
      /\ "tune" \notin Arms => Movement(c, "tune") = 0
  <2>1. \A arm \in Arms : returned[arm].counts[c] \in Int /\ acc.counts[c] \in Int
    <3> TAKE arm \in Arms
    <3>1. returned[arm].counts \in [Counter -> U32] /\ acc.counts \in [Counter -> U32]
      BY DEF Gathering, Accumulator
    <3> QED  BY <3>1, WidthAssumption DEF U32
  <2> QED  BY <2>1, Ranks DEF Movement
<1>2. \A k \in 1 .. Count : d[k].counts[c] = m(k)
  <2> TAKE k \in 1 .. Count
  <2>1. At(k) \in Arms
    BY Ranks
  <2> QED  BY <2>1 DEF DeltasByName, DeltaOf, General!DeltaFrom, General!Counter,
                       Counter, Movement
<1>3. Len(d) = Count
  BY Ranks DEF DeltasByName
<1> DEFINE Sum(f) == f = [n \in 0 .. Len(d) |->
                            IF n = 0 THEN 0 ELSE f[n - 1] + d[n].counts[c]]
           f2 == [n \in 0 .. 2 |-> CASE n = 0 -> 0 [] n = 1 -> m(1)
                                     [] OTHER -> m(1) + m(2)]
           f3 == [n \in 0 .. 3 |-> CASE n = 0 -> 0 [] n = 1 -> m(1)
                                     [] n = 2 -> m(1) + m(2)
                                     [] OTHER -> m(1) + m(2) + m(3)]
<1>4. General!Total(d, c) = (CHOOSE f : Sum(f))[Len(d)]
  BY DEF General!Total
<1>5. m(1) = Movement(c, "judge") /\ m(2) = Movement(c, "reflect")
      /\ m(3) = Movement(c, "tune")
  BY DEF At
<1> HIDE DEF m, d
<1>6. CASE Count = 2
  <2>1. m(1) \in Int /\ m(2) \in Int /\ d[1].counts[c] = m(1) /\ d[2].counts[c] = m(2)
    BY <1>1, <1>2, <1>6
  <2>2. Sum(f2)
    BY <1>3, <1>6, <2>1
  <2>3. \A f : Sum(f) => f[2] = m(1) + m(2)
    <3> SUFFICES ASSUME NEW f, Sum(f) PROVE f[2] = m(1) + m(2)
      OBVIOUS
    <3>1. f[0] = 0
      BY <1>3, <1>6
    <3>2. f[1] = f[0] + m(1)
      BY <1>3, <1>6, <2>1
    <3>3. f[2] = f[1] + m(2)
      BY <1>3, <1>6, <2>1
    <3> HIDE DEF Sum
    <3> QED  BY <2>1, <3>1, <3>2, <3>3
  <2> HIDE DEF Sum, f2
  <2>4. General!Total(d, c) = m(1) + m(2)
    BY <1>3, <1>4, <1>6, <2>2, <2>3
  <2>5. Movement(c, "tune") = 0
    BY <1>1, <1>6 DEF Count
  <2> QED  BY <1>5, <2>1, <2>4, <2>5 DEF d
<1>7. CASE Count = 3
  <2>1. /\ m(1) \in Int /\ m(2) \in Int /\ m(3) \in Int
        /\ d[1].counts[c] = m(1) /\ d[2].counts[c] = m(2) /\ d[3].counts[c] = m(3)
    BY <1>1, <1>2, <1>7
  <2>2. Sum(f3)
    BY <1>3, <1>7, <2>1
  <2>3. \A f : Sum(f) => f[3] = m(1) + m(2) + m(3)
    <3> SUFFICES ASSUME NEW f, Sum(f) PROVE f[3] = m(1) + m(2) + m(3)
      OBVIOUS
    <3>1. f[0] = 0
      BY <1>3, <1>7
    <3>2. f[1] = f[0] + m(1)
      BY <1>3, <1>7, <2>1
    <3>3. f[2] = f[1] + m(2)
      BY <1>3, <1>7, <2>1
    <3>4. f[3] = f[2] + m(3)
      BY <1>3, <1>7, <2>1
    <3> HIDE DEF Sum
    <3> QED  BY <2>1, <3>1, <3>2, <3>3, <3>4
  <2> HIDE DEF Sum, f3
  <2>4. General!Total(d, c) = m(1) + m(2) + m(3)
    BY <1>3, <1>4, <1>7, <2>2, <2>3
  <2> QED  BY <1>5, <2>1, <2>4 DEF d
<1> QED  BY <1>6, <1>7 DEF Count

\* A field one arm alone moves takes what that arm made of it.
LEMMA OwnedBy ==
  ASSUME NEW f, NEW a \in Arms, \A arm \in Arms \ {a} : returned[arm][f] = acc[f]
  PROVE  Owned(f) = returned[a][f]
<1>1. Writers(f) \subseteq {a}
  BY DEF Writers
<1>2. CASE Writers(f) = {}
  BY <1>2 DEF Owned, Writers
<1>3. CASE Writers(f) = {a}
  BY <1>3 DEF Owned
<1> QED  BY <1>1, <1>2, <1>3

\* Each narrative field is its owner's word.
LEMMA OwnedByOwners ==
  ASSUME Gathering
  PROVE  /\ \A f \in {"lessons", "solved"} : Owned(f) = returned["reflect"][f]
         /\ \A f \in {"steer", "scores", "judged"} : Owned(f) = returned["judge"][f]
         /\ Owned("proposed") = IF "tune" \in Arms THEN returned["tune"].proposed
                                ELSE acc.proposed
<1>1. {"reflect", "judge"} \subseteq Arms /\ Arms \subseteq {"reflect", "judge", "tune"}
  BY DEF Arms
<1>2. /\ Besides(returned["reflect"], {"solved", "lessons"})
      /\ Besides(returned["judge"], {"steer", "scores", "judged"})
      /\ "tune" \in Arms => Besides(returned["tune"], {"proposed"})
  BY DEF Gathering, ByReflect, ByJudge, ByTuner
<1>3. ASSUME NEW f \in {"lessons", "solved"} PROVE Owned(f) = returned["reflect"][f]
  <2>1. \A arm \in Arms \ {"reflect"} : returned[arm][f] = acc[f]
    BY <1>1, <1>2 DEF Besides, Voiced
  <2> QED  BY <1>1, <2>1, OwnedBy
<1>4. ASSUME NEW f \in {"steer", "scores", "judged"}
      PROVE  Owned(f) = returned["judge"][f]
  <2>1. \A arm \in Arms \ {"judge"} : returned[arm][f] = acc[f]
    BY <1>1, <1>2 DEF Besides, Voiced
  <2> QED  BY <1>1, <2>1, OwnedBy
<1>5. CASE "tune" \in Arms
  <2>1. \A arm \in Arms \ {"tune"} : returned[arm]["proposed"] = acc["proposed"]
    BY <1>1, <1>2 DEF Besides, Voiced
  <2>2. Owned("proposed") = returned["tune"]["proposed"]
    BY <1>5, <2>1, OwnedBy
  <2> QED  BY <1>3, <1>4, <1>5, <2>2
<1>6. CASE "tune" \notin Arms
  <2>1. Writers("proposed") = {}
    BY <1>1, <1>2, <1>6 DEF Writers, Besides, Voiced
  <2> QED  BY <1>3, <1>4, <1>6, <2>1 DEF Owned
<1> QED  BY <1>5, <1>6

\* The latches: the only vote there can be is to conclude.
LEMMA VotesByName ==
  ASSUME Gathering
  PROVE  /\ General!Latch(acc.solved, {DeltasByName[i].solved : i \in DOMAIN DeltasByName})
              = returned["reflect"].solved
         /\ General!Latch(acc.expired, {DeltasByName[i].expired : i \in DOMAIN DeltasByName})
              = acc.expired
<1> DEFINE votes == {DeltasByName[i].solved : i \in DOMAIN DeltasByName}
           late == {DeltasByName[i].expired : i \in DOMAIN DeltasByName}
           now == returned["reflect"].solved
<1>1. /\ Besides(returned["reflect"], {"solved", "lessons"})
      /\ Besides(returned["judge"], {"steer", "scores", "judged"})
      /\ "tune" \in Arms => Besides(returned["tune"], {"proposed"})
      /\ now = acc.solved \/ now = TRUE
      /\ now \in BOOLEAN /\ acc.solved \in BOOLEAN
  BY DEF Gathering, ByReflect, ByJudge, ByTuner, Accumulator, Arms
<1>2. \A k \in 1 .. Count :
        /\ At(k) \in Arms /\ At(k) \in {"reflect", "judge", "tune"}
        /\ DeltasByName[k].solved = IF returned[At(k)].solved # acc.solved
                                      THEN <<returned[At(k)].solved>> ELSE << >>
        /\ DeltasByName[k].expired = IF returned[At(k)].expired # acc.expired
                                       THEN <<returned[At(k)].expired>> ELSE << >>
  BY Ranks DEF At, DeltasByName, DeltaOf, General!DeltaFrom, General!Some, General!None
<1>3. DOMAIN DeltasByName = 1 .. Count
  BY DEF DeltasByName
<1>4. \A k \in 1 .. Count :
        /\ DeltasByName[k].solved
             = IF At(k) = "reflect" /\ now # acc.solved THEN <<now>> ELSE << >>
        /\ DeltasByName[k].expired = << >>
  <2> SUFFICES ASSUME NEW k \in 1 .. Count
               PROVE  /\ DeltasByName[k].solved
                           = IF At(k) = "reflect" /\ now # acc.solved THEN <<now>> ELSE << >>
                      /\ DeltasByName[k].expired = << >>
    OBVIOUS
  <2>1. returned[At(k)].expired = acc.expired
    BY <1>1, <1>2 DEF Besides, Voiced
  <2>2. At(k) # "reflect" => returned[At(k)].solved = acc.solved
    BY <1>1, <1>2 DEF Besides, Voiced
  <2>3. DeltasByName[k].expired = << >>
    BY <1>2, <2>1
  <2>4. CASE At(k) = "reflect"
    BY <1>2, <2>3, <2>4
  <2>5. CASE At(k) # "reflect"
    BY <1>2, <2>2, <2>3, <2>5
  <2> QED  BY <2>4, <2>5
<1>5. \E k \in 1 .. Count : At(k) = "reflect"
  BY DEF At, Count
<1>6. /\ <<FALSE>> \notin votes
      /\ <<TRUE>> \in votes <=> now # acc.solved
      /\ <<TRUE>> \notin late /\ <<FALSE>> \notin late
  <2> HIDE DEF now
  <2>1. \A v \in votes : v = << >> \/ (now # acc.solved /\ v = <<now>>)
    BY <1>3, <1>4
  <2>2. now # acc.solved => <<now>> \in votes
    BY <1>3, <1>4, <1>5
  <2>3. \A v \in late : v = << >>
    BY <1>3, <1>4
  <2> HIDE DEF votes, late
  <2> QED  BY <1>1, <2>1, <2>2, <2>3 DEF now
<1> HIDE DEF votes, late, now
<1>7. General!Latch(acc.solved, votes) = now
  BY <1>1, <1>6 DEF General!Latch, General!Some
<1>8. General!Latch(acc.expired, late) = acc.expired
  BY <1>6 DEF General!Latch, General!Some
<1> QED  BY <1>7, <1>8 DEF votes, late, now

\* Field by field, the two folds are one.
LEMMA FoldsAlike ==
  ASSUME Gathering
  PROVE  General!Claim(General!Apply(acc, DeltasByName), General!Pooled(ClaimsByName))
           = Converged
<1> DEFINE w == General!Pooled(ClaimsByName)
           t(c) == General!Total(DeltasByName, c)
           counts == [c \in Counter |-> Clamped(acc.counts[c] + t(c), MaxU32)]
           solved == returned["reflect"].solved
           s == [acc EXCEPT !.counts = counts, !.solved = solved,
                            !.expired = acc.expired]
           Replaced(was, f) == IF w[f] = << >> THEN was ELSE w[f][1]
<1>1. General!Apply(acc, DeltasByName) = s
  BY VotesByName DEF General!Apply, General!Shift, General!Clamped, Clamped,
                     General!Counter, Counter
<1>2. counts = [c \in Counter |->
                  Clamped(acc.counts[c] + Movement(c, "reflect")
                            + Movement(c, "judge") + Movement(c, "tune"), MaxU32)]
  <2> SUFFICES ASSUME NEW c \in Counter
               PROVE  acc.counts[c] + t(c)
                        = acc.counts[c] + Movement(c, "reflect")
                            + Movement(c, "judge") + Movement(c, "tune")
    OBVIOUS
  <2>1. \A arm : Movement(c, arm) \in Int /\ acc.counts[c] \in Int
    <3>1. \A arm \in Arms : returned[arm].counts[c] \in Int /\ acc.counts[c] \in Int
      <4> TAKE arm \in Arms
      <4>1. returned[arm].counts \in [Counter -> U32] /\ acc.counts \in [Counter -> U32]
        BY DEF Gathering, Accumulator
      <4> QED  BY <4>1, WidthAssumption DEF U32
    <3>2. Arms # {}
      BY DEF Arms
    <3> QED  BY <3>1, <3>2 DEF Movement
  <2>2. t(c) = Movement(c, "reflect") + Movement(c, "judge") + Movement(c, "tune")
    BY TotalByName
  <2> HIDE DEF t
  <2> QED  BY <2>1, <2>2
<1>3. /\ {"reflect", "judge"} \subseteq Arms
      /\ \A f \in General!NarrativeField :
           w[f] = IF Owner(f) \in Arms THEN ClaimOf(Owner(f))[f] ELSE << >>
  BY PooledByOwner DEF Arms
<1>4. /\ acc.lessons \o w["lesson"] = Owned("lessons")
      /\ acc.scores \o w["score"] = Owned("scores")
  <2>1. w["lesson"] = ClaimOf("reflect")["lesson"] /\ w["score"] = ClaimOf("judge")["score"]
    BY <1>3 DEF Owner, General!NarrativeField
  <2> HIDE DEF w
  <2> QED  BY <2>1, ReflectClaims, JudgeClaims, OwnedByOwners
<1>5. Replaced(acc.steer, "steer") = Owned("steer")
      /\ Replaced(acc.judged, "judged") = Owned("judged")
      /\ Replaced(acc.last, "last_attempt") = acc.last
  <2>1. /\ w["steer"] = ClaimOf("judge")["steer"]
        /\ w["judged"] = ClaimOf("judge")["judged"]
        /\ w["last_attempt"] = ClaimOf("judge")["last_attempt"]
    BY <1>3 DEF Owner, General!NarrativeField
  <2> HIDE DEF w
  <2>2. /\ w["steer"] = IF returned["judge"].steer = acc.steer THEN << >>
                        ELSE <<returned["judge"].steer>>
        /\ w["judged"] = IF returned["judge"].judged = acc.judged THEN << >>
                        ELSE <<returned["judge"].judged>>
        /\ w["last_attempt"] = << >>
    BY <2>1, JudgeClaims
  <2>3. Owned("steer") = returned["judge"].steer /\ Owned("judged") = returned["judge"].judged
    BY OwnedByOwners
  <2> QED  BY <2>2, <2>3
<1>6. (IF w["amendment"] = << >> THEN acc.proposed ELSE w["amendment"]) = Owned("proposed")
  <2>1. w["amendment"] = IF "tune" \in Arms THEN ClaimOf("tune")["amendment"] ELSE << >>
    BY <1>3 DEF Owner, General!NarrativeField
  <2> HIDE DEF w
  <2>2. acc.proposed = << >>
    BY DEF Gathering, None
  <2>3. "tune" \in Arms => ClaimOf("tune")["amendment"] = returned["tune"].proposed
    BY TunerClaims
  <2> QED  BY <2>1, <2>2, <2>3, OwnedByOwners
<1>7. General!Claim(s, w)
        = [s EXCEPT !.lessons  = @ \o w["lesson"],
                    !.scores   = @ \o w["score"],
                    !.steer    = Replaced(@, "steer"),
                    !.judged   = Replaced(@, "judged"),
                    !.last     = Replaced(@, "last_attempt"),
                    !.proposed = IF w["amendment"] = << >>
                                   THEN @ ELSE w["amendment"]]
  BY DEF General!Claim, General!None
<1>8. acc \in Accumulator /\ Owned("solved") = solved
  BY OwnedByOwners DEF Gathering
<1> HIDE DEF w, t, counts, solved
<1>9. General!Claim(s, w)
        = [acc EXCEPT !.counts = counts, !.solved = solved,
                      !.lessons = Owned("lessons"), !.steer = Owned("steer"),
                      !.scores = Owned("scores"), !.judged = Owned("judged"),
                      !.proposed = Owned("proposed")]
  <2>1. /\ s.lessons = acc.lessons /\ s.scores = acc.scores /\ s.steer = acc.steer
        /\ s.judged = acc.judged /\ s.last = acc.last /\ s.proposed = acc.proposed
    BY <1>8 DEF Accumulator
  <2>2. General!Claim(s, w)
          = [s EXCEPT !.lessons  = Owned("lessons"),
                      !.scores   = Owned("scores"),
                      !.steer    = Owned("steer"),
                      !.judged   = Owned("judged"),
                      !.last     = acc.last,
                      !.proposed = Owned("proposed")]
    <3>1. /\ s.lessons \o w["lesson"] = Owned("lessons")
          /\ s.scores \o w["score"] = Owned("scores")
      BY <1>4, <2>1
    <3>2. /\ Replaced(s.steer, "steer") = Owned("steer")
          /\ Replaced(s.judged, "judged") = Owned("judged")
          /\ Replaced(s.last, "last_attempt") = acc.last
      BY <1>5, <2>1
    <3>3. (IF w["amendment"] = << >> THEN s.proposed ELSE w["amendment"])
            = Owned("proposed")
      BY <1>6, <2>1
    <3> HIDE DEF s, Replaced
    <3> QED  BY <1>7, <3>1, <3>2, <3>3
  <2> QED  BY <1>8, <2>2 DEF Accumulator
<1>10. Converged
         = [acc EXCEPT !.counts = counts, !.solved = solved,
                       !.lessons = Owned("lessons"), !.steer = Owned("steer"),
                       !.scores = Owned("scores"), !.judged = Owned("judged"),
                       !.proposed = Owned("proposed")]
  BY <1>2, <1>8 DEF Converged
<1> HIDE DEF s
<1>11. General!Claim(General!Apply(acc, DeltasByName), w) = General!Claim(s, w)
  BY <1>1
<1> QED  BY <1>9, <1>10, <1>11 DEF w

\* A run's own arms are never refused, and are folded as Converged says.
LEMMA GatheringFolds ==
  Inv /\ Handed => FoldAgrees
<1> SUFFICES ASSUME Inv, Handed, pc = "evaluate", DOMAIN returned = Arms,
                    NEW order \in General!SetToSeqs(Arms)
             PROVE  LET folded == General!Merge(acc, ArrivalOf(order))
                    IN  folded.ok /\ folded.state = Converged
  BY DEF FoldAgrees
<1>1. Gathering
  <2>1. acc \in Accumulator /\ \A arm \in Arms : returned[arm] \in Accumulator
    BY DEF Inv, TypeOK
  <2>2. acc.proposed = None /\ \A arm \in Arms : returned[arm] \in Candidates(arm)
    BY DEF Handed
  <2> QED  BY <2>1, <2>2, CandidatesMove DEF Gathering, Arms
<1> QED  BY <1>1, NoneContested, MergeByName, FoldsAlike

(***************************************************************************)
(* FoldAgrees holds of every run: what the general barrier of module       *)
(* LoopFold makes of a run's own arms, however it would have been for      *)
(* other arms, is what Converged makes of them.  No candidate is refused,  *)
(* since each narrative field is claimed by its one owner, and the order   *)
(* they finished in is sorted away (arm/mod.rs).                            *)
(***************************************************************************)
THEOREM ArmsFoldAsDriven == Spec => []FoldAgrees
<1>1. Inv /\ [Next]_vars => Inv'
  BY InvStep
<1> QED  BY <1>1, InvInit, HandedInit, HandedStep, GatheringFolds, PTL DEF Spec

-----------------------------------------------------------------------------
(***************************************************************************)
(* What a reader makes of a journal that grows.                            *)
(***************************************************************************)
\* A reading of a journal, event by event.
Reader(f, events) ==
  f = [n \in 0 .. Len(events) |->
         IF n = 0 THEN Unread ELSE Reading(f[n - 1], events[n])]

\* The lists, of anything.
Listed(s) == \E S : s \in Seq(S)

\* The journals some reading has.
Legible(events) ==
  /\ Listed(events)
  /\ \E f : Reader(f, events)

\* Readings of one journal agree, and Read is one of them.
LEMMA OneReading ==
  ASSUME NEW events, Legible(events), NEW f, Reader(f, events)
  PROVE  Read(events) = f[Len(events)]
<1> DEFINE n == Len(events)
           g == CHOOSE h : Reader(h, events)
<1>1. n \in Nat
  BY LenProperties DEF Legible, Listed
<1>2. Read(events) = g[n]
  BY DEF Read, Reader
<1>3. Reader(g, events)
  OBVIOUS
<1>4. ASSUME NEW h, Reader(h, events)
      PROVE  h[0] = Unread /\ \A k \in 1 .. n : h[k] = Reading(h[k - 1], events[k])
  BY <1>1, <1>4 DEF Reader
<1> HIDE DEF g, n
<1>5. /\ f[0] = Unread /\ g[0] = Unread
      /\ \A k \in 1 .. n : /\ f[k] = Reading(f[k - 1], events[k])
                           /\ g[k] = Reading(g[k - 1], events[k])
  BY <1>3, <1>4
<1> DEFINE P == {k \in 0 .. n : f[k] = g[k]}
<1>6. 0 \in P /\ \A k \in 1 .. n : k - 1 \in P => k \in P
  BY <1>1, <1>5
<1>7. \A k \in 0 .. n : k \in P
  <2> HIDE DEF P
  <2> QED  BY <1>1, <1>6, Climbs
<1> QED  BY <1>1, <1>2, <1>7 DEF n

\* An empty journal says nothing.
LEMMA ReadsNothing == Legible(<< >>) /\ Read(<< >>) = Unread
<1> DEFINE f == [n \in 0 .. 0 |-> Unread]
<1>1. Reader(f, << >>)
  BY DEF Reader
<1>2. << >> \in Seq({})
  OBVIOUS
<1>3. f[0] = Unread /\ Len(<< >>) = 0
  OBVIOUS
<1> HIDE DEF f
<1>4. Legible(<< >>)
  BY <1>1, <1>2 DEF Legible, Listed
<1> QED  BY <1>1, <1>3, <1>4, OneReading

\* One more event is read after all the others.
LEMMA ReadsOn ==
  ASSUME NEW events, Legible(events), NEW e
  PROVE  /\ Legible(Append(events, e))
         /\ Read(Append(events, e)) = Reading(Read(events), e)
<1> DEFINE n == Len(events)
           more == Append(events, e)
<1>1. PICK S : events \in Seq(S)
  BY DEF Legible, Listed
<1>2. PICK f : Reader(f, events)
  BY DEF Legible
<1>3. n \in Nat /\ Read(events) = f[n]
  BY <1>1, <1>2, LenProperties, OneReading
<1>4. /\ more \in Seq(S \cup {e}) /\ Len(more) = n + 1
      /\ \A i \in 1 .. n : more[i] = events[i]
      /\ more[n + 1] = e
  <2> DEFINE T == S \cup {e}
  <2>1. events \in Seq(T) /\ e \in T
    BY <1>1
  <2> HIDE DEF T
  <2>2. more \in Seq(T) /\ Len(more) = n + 1
    BY <2>1, AppendProperties
  <2> QED  BY <1>3, <2>1, <2>2, AppendProperties DEF T
<1> HIDE DEF n, more
<1> DEFINE g == [k \in 0 .. n + 1 |-> IF k = n + 1 THEN Reading(f[n], e) ELSE f[k]]
<1>5. DOMAIN f = 0 .. n /\ f[0] = Unread
        /\ \A k \in 1 .. n : f[k] = Reading(f[k - 1], events[k])
  BY <1>2, <1>3 DEF Reader, n
<1>6. ASSUME NEW k \in 0 .. n + 1
      PROVE  g[k] = IF k = 0 THEN Unread ELSE Reading(g[k - 1], more[k])
  <2>1. CASE k = n + 1
    <3>1. k - 1 \in 0 .. n + 1 /\ k - 1 = n /\ n # n + 1 /\ k # 0
      BY <1>3, <2>1
    <3>2. g[k] = Reading(f[n], e) /\ g[k - 1] = f[n]
      BY <2>1, <3>1
    <3> QED  BY <1>4, <2>1, <3>1, <3>2
  <2>2. CASE k = 0
    BY <1>3, <1>5, <2>2
  <2>3. CASE k \in 1 .. n
    <3>1. k - 1 \in 0 .. n + 1 /\ k # n + 1 /\ k - 1 # n + 1 /\ k # 0
      BY <1>3, <2>3
    <3>2. g[k] = f[k] /\ g[k - 1] = f[k - 1]
      BY <3>1
    <3> QED  BY <1>4, <1>5, <2>3, <3>1, <3>2
  <2> QED  BY <1>3, <2>1, <2>2, <2>3
<1>7. DOMAIN g = 0 .. n + 1 /\ g = [k \in 0 .. n + 1 |-> g[k]] /\ g[n + 1] = Reading(f[n], e)
  BY <1>3
<1> HIDE DEF g
<1>8. Reader(g, more)
  <2>1. g = [k \in 0 .. n + 1 |-> IF k = 0 THEN Unread ELSE Reading(g[k - 1], more[k])]
    BY <1>6, <1>7
  <2> QED  BY <1>4, <2>1 DEF Reader
<1>9. Legible(more)
  BY <1>4, <1>8 DEF Legible, Listed
<1>10. Read(more) = g[n + 1]
  BY <1>4, <1>8, <1>9, OneReading
<1> QED  BY <1>3, <1>7, <1>9, <1>10 DEF more

\* Lists put end to end, in either order.
LEMMA EndToEnd ==
  ASSUME NEW a, NEW b, NEW c, Listed(a), Listed(b), Listed(c)
  PROVE  /\ a \o (b \o c) = (a \o b) \o c
         /\ Listed(a \o b)
<1>1. PICK A : a \in Seq(A)
  BY DEF Listed
<1>2. PICK B : b \in Seq(B)
  BY DEF Listed
<1>3. PICK C : c \in Seq(C)
  BY DEF Listed
<1> DEFINE T == A \cup B \cup C
<1>4. a \in Seq(T) /\ b \in Seq(T) /\ c \in Seq(T)
  BY <1>1, <1>2, <1>3
<1> HIDE DEF T
<1>5. a \o b \in Seq(T)
  BY <1>4
<1> QED  BY <1>4, <1>5, ConcatAssociative DEF Listed

\* Events are read in the order they were recorded.
LEMMA ReadsOne ==
  ASSUME NEW events, Legible(events), NEW e
  PROVE  /\ Legible(events \o <<e>>)
         /\ Read(events \o <<e>>) = Reading(Read(events), e)
<1>1. PICK S : events \in Seq(S)
  BY DEF Legible, Listed
<1> DEFINE T == S \cup {e}
<1>2. events \in Seq(T) /\ e \in T
  BY <1>1
<1> HIDE DEF T
<1>3. events \o <<e>> = Append(events, e)
  BY <1>2, Grown
<1> QED  BY <1>3, ReadsOn

\* Two events are read one after the other.
LEMMA ReadsPair ==
  ASSUME NEW events, Legible(events), NEW d, NEW e
  PROVE  /\ Legible(events \o <<d, e>>)
         /\ Read(events \o <<d, e>>) = Reading(Reading(Read(events), d), e)
<1>1. Listed(<<d>>) /\ Listed(<<e>>) /\ <<d, e>> = <<d>> \o <<e>>
  <2> DEFINE T == {d, e}
             one == Append(<<d>>, e)
             two == <<d, e>>
  <2>1. <<d>> \in Seq(T) /\ <<e>> \in Seq(T) /\ two \in Seq(T) /\ e \in T
    OBVIOUS
  <2>2. Len(two) = 2 /\ two[1] = d /\ two[2] = e
    OBVIOUS
  <2>3. Len(<<d>>) = 1 /\ <<d>>[1] = d
    OBVIOUS
  <2> HIDE DEF T
  <2>4. one \in Seq(T) /\ Len(one) = 2 /\ one[1] = d /\ one[2] = e
    BY <2>1, <2>3, AppendProperties
  <2>5. <<d>> \o <<e>> = one
    BY <2>1, Grown
  <2> HIDE DEF one, two
  <2>6. \A i \in 1 .. Len(one) : one[i] = two[i]
    BY <2>2, <2>4
  <2>7. one = two
    BY <2>1, <2>2, <2>4, <2>6, SeqEqual
  <2> QED  BY <2>1, <2>5, <2>7 DEF Listed, two
<1>2. events \o <<d, e>> = (events \o <<d>>) \o <<e>>
  BY <1>1, EndToEnd DEF Legible
<1>3. /\ Legible(events \o <<d>>)
      /\ Read(events \o <<d>>) = Reading(Read(events), d)
  BY ReadsOne
<1> DEFINE first == events \o <<d>>
<1> HIDE DEF first
<1>4. /\ Legible(first \o <<e>>)
      /\ Read(first \o <<e>>) = Reading(Read(first), e)
  BY <1>3, ReadsOne DEF first
<1> QED  BY <1>2, <1>3, <1>4 DEF first

-----------------------------------------------------------------------------
(* What a unit's two events are read as, with nothing left open before.    *)
Clear == [open |-> << >>, orphans |-> << >>]

\* Events of passes P that report nothing but that.
Stamped(was, now, P) ==
  /\ now.report.routes = was.report.routes
  /\ now.report.scores = was.report.scores
  /\ now.report.bound = was.report.bound
  /\ now.report.passes = was.report.passes \cup P
  /\ now.told.begun = was.told.begun
  /\ now.told.revisions = was.told.revisions
  /\ now.told.merged = was.told.merged

\* An event of no other kind moves the clock only.
LEMMA Unremarked ==
  ASSUME NEW read, NEW e,
         e.event \in {"step_entered", "step_finished", "arm_started", "arm_finished",
                      "pass_finished", "loop_finished"}
  PROVE  Stamped(read, Reading(read, e), {e.pass})
  BY DEF Reading, Note, Tally, Stamped

\* A step or an arm that began is the one left open.
LEMMA Begun ==
  ASSUME NEW read, read.units = Clear, NEW e, Opens(e)
  PROVE  Reading(read, e).units
           = [open    |-> <<[pass |-> e.pass, name |-> e.about, unit |-> Unit(e)]>>,
              orphans |-> << >>]
<1> DEFINE u == [pass |-> e.pass, name |-> e.about, unit |-> Unit(e)]
<1>1. Pair(Clear, e) = [Clear EXCEPT !.open = Append(@, u)]
  BY DEF Pair
<1> HIDE DEF u
<1>2. Pair(Clear, e) = [open |-> <<u>>, orphans |-> << >>]
  BY <1>1 DEF Clear
<1> QED  BY <1>2 DEF u, Reading

\* One that ended leaves nothing open.
LEMMA Ended ==
  ASSUME NEW read, NEW e, Closes(e), ~Opens(e),
         read.units = [open    |-> <<[pass |-> e.pass, name |-> e.about, unit |-> Unit(e)]>>,
                       orphans |-> << >>]
  PROVE  Reading(read, e).units = Clear
<1> DEFINE u == [pass |-> e.pass, name |-> e.about, unit |-> Unit(e)]
           at == {i \in DOMAIN <<u>> : <<u>>[i] = u}
           m == CHOOSE i \in at : \A j \in at : i <= j
<1>1. at = {1}
  <2> HIDE DEF u
  <2> QED  OBVIOUS
<1>2. m = 1
  <2> HIDE DEF at
  <2> QED  BY <1>1
<1>3. Pair(read.units, e)
        = IF at = {} THEN [read.units EXCEPT !.orphans = Append(@, u)]
          ELSE [read.units EXCEPT !.open = SX!RemoveAt(<<u>>, m)]
  <2>1. read.units.open = <<u>>
    OBVIOUS
  <2>2. DOMAIN read.units = {"open", "orphans"}
    OBVIOUS
  <2> QED  BY <2>1, <2>2 DEF Pair
<1> HIDE DEF u, at, m
<1>4. SX!RemoveAt(<<u>>, 1) = << >>
  <2>1. SubSeq(<<u>>, 1, 0) = << >> /\ SubSeq(<<u>>, 2, 1) = << >> /\ Len(<<u>>) = 1
    OBVIOUS
  <2> QED  BY <2>1 DEF SX!RemoveAt
<1>5. Pair(read.units, e) = [read.units EXCEPT !.open = << >>]
  BY <1>1, <1>2, <1>3, <1>4
<1> QED  BY <1>5 DEF Reading, Clear, u

\* What two events in a row change is what both are stamped with.
LEMMA StampedTwice ==
  ASSUME NEW a, NEW b, NEW c, NEW P, NEW Q, Stamped(a, b, P), Stamped(b, c, Q)
  PROVE  Stamped(a, c, P \cup Q)
  BY DEF Stamped

\* So a unit that ran its course is read as nothing but its pass.
LEMMA RanItsCourse ==
  ASSUME NEW events, Legible(events), Read(events).units = Clear,
         NEW p, NEW name, NEW d, NEW e,
         \/ d = Event("step_entered", p, name) /\ e = Event("step_finished", p, name)
         \/ d = Event("arm_started", p, name) /\ e = Event("arm_finished", p, name)
  PROVE  /\ Legible(events \o <<d, e>>)
         /\ Read(events \o <<d, e>>).units = Clear
         /\ Stamped(Read(events), Read(events \o <<d, e>>), {p})
<1> DEFINE was == Read(events)
           mid == Reading(was, d)
<1>1. /\ Legible(events \o <<d, e>>)
      /\ Read(events \o <<d, e>>) = Reading(mid, e)
  BY ReadsPair
<1>2. /\ d.pass = p /\ e.pass = p /\ d.about = e.about
      /\ Opens(d) /\ Closes(e) /\ ~Opens(e) /\ Unit(d) = Unit(e)
      /\ d.event \in {"step_entered", "arm_started"}
      /\ e.event \in {"step_finished", "arm_finished"}
  BY DEF Event, Opens, Closes, Unit
<1>3. mid.units = [open    |-> <<[pass |-> d.pass, name |-> d.about, unit |-> Unit(d)]>>,
                   orphans |-> << >>]
  BY <1>2, Begun
<1>4. Stamped(was, mid, {p}) /\ Stamped(mid, Reading(mid, e), {p})
  BY <1>2, Unremarked
<1> HIDE DEF was, mid
<1>5. Reading(mid, e).units = Clear
  BY <1>2, <1>3, Ended
<1>6. Stamped(was, Reading(mid, e), {p} \cup {p})
  BY <1>4, StampedTwice
<1> QED  BY <1>1, <1>5, <1>6 DEF was

\* The other events leave the units be.
LEMMA NoUnit ==
  ASSUME NEW read, NEW e, ~Opens(e), ~Closes(e)
  PROVE  Reading(read, e).units = read.units
  BY DEF Reading, Pair

-----------------------------------------------------------------------------
(***************************************************************************)
(* What the journal tells of the run, at every step.                       *)
(***************************************************************************)
\* The passes some event is stamped with.
Clocked(passes) ==
  /\ passes \subseteq 0 .. pass
  /\ pc \notin {"plan_first", "failed"} => 0 \in passes
  /\ pc # "failed" => \A p \in 0 .. pass - 1 : p \in passes
  /\ pc \in {"attempt", "evaluate", "pass", "done"} => pass \in passes

\* The unit left open by a run given up.
Stuck(units, begun) ==
  /\ units.orphans = << >>
  /\ \E u : /\ units.open = <<u>>
            /\ u.pass = pass
            /\ u.unit = "arm" <=> Len(log) > pass
            /\ u.name = "attempt" => begun = Len(log) + 1

\* What is read is what became of the run.
Tells(read) ==
  /\ pc # "failed" => read.units = Clear
  /\ pc = "failed" => Stuck(read.units, read.told.begun)
  /\ read.report.routes = routes
  /\ Listed(read.report.scores) /\ Len(read.report.scores) = Len(routes)
  /\ read.report.bound = bound
  /\ Clocked(read.report.passes)
  /\ pc # "failed" =>
       read.told.begun = Len(log) + (IF pc = "attempt" THEN 1 ELSE 0)
  /\ read.told.revisions = acc.profile.history
  /\ \A c \in {"unverified", "restarts", "banked"} :
       acc.counts[c] = read.told.merged[c]

\* The journal can be read, and tells of the run as far as it got.
Journalled ==
  /\ Legible(journal)
  /\ Tells(Read(journal))
  /\ pc \in {"plan_first", "research"} => pass = 0
  /\ Working => bound = NoBound

\* What the journal tells is what the two properties ask of it.
LEMMA JournalledTells ==
  ASSUME Inv, Journalled PROVE OpenUnitsNameTheFailure /\ ReportTellsTheRun
<1> DEFINE read == Read(journal)
<1>1. Tells(read)
  BY DEF Journalled
<1> HIDE DEF read
<1>2. /\ read.units.orphans = << >>
      /\ pc # "failed" => read.units.open = << >>
      /\ pc = "failed" =>
           /\ Len(read.units.open) = 1
           /\ read.units.open[1].pass = pass
           /\ read.units.open[1].unit = "arm" <=> Len(log) > pass
           /\ read.units.open[1].name = "attempt" => read.told.begun = Len(log) + 1
  <2>1. CASE pc # "failed"
    BY <1>1, <2>1 DEF Tells, Clear
  <2>2. CASE pc = "failed"
    <3>1. PICK u : /\ read.units.open = <<u>>
                   /\ u.pass = pass
                   /\ u.unit = "arm" <=> Len(log) > pass
                   /\ u.name = "attempt" => read.told.begun = Len(log) + 1
      BY <1>1, <2>2 DEF Tells, Stuck
    <3>2. Len(<<u>>) = 1 /\ <<u>>[1] = u
      OBVIOUS
    <3> QED  BY <1>1, <2>2, <3>1, <3>2 DEF Tells, Stuck
  <2> QED  BY <2>1, <2>2
<1>3. pc = "done" => read.report.passes = 0 .. pass
  <2>1. pass \in Nat
    BY PassesCapped DEF Inv, TypeOK
  <2>2. pc = "done" => \A p \in 0 .. pass : p \in read.report.passes
    BY <1>1, <2>1 DEF Tells, Clocked
  <2> QED  BY <1>1, <2>2 DEF Tells, Clocked
<1> QED  BY <1>1, <1>2, <1>3 DEF read, Tells, OpenUnitsNameTheFailure, ReportTellsTheRun

\* A run that has not started has nothing on record.
LEMMA JournalledInit == JournalInit => Journalled
<1> SUFFICES ASSUME JournalInit PROVE Journalled
  OBVIOUS
<1>1. Legible(journal) /\ Read(journal) = Unread
  BY ReadsNothing DEF JournalInit
<1>2. /\ pc = "plan_first" /\ pass = 0 /\ routes = << >> /\ bound = NoBound
      /\ log = << >> /\ acc = StartingAcc
  BY DEF JournalInit, Init
<1>3. << >> \in Seq({})
  OBVIOUS
<1>4. /\ Unread.units = Clear
      /\ Unread.report.routes = << >> /\ Unread.report.scores = << >>
      /\ Unread.report.bound = NoBound /\ Unread.report.passes = {}
      /\ Unread.told.begun = 0 /\ Unread.told.revisions = << >>
      /\ \A c \in Counter : Unread.told.merged[c] = 0
  BY DEF Unread, Clear
<1>5. /\ acc.profile.history = << >>
      /\ \A c \in Counter : acc.counts[c] = 0
  BY <1>2 DEF StartingAcc, StartingProfile
<1>6. Tells(Unread)
  BY <1>2, <1>3, <1>4, <1>5 DEF Tells, Clocked, Listed, Counter
<1> QED  BY <1>1, <1>2, <1>6 DEF Journalled

\* The step of a run, as it is journalled, is a step of the run.
LEMMA JournalledSteps == [JournalNext]_journalled => [Next]_vars
<1> SUFFICES ASSUME [JournalNext]_journalled PROVE [Next]_vars
  OBVIOUS
<1>1. CASE JournalNext
  BY <1>1 DEF JournalNext, Next
<1>2. CASE UNCHANGED journalled
  BY <1>2 DEF journalled
<1> QED  BY <1>1, <1>2

\* The counters only arms move.
ArmCounters == {"unverified", "restarts", "banked"}

\* Before the loop only pass 0 is on record.
LEMMA PreparingJournals ==
  ASSUME Inv, Journalled,
         \/ PlanFirst /\ Records(Around("plan", 0))
         \/ Research /\ Records(Around("research", 0))
  PROVE  Journalled'
<1> DEFINE read == Read(journal)
<1>1. /\ Legible(journal) /\ Tells(read) /\ pass = 0 /\ bound = NoBound
      /\ pc \in {"plan_first", "research"} /\ acc \in Accumulator
  BY DEF Journalled, PlanFirst, Research, Working, Inv, TypeOK
<1>2. read.units = Clear
  BY <1>1 DEF Tells
<1>3. PICK step : journal' = journal \o Around(step, 0)
  BY DEF Records
<1>4. Legible(journal') /\ read'.units = Clear /\ Stamped(read, read', {0})
  <2>1. Around(step, 0) = <<Event("step_entered", 0, step), Event("step_finished", 0, step)>>
    BY DEF Around
  <2> QED  BY <1>1, <1>2, <1>3, <2>1, RanItsCourse
<1>5. /\ pc' \in {"research", "plan"} /\ pass' = pass /\ routes' = routes
      /\ bound' = bound /\ log' = log
      /\ acc'.profile = acc.profile /\ \A c \in ArmCounters : acc'.counts[c] = acc.counts[c]
  BY <1>1 DEF PlanFirst, Research, Planned, Accumulator
<1> HIDE DEF read
<1>6. Tells(read)'
  BY <1>1, <1>4, <1>5 DEF Tells, Clocked, Stamped, ArmCounters
<1> QED  BY <1>1, <1>4, <1>5, <1>6 DEF Journalled, read, Working

\* A single event, then a unit.
LEMMA EventThenPair ==
  ASSUME NEW events, Legible(events), NEW c, NEW d, NEW e
  PROVE  events \o (<<c>> \o <<d, e>>) = (events \o <<c>>) \o <<d, e>>
<1>1. <<c>> \in Seq({c}) /\ <<d, e>> \in Seq({d, e})
  OBVIOUS
<1>2. Listed(<<c>>) /\ Listed(<<d, e>>)
  BY <1>1 DEF Listed
<1> QED  BY <1>2, EndToEnd DEF Legible

\* What a pass begins with.
Opening == <<Event("pass_started", pass, "")>> \o Around("plan", pass)

\* A pass begun is on the clock, and counted.
LEMMA BeginPassJournals ==
  ASSUME Inv, Journalled, BeginPass, Records(Opening)
  PROVE  Journalled'
<1> DEFINE read == Read(journal)
           begun == Event("pass_started", pass, "")
           d == Event("step_entered", pass, "plan")
           e == Event("step_finished", pass, "plan")
           mid == Reading(read, begun)
<1>0. pc = "plan"
  BY DEF BeginPass
<1>1. /\ Legible(journal) /\ Tells(read) /\ bound = NoBound
      /\ pc = "plan" /\ acc \in Accumulator /\ pass \in Nat /\ Len(log) \in Nat
  BY <1>0, PassesCapped, LenProperties DEF Journalled, Working, Inv, TypeOK
<1>2. read.units = Clear
  BY <1>1 DEF Tells
<1>3. journal' = (journal \o <<begun>>) \o <<d, e>>
  <2>1. Opening = <<begun>> \o <<d, e>>
    BY Zenon DEF Opening, Around
  <2>2. journal' = journal \o Opening
    BY Zenon DEF Records
  <2> HIDE DEF begun, d, e
  <2>3. Legible(journal)
    BY <1>1
  <2>4. journal \o (<<begun>> \o <<d, e>>) = (journal \o <<begun>>) \o <<d, e>>
    BY <2>3, EventThenPair
  <2> QED  BY Zenon, <2>1, <2>2, <2>4
<1>4. mid.units = Clear
  BY <1>2, NoUnit DEF Opens, Closes, Event
<1>5. Legible(journal') /\ read'.units = Clear /\ Stamped(mid, read', {pass})
  <2>1. Legible(journal \o <<begun>>) /\ Read(journal \o <<begun>>) = mid
    BY <1>1, ReadsOne
  <2> DEFINE first == journal \o <<begun>>
  <2> HIDE DEF first, mid
  <2>2. /\ Legible(first \o <<d, e>>)
        /\ Read(first \o <<d, e>>).units = Clear
        /\ Stamped(Read(first), Read(first \o <<d, e>>), {pass})
    BY <1>4, <2>1, RanItsCourse DEF first
  <2> QED  BY <1>3, <2>1, <2>2 DEF first
<1>6. /\ mid.report.routes = read.report.routes
      /\ mid.report.scores = read.report.scores
      /\ mid.report.bound = read.report.bound
      /\ mid.report.passes = read.report.passes \cup {pass}
      /\ mid.told.begun = read.told.begun + 1
      /\ mid.told.revisions = read.told.revisions
      /\ mid.told.merged = read.told.merged
  BY DEF Reading, Note, Tally, Event
<1>7. /\ pc' = "attempt" /\ pass' = pass /\ routes' = routes
      /\ bound' = bound /\ log' = log
      /\ acc'.profile = acc.profile /\ \A c \in ArmCounters : acc'.counts[c] = acc.counts[c]
  <2> DEFINE b == [acc EXCEPT !.counts["passes"] = pass]
  <2>1. acc'.profile = b.profile /\ acc'.counts = b.counts
    BY <1>1 DEF BeginPass, Planned, Accumulator
  <2>2. acc.counts \in [Counter -> U32]
    BY <1>1 DEF Accumulator
  <2>3. b.profile = acc.profile /\ \A c \in ArmCounters : b.counts[c] = acc.counts[c]
    BY <1>1, <2>2 DEF Accumulator, ArmCounters, Counter
  <2> HIDE DEF b
  <2> QED  BY <2>1, <2>3 DEF BeginPass
<1> HIDE DEF read, mid
<1>8. Tells(read)'
  <2>0. read.told.begun = Len(log)
    BY <1>1 DEF Tells
  <2>1. /\ read'.report.passes = read.report.passes \cup {pass}
        /\ read'.told.begun = Len(log) + 1
    BY <1>5, <1>6, <2>0 DEF Stamped
  <2>2. Clocked(read.report.passes)
    BY <1>1 DEF Tells
  <2>4. Clocked(read.report.passes)'
    <3>1. pass \in read'.report.passes /\ \A p \in 0 .. pass - 1 : p \in read'.report.passes
      BY <1>1, <2>1, <2>2 DEF Clocked
    <3>2. read'.report.passes \subseteq 0 .. pass /\ 0 \in read'.report.passes
      <4>1. read.report.passes \subseteq 0 .. pass /\ 0 \in read.report.passes
        BY <1>1, <2>2 DEF Clocked
      <4>2. pass \in 0 .. pass
        BY <1>1
      <4> QED  BY <2>1, <4>1, <4>2
    <3> QED  BY <1>1, <1>7, <3>1, <3>2 DEF Clocked
  <2> QED  BY <1>1, <1>5, <1>6, <1>7, <2>1, <2>4 DEF Tells, Stamped, ArmCounters
<1> QED  BY <1>1, <1>5, <1>7, <1>8 DEF Journalled, read, Working

\* The attempt leaves in the run's log what it leaves in the count of passes begun.
LEMMA AttemptJournals ==
  ASSUME Inv, Journalled, \E r \in Reports : Attempt(r), Records(Around("attempt", pass))
  PROVE  Journalled'
<1> DEFINE read == Read(journal)
           d == Event("step_entered", pass, "attempt")
           e == Event("step_finished", pass, "attempt")
<1>0. PICK r \in Reports : Attempt(r)
  OBVIOUS
<1>1. pc = "attempt"
  BY <1>0 DEF Attempt
<1>2. /\ Legible(journal) /\ Tells(read) /\ bound = NoBound
      /\ pc = "attempt" /\ acc \in Accumulator /\ pass \in Nat
      /\ Len(log) \in Nat
  BY <1>1, PassesCapped, LenProperties DEF Journalled, Working, Inv, TypeOK
<1>3. read.units = Clear
  BY <1>2 DEF Tells
<1>4. Legible(journal') /\ read'.units = Clear /\ Stamped(read, read', {pass})
  <2>1. journal' = journal \o <<d, e>>
    BY DEF Records, Around
  <2> QED  BY <1>2, <1>3, <2>1, RanItsCourse
<1>5. /\ pc' = "evaluate" /\ pass' = pass /\ routes' = routes /\ bound' = bound
      /\ acc'.profile = acc.profile
  BY <1>2, <1>0 DEF Attempt, Attempted, Accumulator
<1>6. Len(log') = Len(log) + 1
  <2> DEFINE entry == [report |-> r, briefed |-> acc.steer, advised |-> ""]
             S == [report : Reports, briefed : Steer, advised : Steer]
  <2>1. entry \in S /\ log \in Seq(S) /\ log' = Append(log, entry)
    BY <1>2, <1>0 DEF Attempt, Inv, TypeOK, Accumulator, Steer
  <2> HIDE DEF entry, S
  <2> QED  BY <2>1, AppendProperties
<1>7. \A c \in ArmCounters : acc'.counts[c] = acc.counts[c]
  <2> DEFINE k == acc.counts
             streaks == IF Informative(r)
                          THEN [k EXCEPT !["unproductive"] = 0, !["blocked"] = 0]
                        ELSE IF Blocked(r)
                          THEN [k EXCEPT !["blocked"] = SatAdd(@, 1)]
                        ELSE [k EXCEPT !["unproductive"] = SatAdd(@, 1)]
  <2>1. acc'.counts = [streaks EXCEPT !["attempts"] = SatAdd(@, 1),
                                      !["established"] = SatAdd(@, Artifacts(r))]
    BY <1>2, <1>0 DEF Attempt, Attempted, Accumulator
  <2>2. DOMAIN k = Counter
    BY <1>2 DEF Accumulator
  <2>3. DOMAIN streaks = Counter /\ \A c \in ArmCounters : streaks[c] = k[c]
    BY <2>2 DEF ArmCounters, Counter
  <2> HIDE DEF streaks
  <2> QED  BY <2>1, <2>3 DEF ArmCounters, Counter
<1> HIDE DEF read
<1>8. Tells(read)'
  <2>1. Clocked(read.report.passes) /\ pass \in read.report.passes
    BY <1>2 DEF Tells, Clocked
  <2>2. read'.report.passes = read.report.passes
    BY <1>4, <2>1 DEF Stamped
  <2>3. Clocked(read.report.passes)'
    BY <1>2, <1>5, <2>1, <2>2 DEF Clocked
  <2> QED  BY <1>2, <1>4, <1>5, <1>6, <1>7, <2>3 DEF Tells, Stamped, ArmCounters
<1> QED  BY <1>2, <1>4, <1>5, <1>8 DEF Journalled, read, Working

\* An arm that returns has changed nothing yet.
LEMMA ArmStepJournals ==
  ASSUME Inv, Journalled, NEW arm \in Arms, ArmStep(arm),
         Records(<<Event("arm_started", pass, arm), Event("arm_finished", pass, arm)>>)
  PROVE  Journalled'
<1> DEFINE read == Read(journal)
<1>1. /\ Legible(journal) /\ Tells(read) /\ bound = NoBound
      /\ pc = "evaluate" /\ pass \in Nat
  BY PassesCapped DEF Journalled, ArmStep, Working, Inv, TypeOK
<1>2. read.units = Clear
  BY <1>1 DEF Tells
<1>3. Legible(journal') /\ read'.units = Clear /\ Stamped(read, read', {pass})
  BY <1>1, <1>2, RanItsCourse DEF Records
<1>4. /\ pc' = pc /\ pass' = pass /\ routes' = routes /\ bound' = bound
      /\ acc' = acc /\ log' = log
  BY DEF ArmStep
<1> HIDE DEF read
<1>5. Tells(read)'
  <2>1. Clocked(read.report.passes) /\ pass \in read.report.passes
    BY <1>1 DEF Tells, Clocked
  <2>2. read'.report.passes = read.report.passes
    BY <1>3, <2>1 DEF Stamped
  <2>3. Clocked(read.report.passes)'
    BY <1>1, <1>4, <2>1, <2>2 DEF Clocked
  <2> QED  BY <1>1, <1>3, <1>4, <2>3 DEF Tells, Stamped
<1> QED  BY <1>1, <1>3, <1>4, <1>5 DEF Journalled, read, Working

\* Of the counters only arms move, only the reviewer moves one.
LEMMA OneArmCounts ==
  ASSUME Inv, Handed, pc = "evaluate", DOMAIN returned = Arms, NEW c \in ArmCounters
  PROVE  Converged.counts[c] = acc.counts[c] + Summed[c]
<1>1. /\ acc \in Accumulator /\ acc.counts \in [Counter -> U32] /\ c \in Counter
      /\ \A arm \in Arms : /\ returned[arm] \in Candidates(arm)
                           /\ returned[arm].counts \in [Counter -> U32]
  BY DEF Inv, TypeOK, Accumulator, Handed, ArmCounters, Counter
<1>2. Judged(acc).counts = acc.counts
  BY <1>1 DEF Judged, Accumulator
<1>3. returned["judge"].counts = acc.counts
  <2>1. returned["judge"] \in {acc, Judged(acc)}
    BY <1>1 DEF Candidates, Arms
  <2> QED  BY <1>2, <2>1
<1>4. "tune" \in Arms => returned["tune"].counts = acc.counts
  <2>1. "tune" \in Arms =>
          returned["tune"] \in {acc} \cup {[acc EXCEPT !.proposed = p] : p \in Choices(acc)}
    BY <1>1 DEF Candidates
  <2>2. \A p : [acc EXCEPT !.proposed = p].counts = acc.counts
    BY <1>1 DEF Accumulator
  <2> QED  BY <2>1, <2>2
<1>5. /\ acc.counts[c] \in 0 .. MaxU32 /\ returned["reflect"].counts[c] \in 0 .. MaxU32
      /\ MaxU32 \in Nat
  BY <1>1, WidthAssumption DEF U32, Arms
<1>6. /\ Movement(c, "judge") = 0 /\ Movement(c, "tune") = 0
      /\ Movement(c, "reflect") = returned["reflect"].counts[c] - acc.counts[c]
  BY <1>3, <1>4, <1>5 DEF Movement, Arms
<1>7. Summed[c] = Movement(c, "reflect") + Movement(c, "judge") + Movement(c, "tune")
  BY <1>1 DEF Summed
<1>8. Converged.counts[c] = Clamped(acc.counts[c] + Movement(c, "reflect")
                                      + Movement(c, "judge") + Movement(c, "tune"), MaxU32)
  BY <1>1 DEF Converged, Accumulator
<1> QED  BY <1>5, <1>6, <1>7, <1>8 DEF Clamped

\* What a merge, a route and a verdict are read as.
LEMMA MergeRead ==
  ASSUME NEW read, NEW m, NEW r, NEW v,
         m.event = "merged", r.event = "routed", v.event = "judged"
  PROVE  LET now == Reading(Reading(Reading(read, m), r), v)
         IN  /\ now.units = read.units
             /\ now.report.routes = Append(read.report.routes, r.about)
             /\ now.report.scores = Append(read.report.scores, v.about.score)
             /\ now.report.bound = read.report.bound
             /\ now.report.passes = read.report.passes \cup {m.pass, r.pass, v.pass}
             /\ now.told.begun = read.told.begun
             /\ now.told.revisions = read.told.revisions
             /\ now.told.merged = [c \in Counter |-> read.told.merged[c] + m.about[c]]
<1> DEFINE one == Reading(read, m)
           two == Reading(one, r)
<1>1. /\ one.units = read.units /\ two.units = one.units
      /\ Reading(two, v).units = two.units
  BY NoUnit DEF Opens, Closes
<1>2. /\ one.report.routes = read.report.routes
      /\ one.report.scores = read.report.scores
      /\ one.report.bound = read.report.bound
      /\ one.report.passes = read.report.passes \cup {m.pass}
      /\ one.told.begun = read.told.begun
      /\ one.told.revisions = read.told.revisions
      /\ one.told.merged = [c \in Counter |-> read.told.merged[c] + m.about[c]]
  BY DEF Reading, Note, Tally
<1> HIDE DEF one
<1>3. /\ two.report.routes = Append(one.report.routes, r.about)
      /\ two.report.scores = one.report.scores
      /\ two.report.bound = one.report.bound
      /\ two.report.passes = one.report.passes \cup {r.pass}
      /\ two.told = [begun |-> one.told.begun, revisions |-> one.told.revisions,
                     merged |-> one.told.merged]
  BY DEF Reading, Note, Tally
<1> HIDE DEF two
<1> DEFINE now == Reading(two, v)
<1>4. /\ now.report.routes = two.report.routes
      /\ now.report.scores = Append(two.report.scores, v.about.score)
      /\ now.report.bound = two.report.bound
      /\ now.report.passes = two.report.passes \cup {v.pass}
      /\ now.told = [begun |-> two.told.begun, revisions |-> two.told.revisions,
                     merged |-> two.told.merged]
  BY DEF Reading, Note, Tally
<1>5. now.units = read.units
  BY <1>1
<1> HIDE DEF now
<1>6. now.report.passes = read.report.passes \cup {m.pass, r.pass, v.pass}
  BY <1>2, <1>3, <1>4
<1>7. /\ now.report.routes = Append(read.report.routes, r.about)
      /\ now.report.scores = Append(read.report.scores, v.about.score)
      /\ now.report.bound = read.report.bound
      /\ now.told.begun = read.told.begun
      /\ now.told.revisions = read.told.revisions
      /\ now.told.merged = [c \in Counter |-> read.told.merged[c] + m.about[c]]
  BY <1>2, <1>3, <1>4
<1>8. Reading(Reading(Reading(read, m), r), v) = now
  BY DEF now, two, one
<1> QED  BY <1>5, <1>6, <1>7, <1>8

\* What a merge is recorded as.
Merging == <<Event("merged", pass, Summed)>> \o Verdict(Converged)

\* The movements merged are those the counters make, and each route has its score.
LEMMA ConvergeJournals ==
  ASSUME Inv, Handed, Journalled, Converge, Records(Merging)
  PROVE  Journalled'
<1> DEFINE read == Read(journal)
           m == Event("merged", pass, Summed)
           r == Event("routed", pass, RouteOf(Converged))
           v == Event("judged", pass,
                      [judged |-> Converged.judged,
                       score  |-> IF Converged.scores = << >> THEN 0
                                  ELSE Last(Converged.scores)])
           route == RouteOf(Converged)
<1>0. pc = "evaluate" /\ DOMAIN returned = Arms
  BY DEF Converge
<1>1. /\ Legible(journal) /\ Tells(read) /\ bound = NoBound
      /\ acc \in Accumulator /\ pass \in Nat /\ Len(log) \in Nat
      /\ routes \in Seq(Route) /\ read.units = Clear
  <2>1. Legible(journal) /\ Tells(read) /\ bound = NoBound
    BY <1>0 DEF Journalled, Working
  <2> HIDE DEF read
  <2>2. read.units = Clear
    BY <1>0, <2>1 DEF Tells
  <2> QED  BY <2>1, <2>2, PassesCapped, LenProperties DEF Inv, TypeOK
<1>2. /\ m.event = "merged" /\ r.event = "routed" /\ v.event = "judged"
      /\ m.pass = pass /\ r.pass = pass /\ v.pass = pass
      /\ m.about = Summed /\ r.about = route
  BY DEF Event
<1>3. journal' = (journal \o <<m>>) \o <<r, v>>
  <2>1. Merging = <<m>> \o <<r, v>>
    BY Zenon DEF Merging, Verdict
  <2>2. journal' = journal \o Merging
    BY Zenon DEF Records
  <2> HIDE DEF m, r, v
  <2>3. journal \o (<<m>> \o <<r, v>>) = (journal \o <<m>>) \o <<r, v>>
    BY <1>1, EventThenPair
  <2> QED  BY Zenon, <2>1, <2>2, <2>3
<1>4. Legible(journal') /\ read' = Reading(Reading(Reading(read, m), r), v)
  <2> HIDE DEF m, r, v
  <2> DEFINE first == journal \o <<m>>
  <2>1. Legible(first) /\ Read(first) = Reading(read, m)
    BY <1>1, ReadsOne
  <2> HIDE DEF first
  <2>2. Legible(first \o <<r, v>>)
        /\ Read(first \o <<r, v>>) = Reading(Reading(Read(first), r), v)
    BY <2>1, ReadsPair
  <2> QED  BY <1>3, <2>1, <2>2 DEF first
<1>5. /\ read'.units = Clear
      /\ read'.report.routes = Append(routes, route)
      /\ read'.report.scores = Append(read.report.scores, v.about.score)
      /\ read'.report.bound = bound
      /\ read'.report.passes = read.report.passes \cup {pass}
      /\ read'.told.begun = read.told.begun
      /\ read'.told.revisions = acc.profile.history
      /\ read'.told.merged = [c \in Counter |-> read.told.merged[c] + Summed[c]]
  <2> HIDE DEF m, r, v, route, read
  <2>1. /\ read.report.routes = routes /\ read.report.bound = bound
        /\ read.told.revisions = acc.profile.history
    BY <1>1 DEF Tells
  <2> DEFINE now == Reading(Reading(Reading(read, m), r), v)
  <2>2. /\ now.units = read.units
        /\ now.report.routes = Append(read.report.routes, r.about)
        /\ now.report.scores = Append(read.report.scores, v.about.score)
        /\ now.report.bound = read.report.bound
        /\ now.report.passes = read.report.passes \cup {m.pass, r.pass, v.pass}
        /\ now.told.begun = read.told.begun
        /\ now.told.revisions = read.told.revisions
        /\ now.told.merged = [c \in Counter |-> read.told.merged[c] + m.about[c]]
    BY <1>2, MergeRead
  <2>3. read' = now
    BY <1>4
  <2> HIDE DEF now
  <2> QED  BY <1>1, <1>2, <2>1, <2>2, <2>3
<1>6. /\ pc' = "pass" /\ pass' = pass /\ bound' = bound
      /\ routes' = Append(routes, route) /\ acc' = Converged
  BY DEF Converge
<1>7. acc'.profile = acc.profile /\ Len(log') = Len(log)
  BY <1>1, <1>6, ConvergedLog DEF Converged, Accumulator
<1>8. \A c \in ArmCounters : acc'.counts[c] = read'.told.merged[c]
  <2> TAKE c \in ArmCounters
  <2>1. acc'.counts[c] = acc.counts[c] + Summed[c]
    BY <1>0, <1>6, OneArmCounts
  <2> HIDE DEF read
  <2>2. acc.counts[c] = read.told.merged[c] /\ c \in Counter
    BY <1>1 DEF Tells, ArmCounters, Counter
  <2> QED  BY <1>5, <2>1, <2>2
<1>9. /\ Listed(read'.report.scores) /\ Len(read'.report.scores) = Len(routes')
  <2> DEFINE x == v.about.score
             scores == read.report.scores
  <2> HIDE DEF v, read
  <2>1. Listed(scores) /\ Len(scores) = Len(routes)
    BY <1>1 DEF Tells
  <2>2. PICK S : scores \in Seq(S)
    BY <2>1 DEF Listed
  <2> DEFINE T == S \cup {x}
  <2>3. scores \in Seq(T) /\ x \in T
    BY <2>2
  <2> HIDE DEF T, x, scores
  <2>4. Append(scores, x) \in Seq(T) /\ Len(Append(scores, x)) = Len(scores) + 1
    BY <2>3, AppendProperties
  <2>5. Len(routes') = Len(routes) + 1
    <3>1. route \in Route
      BY DEF RouteOf, Route
    <3> HIDE DEF route
    <3> QED  BY <1>1, <1>6, <3>1, AppendProperties
  <2>6. read'.report.scores = Append(scores, x)
    BY <1>5 DEF scores, x
  <2> QED  BY <2>1, <2>4, <2>5, <2>6 DEF Listed
<1> HIDE DEF read, v
<1>10. Tells(read)'
  <2>1. Clocked(read.report.passes) /\ pass \in read.report.passes
    BY <1>0, <1>1 DEF Tells, Clocked
  <2>2. read'.report.passes = read.report.passes
    BY <1>5, <2>1
  <2>3. Clocked(read.report.passes)'
    BY <1>0, <1>1, <1>6, <2>1, <2>2 DEF Clocked
  <2>4. read.told.begun = Len(log)
    BY <1>0, <1>1 DEF Tells
  <2> QED  BY <1>1, <1>5, <1>6, <1>7, <1>8, <1>9, <2>3, <2>4 DEF Tells, ArmCounters
<1> QED  BY <1>1, <1>4, <1>6, <1>10 DEF Journalled, read, Working

\* One event more, or none.
Few(list) == list = << >> \/ \E e : list = <<e>>

\* Either is read after all the others.
LEMMA ReadsFew ==
  ASSUME NEW events, Legible(events), NEW list, Few(list)
  PROVE  /\ Listed(list)
         /\ Legible(events \o list)
         /\ list = << >> => Read(events \o list) = Read(events)
         /\ \A e : list = <<e>> => Read(events \o list) = Reading(Read(events), e)
<1>1. CASE list = << >>
  <2>1. PICK S : events \in Seq(S)
    BY DEF Legible, Listed
  <2>2. events \o << >> = events
    BY <2>1, ConcatEmptySeq
  <2>3. << >> \in Seq({}) /\ \A e : << >> # <<e>>
    OBVIOUS
  <2> QED  BY <1>1, <2>2, <2>3 DEF Listed
<1>2. ASSUME NEW x, list = <<x>>
      PROVE  /\ Listed(list)
             /\ Legible(events \o list)
             /\ list # << >>
             /\ \A e : list = <<e>> => Read(events \o list) = Reading(Read(events), e)
  <2>1. <<x>> \in Seq({x}) /\ <<x>> # << >> /\ \A e : <<x>> = <<e>> => x = e
    OBVIOUS
  <2>2. /\ Legible(events \o <<x>>)
        /\ Read(events \o <<x>>) = Reading(Read(events), x)
    BY ReadsOne
  <2> QED  BY <1>2, <2>1, <2>2 DEF Listed
<1> QED  BY <1>1, <1>2 DEF Few

\* A pass revises at most once, and says so.
LEMMA PassRevises ==
  ASSUME Inv, ClosePass
  PROVE  \/ /\ acc'.profile.history = acc.profile.history
            /\ Revised(acc.profile, acc'.profile) = << >>
         \/ \E entry \in Recorded :
              /\ acc'.profile.history = Append(acc.profile.history, entry)
              /\ Revised(acc.profile, acc'.profile) = <<Revision(pass, entry)>>
<1> DEFINE before == acc.profile
           after == Advanced(acc, pass).profile
           old == Len(before.history)
<1>1. /\ acc \in Accumulator /\ before \in ProfileType
      /\ acc.proposed \in Option(Change)
      /\ before.history \in Seq(Recorded) /\ old \in Nat
  BY LenProperties DEF Inv, TypeOK, Accumulator, ProfileType
<1>2. acc' = Advanced(acc, pass)
  BY DEF ClosePass
<1>3. after = IF acc.proposed = None THEN before
              ELSE Fold(before, acc.proposed[1], Bounds)
  BY <1>1 DEF Advanced, Accumulator
<1> HIDE DEF after
<1>4. CASE acc.proposed = None
  <2>1. after = before
    BY <1>3, <1>4
  <2>2. Revised(before, before) = << >>
    <3>1. 1 .. Len(before.history) - old = {}
      BY <1>1
    <3> QED  BY <3>1 DEF Revised
  <2> QED  BY <1>2, <2>1, <2>2 DEF after
<1>5. CASE acc.proposed # None
  <2> DEFINE change == acc.proposed[1]
             ok == Acceptable(before, change, Bounds)
             entry == [change |-> change, applied |-> ok]
  <2>1. change \in Change
    BY <1>1, <1>5, Options
  <2>2. Recording(before, change, ok, ApplyChange(before, change), after)
    BY <1>1, <1>3, <1>5, <2>1, FoldByCases
  <2>3. after.history = Append(before.history, entry)
    BY <2>2 DEF Recording
  <2>4. entry \in Recorded
    BY <2>1 DEF Recorded, Acceptable
  <2> HIDE DEF entry
  <2>5. Len(after.history) = old + 1 /\ after.history[old + 1] = entry
    BY <1>1, <2>3, <2>4, AppendProperties
  <2>6. Revised(before, after) = [i \in 1 .. 1 |-> Revision(pass, after.history[old + i])]
    <3>1. Len(after.history) - old = 1
      BY <1>1, <2>5
    <3> QED  BY <3>1 DEF Revised
  <2> HIDE DEF old
  <2>7. Revised(before, after) = <<Revision(pass, entry)>>
    BY <2>5, <2>6
  <2> QED  BY <1>2, <2>3, <2>4, <2>7 DEF after
<1> QED  BY <1>4, <1>5

\* A revision is read as the history has it.
LEMMA RevisionRead ==
  ASSUME NEW read, NEW entry \in Recorded, NEW p
  PROVE  LET now == Reading(read, Revision(p, entry))
         IN  /\ now.units = read.units
             /\ now.report.routes = read.report.routes
             /\ now.report.scores = read.report.scores
             /\ now.report.bound = read.report.bound
             /\ now.report.passes = read.report.passes \cup {p}
             /\ now.told.begun = read.told.begun
             /\ now.told.revisions = Append(read.told.revisions, entry)
             /\ now.told.merged = read.told.merged
<1> DEFINE e == Revision(p, entry)
<1>1. /\ e.event \in {"amended", "amendment_refused"} /\ e.pass = p
      /\ e.about = entry.change /\ (e.event = "amended") = entry.applied
      /\ entry = [change |-> entry.change, applied |-> entry.applied]
  BY DEF Revision, Event, Recorded
<1> HIDE DEF e
<1>2. Reading(read, e).units = read.units
  BY <1>1, NoUnit DEF Opens, Closes
<1>3. Reading(read, e).told.revisions = Append(read.told.revisions, entry)
  BY <1>1 DEF Reading, Tally
<1> QED  BY <1>1, <1>2, <1>3 DEF Reading, Note, Tally, e

\* A closed pass leaves the loop for a bound or a route, or goes on bound by none.
LEMMA ClosePassGoesOn ==
  ASSUME Inv, Fit, ClosePass
  PROVE  /\ pc' \in {"plan", "report"}
         /\ pc' = "plan" => bound' = NoBound
         /\ pass' = pass + 1 /\ routes' = routes /\ log' = log
         /\ acc'.counts["passes"] = pass + 1
         /\ \A c \in ArmCounters : acc'.counts[c] = acc.counts[c]
<1> DEFINE closed  == Advanced(acc, pass)
           tripped == Tripped(Narrowed(Budget, closed.profile.caps),
                              MeterPass(meter, acc.last # None))
           stops   == \/ tripped # NoBound
                      \/ IsTerminal(closed)
                      \/ pass + 1 >= Budget["max_iterations"]
<1>1. pc' # "failed"
  BY ClosePassFit
<1>2. /\ pc' = IF stops THEN "report" ELSE "plan"
      /\ ~stops => bound' = tripped
  <2> HIDE DEF tripped, closed
  <2>1. /\ pc' \in {"failed", IF stops THEN "report" ELSE "plan"}
        /\ ~stops => bound' = tripped
    BY Zenon DEF ClosePass, closed, tripped
  <2> QED  BY <1>1, <2>1
<1>3. ~stops => tripped = NoBound
  <2> HIDE DEF tripped, closed
  <2> QED  OBVIOUS
<1>4. /\ pass' = pass + 1 /\ routes' = routes /\ log' = log /\ acc' = closed
  BY DEF ClosePass
<1>5. Accounting'
  BY ClosePassInv DEF Inv
<1>6. acc'.counts["passes"] = pass + 1
  BY <1>1, <1>4, <1>5 DEF Accounting
<1>7. \A c \in ArmCounters : closed.counts[c] = acc.counts[c]
  <2>1. acc \in Accumulator /\ acc.counts \in [Counter -> U32]
    BY DEF Inv, TypeOK, Accumulator
  <2>2. closed.counts = [acc.counts EXCEPT !["passes"] = SatAdd(pass, 1)]
    BY <2>1 DEF Advanced, Accumulator
  <2> HIDE DEF closed
  <2> QED  BY <2>1, <2>2 DEF ArmCounters, Counter
<1> HIDE DEF closed, tripped
<1> QED  BY <1>1, <1>2, <1>3, <1>4, <1>6, <1>7

\* What the end of a pass is recorded as.
Closing ==
  Around("pass", pass) \o Revised(acc.profile, acc'.profile)
    \o <<Event("pass_finished", pass, "")>> \o BoundMet

\* The bound met, if any, in the pass that met it or the next.
LEMMA BoundRead ==
  ASSUME pc' # "failed", NEW count, acc'.counts["passes"] = count
  PROVE  /\ Few(BoundMet)
         /\ bound' = NoBound => BoundMet = << >>
         /\ bound' # NoBound =>
              \E q \in {pass, count} : BoundMet = <<Event("bound_tripped", q, bound')>>
<1>1. CASE bound' = NoBound
  BY <1>1 DEF BoundMet, Few
<1>2. CASE bound' # NoBound
  <2> DEFINE q == IF Tripped(Narrowed(Budget, acc'.profile.caps), meter') # NoBound
                    THEN pass ELSE acc'.counts["passes"]
  <2>1. BoundMet = <<Event("bound_tripped", q, bound')>>
    BY <1>2 DEF BoundMet
  <2>2. q \in {pass, count}
    OBVIOUS
  <2> HIDE DEF q
  <2> QED  BY <1>2, <2>1, <2>2 DEF Few
<1> QED  BY <1>1, <1>2

\* The amendment of a pass enters the history and the journal together, and a bound
\* is reported where it is met.
LEMMA ClosePassJournals ==
  ASSUME Inv, Fit, Journalled, ClosePass, Records(Closing)
  PROVE  Journalled'
<1> DEFINE read == Read(journal)
           d == Event("step_entered", pass, "pass")
           e == Event("step_finished", pass, "pass")
           f == Event("pass_finished", pass, "")
           rev == Revised(acc.profile, acc'.profile)
           one == journal \o <<d, e>>
           two == one \o rev
           three == two \o <<f>>
<1>0. pc = "pass"
  BY DEF ClosePass
<1>1. /\ Legible(journal) /\ Tells(read) /\ read.units = Clear
      /\ pass \in Nat /\ Len(log) \in Nat
  <2>1. Legible(journal) /\ Tells(read)
    BY DEF Journalled
  <2> HIDE DEF read
  <2>2. read.units = Clear
    BY <1>0, <2>1 DEF Tells
  <2> QED  BY <2>1, <2>2, PassesCapped, LenProperties DEF Inv, TypeOK
<1>2. /\ pc' \in {"plan", "report"}
      /\ pc' = "plan" => bound' = NoBound
      /\ pass' = pass + 1 /\ routes' = routes /\ log' = log
      /\ acc'.counts["passes"] = pass + 1
      /\ \A c \in ArmCounters : acc'.counts[c] = acc.counts[c]
  BY ClosePassGoesOn
<1>3. /\ Legible(one) /\ Read(one).units = Clear /\ Stamped(read, Read(one), {pass})
  BY <1>1, RanItsCourse
<1>4. /\ Few(rev)
      /\ \/ acc'.profile.history = acc.profile.history /\ rev = << >>
         \/ \E entry \in Recorded :
              /\ acc'.profile.history = Append(acc.profile.history, entry)
              /\ rev = <<Revision(pass, entry)>>
  BY PassRevises DEF Few
<1>5. /\ Few(BoundMet)
      /\ bound' = NoBound => BoundMet = << >>
      /\ bound' # NoBound =>
           \E q \in {pass, pass + 1} : BoundMet = <<Event("bound_tripped", q, bound')>>
  BY <1>2, BoundRead
<1>6. f.event = "pass_finished" /\ f.pass = pass
  BY DEF Event
<1>7. journal' = three \o BoundMet
  <2>1. Closing = ((<<d, e>> \o rev) \o <<f>>) \o BoundMet
    BY Zenon DEF Closing, Around
  <2>2. journal' = journal \o Closing
    BY Zenon DEF Records
  <2>3. Listed(<<d, e>>) /\ Listed(<<f>>) /\ Listed(rev) /\ Listed(BoundMet) /\ Listed(journal)
    <3> HIDE DEF d, e, f, rev
    <3>1. <<d, e>> \in Seq({d, e}) /\ <<f>> \in Seq({f})
      OBVIOUS
    <3> QED  BY <1>1, <1>4, <1>5, <3>1, ReadsFew DEF Listed, Legible
  <2> DEFINE x == <<d, e>>
             y == <<f>>
  <2> HIDE DEF x, y, rev
  <2>4. Listed(x) /\ Listed(y) /\ Listed(rev) /\ Listed(BoundMet) /\ Listed(journal)
    BY Zenon, <2>3 DEF x, y
  <2>5. Listed(x \o rev) /\ Listed((x \o rev) \o y)
    <3>1. Listed(x \o rev)
      BY <2>4, EndToEnd
    <3> QED  BY <2>4, <3>1, EndToEnd
  <2>6. journal \o (((x \o rev) \o y) \o BoundMet)
          = (journal \o ((x \o rev) \o y)) \o BoundMet
    BY <2>4, <2>5, EndToEnd
  <2>7. journal \o ((x \o rev) \o y) = (journal \o (x \o rev)) \o y
    BY <2>4, <2>5, EndToEnd
  <2>8. journal \o (x \o rev) = (journal \o x) \o rev
    BY <2>4, EndToEnd
  <2> QED  BY Zenon, <2>1, <2>2, <2>6, <2>7, <2>8 DEF x, y
<1>8. /\ Legible(two) /\ Read(two).units = Clear
      /\ Read(two).report.routes = read.report.routes
      /\ Read(two).report.scores = read.report.scores
      /\ Read(two).report.bound = read.report.bound
      /\ Read(two).report.passes = read.report.passes \cup {pass}
      /\ Read(two).told.begun = read.told.begun
      /\ Read(two).told.revisions = acc'.profile.history
      /\ Read(two).told.merged = read.told.merged
  <2>1. read.told.revisions = acc.profile.history
    <3> HIDE DEF read
    <3> QED  BY <1>1 DEF Tells
  <2> DEFINE was == Read(one)
  <2>2. /\ was.units = Clear
        /\ was.report.routes = read.report.routes
        /\ was.report.scores = read.report.scores
        /\ was.report.bound = read.report.bound
        /\ was.report.passes = read.report.passes \cup {pass}
        /\ was.told.begun = read.told.begun
        /\ was.told.revisions = acc.profile.history
        /\ was.told.merged = read.told.merged
    BY <1>3, <2>1 DEF Stamped
  <2> HIDE DEF read, one, rev
  <2>3. Legible(two)
    BY <1>3, <1>4, ReadsFew
  <2>4. CASE acc'.profile.history = acc.profile.history /\ rev = << >>
    <3>1. Read(two) = was
      BY <1>3, <1>4, <2>4, ReadsFew
    <3> HIDE DEF was, two
    <3> QED  BY <2>2, <2>3, <2>4, <3>1
  <2>5. ASSUME NEW entry \in Recorded, rev = <<Revision(pass, entry)>>,
               acc'.profile.history = Append(acc.profile.history, entry)
        PROVE  /\ Read(two).units = Clear
               /\ Read(two).report.routes = read.report.routes
               /\ Read(two).report.scores = read.report.scores
               /\ Read(two).report.bound = read.report.bound
               /\ Read(two).report.passes = read.report.passes \cup {pass}
               /\ Read(two).told.begun = read.told.begun
               /\ Read(two).told.revisions = acc'.profile.history
               /\ Read(two).told.merged = read.told.merged
    <3> DEFINE now == Reading(was, Revision(pass, entry))
    <3>1. Read(two) = now
      BY <1>3, <1>4, <2>5, ReadsFew
    <3> HIDE DEF was, two
    <3>2. /\ now.units = was.units
          /\ now.report.routes = was.report.routes
          /\ now.report.scores = was.report.scores
          /\ now.report.bound = was.report.bound
          /\ now.report.passes = was.report.passes \cup {pass}
          /\ now.told.begun = was.told.begun
          /\ now.told.revisions = Append(was.told.revisions, entry)
          /\ now.told.merged = was.told.merged
      BY RevisionRead
    <3> HIDE DEF now
    <3> QED  BY <2>2, <2>5, <3>1, <3>2
  <2> HIDE DEF was, two
  <2> QED  BY <1>4, <2>3, <2>4, <2>5
<1>9. /\ Legible(three) /\ Read(three).units = Clear
      /\ Stamped(Read(two), Read(three), {pass})
  <2> HIDE DEF f, two
  <2>1. Legible(three) /\ Read(three) = Reading(Read(two), f)
    BY <1>8, ReadsOne
  <2>2. Reading(Read(two), f).units = Read(two).units
    BY <1>6, NoUnit DEF Opens, Closes
  <2>3. Stamped(Read(two), Reading(Read(two), f), {pass})
    BY <1>6, Unremarked
  <2> HIDE DEF three
  <2> QED  BY <1>8, <2>1, <2>2, <2>3
<1>10. /\ Legible(journal') /\ read'.units = Clear
       /\ read'.report.routes = read.report.routes
       /\ read'.report.scores = read.report.scores
       /\ read'.report.bound = IF bound' = NoBound THEN read.report.bound ELSE bound'
       /\ read.report.passes \cup {pass} \subseteq read'.report.passes
       /\ read'.report.passes \subseteq read.report.passes \cup {pass, pass + 1}
       /\ read'.told.begun = read.told.begun
       /\ read'.told.revisions = acc'.profile.history
       /\ read'.told.merged = read.told.merged
  <2> DEFINE was == Read(three)
             now == Read(three \o BoundMet)
  <2>1. /\ was.units = Clear
        /\ was.report.routes = read.report.routes
        /\ was.report.scores = read.report.scores
        /\ was.report.bound = read.report.bound
        /\ was.report.passes = read.report.passes \cup {pass}
        /\ was.told.begun = read.told.begun
        /\ was.told.revisions = acc'.profile.history
        /\ was.told.merged = read.told.merged
    <3> HIDE DEF read, two, three
    <3> QED  BY <1>8, <1>9 DEF Stamped
  <2> HIDE DEF three
  <2>2. Legible(three \o BoundMet)
    BY <1>5, <1>9, ReadsFew
  <2>3. /\ now.units = was.units
        /\ now.report.routes = was.report.routes
        /\ now.report.scores = was.report.scores
        /\ now.report.bound = IF bound' = NoBound THEN was.report.bound ELSE bound'
        /\ was.report.passes \subseteq now.report.passes
        /\ now.report.passes \subseteq was.report.passes \cup {pass, pass + 1}
        /\ now.told.begun = was.told.begun
        /\ now.told.revisions = was.told.revisions
        /\ now.told.merged = was.told.merged
    <3>1. CASE bound' = NoBound
      <4>1. now = was
        BY <1>5, <1>9, <3>1, ReadsFew
      <4> HIDE DEF now, was
      <4> QED  BY <3>1, <4>1
    <3>2. CASE bound' # NoBound
      <4>1. PICK q \in {pass, pass + 1} : BoundMet = <<Event("bound_tripped", q, bound')>>
        BY <1>5, <3>2
      <4> DEFINE b == Event("bound_tripped", q, bound')
      <4>2. b.event = "bound_tripped" /\ b.pass = q /\ b.about = bound'
        BY DEF Event
      <4>3. now = Reading(was, b)
        BY <1>5, <1>9, <4>1, ReadsFew
      <4> HIDE DEF b, now, was
      <4>4. now.units = was.units
        BY <4>2, <4>3, NoUnit DEF Opens, Closes
      <4>5. /\ now.report.routes = was.report.routes
            /\ now.report.scores = was.report.scores
            /\ now.report.bound = bound'
            /\ now.report.passes = was.report.passes \cup {q}
            /\ now.told.begun = was.told.begun
            /\ now.told.revisions = was.told.revisions
            /\ now.told.merged = was.told.merged
        BY <4>2, <4>3 DEF Reading, Note, Tally
      <4> QED  BY <3>2, <4>1, <4>4, <4>5
    <3> QED  BY <3>1, <3>2
  <2>4. read' = now
    BY <1>7
  <2> HIDE DEF now, was, read
  <2> QED  BY <1>7, <2>1, <2>2, <2>3, <2>4
<1> HIDE DEF read, three
<1>11. Tells(read)'
  <2>1. /\ read.report.passes \subseteq 0 .. pass /\ 0 \in read.report.passes
        /\ \A p \in 0 .. pass : p \in read.report.passes
    BY <1>0, <1>1 DEF Tells, Clocked
  <2>2. /\ read'.report.passes \subseteq 0 .. pass + 1 /\ 0 \in read'.report.passes
        /\ \A p \in 0 .. pass : p \in read'.report.passes
    <3>1. 0 .. pass \subseteq 0 .. pass + 1 /\ {pass, pass + 1} \subseteq 0 .. pass + 1
      BY <1>1
    <3> QED  BY <1>10, <2>1, <3>1
  <2>3. Clocked(read.report.passes)'
    <3>1. 0 .. pass' - 1 = 0 .. pass /\ 0 .. pass' = 0 .. pass + 1
      BY <1>1, <1>2
    <3>2. read'.report.passes \subseteq 0 .. pass'
          /\ \A p \in 0 .. pass' - 1 : p \in read'.report.passes
      BY <2>2, <3>1
    <3> QED  BY <1>2, <2>2, <3>2 DEF Clocked
  <2>4. /\ read.report.routes = routes /\ read.told.begun = Len(log)
        /\ Listed(read.report.scores) /\ Len(read.report.scores) = Len(routes)
        /\ read.report.bound = bound
        /\ \A c \in ArmCounters : acc.counts[c] = read.told.merged[c]
    BY <1>0, <1>1 DEF Tells, ArmCounters
  <2>5. bound = NoBound
    BY <1>0 DEF Journalled, Working
  <2>6. /\ read'.report.bound = bound' /\ read'.told.begun = Len(log')
        /\ \A c \in ArmCounters : acc'.counts[c] = read'.told.merged[c]
    BY <1>2, <1>10, <2>4, <2>5
  <2> QED  BY <1>1, <1>2, <1>10, <2>3, <2>4, <2>6 DEF Tells, ArmCounters
<1> QED  BY <1>2, <1>10, <1>11 DEF Journalled, read, Working

\* What the end of a run is recorded as.
Reported == Around("report", acc.counts["passes"])
              \o <<Event("loop_finished", acc.counts["passes"], outcome')>>

\* A run that is over has every pass on the clock.
LEMMA ReportJournals ==
  ASSUME Inv, Journalled, Report, Records(Reported)
  PROVE  Journalled'
<1> DEFINE read == Read(journal)
           d == Event("step_entered", pass, "report")
           e == Event("step_finished", pass, "report")
           f == Event("loop_finished", pass, outcome')
           one == journal \o <<d, e>>
<1>0. pc = "report" /\ acc.counts["passes"] = pass
  <2>1. pc = "report"
    BY DEF Report
  <2> QED  BY <2>1 DEF Inv, Accounting
<1>1. /\ Legible(journal) /\ Tells(read) /\ read.units = Clear
      /\ pass \in Nat /\ Len(log) \in Nat
  <2>1. Legible(journal) /\ Tells(read)
    BY DEF Journalled
  <2> HIDE DEF read
  <2>2. read.units = Clear
    BY <1>0, <2>1 DEF Tells
  <2> QED  BY <2>1, <2>2, PassesCapped, LenProperties DEF Inv, TypeOK
<1>2. journal' = one \o <<f>>
  <2>1. Reported = <<d, e>> \o <<f>>
    BY Zenon, <1>0 DEF Reported, Around
  <2>2. journal' = journal \o Reported
    BY Zenon DEF Records
  <2>3. Listed(<<d, e>>) /\ Listed(<<f>>) /\ Listed(journal)
    <3> HIDE DEF d, e, f
    <3>1. <<d, e>> \in Seq({d, e}) /\ <<f>> \in Seq({f})
      OBVIOUS
    <3> QED  BY <1>1, <3>1 DEF Listed, Legible
  <2> DEFINE x == <<d, e>>
             y == <<f>>
  <2> HIDE DEF x, y
  <2>4. Listed(x) /\ Listed(y) /\ Listed(journal)
    BY Zenon, <2>3 DEF x, y
  <2>5. journal \o (x \o y) = (journal \o x) \o y
    BY <2>4, EndToEnd
  <2> QED  BY Zenon, <2>1, <2>2, <2>5 DEF x, y
<1>3. /\ Legible(one) /\ Read(one).units = Clear /\ Stamped(read, Read(one), {pass})
  BY <1>1, RanItsCourse
<1>4. Legible(journal') /\ read' = Reading(Read(one), f)
  <2> HIDE DEF one, f
  <2>1. Legible(one \o <<f>>) /\ Read(one \o <<f>>) = Reading(Read(one), f)
    BY <1>3, ReadsOne
  <2> QED  BY <1>2, <2>1
<1>5. read'.units = Clear /\ Stamped(read, read', {pass})
  <2> DEFINE was == Read(one)
  <2>1. f.event = "loop_finished" /\ f.pass = pass
    BY DEF Event
  <2>2. Stamped(read, was, {pass}) /\ was.units = Clear
    BY <1>3
  <2>3. read' = Reading(was, f)
    BY <1>4
  <2> HIDE DEF f, was, read
  <2>4. Reading(was, f).units = Clear /\ Stamped(was, Reading(was, f), {pass})
    BY <2>1, <2>2, NoUnit, Unremarked DEF Opens, Closes
  <2> QED  BY <2>2, <2>3, <2>4, StampedTwice
<1>6. /\ pc' = "done" /\ pass' = pass /\ routes' = routes /\ bound' = bound
      /\ acc' = acc /\ log' = log
  BY DEF Report
<1> HIDE DEF read
<1>7. Tells(read)'
  <2>1. Clocked(read.report.passes)
    BY <1>1 DEF Tells
  <2>2. read'.report.passes = read.report.passes \cup {pass}
    BY <1>5 DEF Stamped
  <2>3. Clocked(read.report.passes)'
    <3>1. read.report.passes \subseteq 0 .. pass /\ 0 \in read.report.passes
          /\ \A p \in 0 .. pass - 1 : p \in read.report.passes
      BY <1>0, <2>1 DEF Clocked
    <3>2. pass \in 0 .. pass
      BY <1>1
    <3>3. read'.report.passes \subseteq 0 .. pass /\ 0 \in read'.report.passes
          /\ pass \in read'.report.passes
          /\ \A p \in 0 .. pass - 1 : p \in read'.report.passes
      BY <2>2, <3>1, <3>2
    <3> QED  BY <1>6, <3>3 DEF Clocked
  <2>4. read.told.begun = Len(log)
    BY <1>0, <1>1 DEF Tells
  <2> QED  BY <1>1, <1>5, <1>6, <2>3, <2>4 DEF Tells, Stamped
<1> QED  BY <1>4, <1>6, <1>7 DEF Journalled, read, Working

\* What raised, and what it was.
Raising == CASE pc = "research" -> "research" [] pc = "attempt" -> "attempt"
             [] pc = "evaluate" -> "tune" [] pc = "report" -> "report"
             [] OTHER -> "plan"

\* The unit it was raised in.
Opened == Event(IF pc = "evaluate" THEN "arm_started" ELSE "step_entered", pass, Raising)

\* It is the last event of what is on record.
LEMMA RaisedReads ==
  ASSUME Inv, Journalled, StepFails
  PROVE  Raised = IF pc = "plan" THEN <<Event("pass_started", pass, ""), Opened>>
                  ELSE <<Opened>>
<1>1. /\ pc \in {"plan_first", "research", "plan", "attempt", "evaluate", "report"}
      /\ pc \in {"plan_first", "research"} => pass = 0
  BY DEF StepFails, Journalled
<1>2. CASE pc = "plan_first"
  BY Zenon, <1>1, <1>2 DEF Raised, Opened, Raising
<1>3. CASE pc = "research"
  BY Zenon, <1>1, <1>3 DEF Raised, Opened, Raising
<1>4. CASE pc = "plan"
  BY Zenon, <1>4 DEF Raised, Opened, Raising
<1>5. CASE pc = "attempt"
  BY Zenon, <1>5 DEF Raised, Opened, Raising
<1>6. CASE pc = "evaluate"
  BY Zenon, <1>6 DEF Raised, Opened, Raising
<1>7. CASE pc = "report"
  <2>1. acc.counts["passes"] = pass
    BY <1>7 DEF Inv, Accounting
  <2> QED  BY Zenon, <1>7, <2>1 DEF Raised, Opened, Raising
<1> QED  BY <1>1, <1>2, <1>3, <1>4, <1>5, <1>6, <1>7

\* A run given up leaves the unit that raised open, after the pass's own event
\* when the plan inside the loop raised.
LEMMA StepFailsJournals ==
  ASSUME Inv, Journalled, StepFails, Records(Raised)
  PROVE  Journalled'
<1> DEFINE read == Read(journal)
           begun == Event("pass_started", pass, "")
           mid == IF pc = "plan" THEN Reading(read, begun) ELSE read
<1>0. /\ pc \in {"plan_first", "research", "plan", "attempt", "evaluate", "report"}
      /\ pc' = "failed" /\ pass' = pass /\ routes' = routes /\ bound' = bound
      /\ acc' = acc /\ log' = log
  BY DEF StepFails
<1>1. /\ Legible(journal) /\ Tells(read) /\ read.units = Clear
      /\ pass \in Nat /\ Len(log) \in Nat
  <2>1. Legible(journal) /\ Tells(read)
    BY DEF Journalled
  <2> HIDE DEF read
  <2>2. read.units = Clear
    BY <1>0, <2>1 DEF Tells
  <2> QED  BY <2>1, <2>2, PassesCapped, LenProperties DEF Inv, TypeOK
<1>2. /\ Len(log) = IF pc = "evaluate" THEN pass + 1 ELSE pass
      /\ pc = "attempt" => read.told.begun = Len(log) + 1
  <2> HIDE DEF read
  <2> QED  BY <1>0, <1>1 DEF Inv, Accounting, Tells
<1>3. Legible(journal') /\ read' = Reading(mid, Opened)
  <2>1. journal' = journal \o (IF pc = "plan" THEN <<begun, Opened>> ELSE <<Opened>>)
    BY Zenon, RaisedReads DEF Records
  <2> DEFINE e == Opened
  <2> HIDE DEF begun, e
  <2>2. CASE pc = "plan"
    <3>1. /\ Legible(journal \o <<begun, e>>)
          /\ Read(journal \o <<begun, e>>) = Reading(Reading(read, begun), e)
      BY <1>1, ReadsPair
    <3> QED  BY Zenon, <2>1, <2>2, <3>1 DEF e
  <2>3. CASE pc # "plan"
    <3>1. Legible(journal \o <<e>>) /\ Read(journal \o <<e>>) = Reading(read, e)
      BY <1>1, ReadsOne
    <3> QED  BY Zenon, <2>1, <2>3, <3>1 DEF e
  <2> QED  BY <2>2, <2>3
<1>4. /\ mid.units = Clear
      /\ mid.report.routes = read.report.routes
      /\ mid.report.scores = read.report.scores
      /\ mid.report.bound = read.report.bound
      /\ mid.report.passes \subseteq read.report.passes \cup {pass}
      /\ pc # "plan" => mid.told.begun = read.told.begun
      /\ mid.told.revisions = read.told.revisions
      /\ mid.told.merged = read.told.merged
  <2> DEFINE now == Reading(read, begun)
  <2>1. begun.event = "pass_started" /\ begun.pass = pass
    BY DEF Event
  <2> HIDE DEF begun
  <2>2. now.units = Clear
    BY <1>1, <2>1, NoUnit DEF Opens, Closes
  <2>3. /\ now.report.routes = read.report.routes
        /\ now.report.scores = read.report.scores
        /\ now.report.bound = read.report.bound
        /\ now.report.passes = read.report.passes \cup {pass}
        /\ now.told.revisions = read.told.revisions
        /\ now.told.merged = read.told.merged
    BY <2>1 DEF Reading, Note, Tally
  <2>4. mid = IF pc = "plan" THEN now ELSE read
    OBVIOUS
  <2> HIDE DEF now, read, mid
  <2>5. CASE pc = "plan"
    BY <2>2, <2>3, <2>4, <2>5
  <2>6. CASE pc # "plan"
    <3>1. mid = read
      BY <2>4, <2>6
    <3> QED  BY <1>1, <2>6, <3>1
  <2> QED  BY <2>5, <2>6
<1> DEFINE u == [pass |-> pass, name |-> Raising, unit |-> Unit(Opened)]
<1>5. /\ read'.units = [open |-> <<u>>, orphans |-> << >>]
      /\ Stamped(mid, read', {pass})
      /\ u.unit = IF pc = "evaluate" THEN "arm" ELSE "step"
  <2>1. /\ Opened.pass = pass /\ Opened.about = Raising /\ Opens(Opened)
        /\ Opened.event = IF pc = "evaluate" THEN "arm_started" ELSE "step_entered"
    BY DEF Opened, Event, Opens
  <2> DEFINE e == Opened
  <2>2. /\ e.pass = pass /\ e.about = Raising /\ Opens(e)
        /\ e.event = IF pc = "evaluate" THEN "arm_started" ELSE "step_entered"
    BY <2>1
  <2>3. Unit(e) = IF pc = "evaluate" THEN "arm" ELSE "step"
    BY <2>2 DEF Unit
  <2>4. read' = Reading(mid, e)
    BY <1>3
  <2> HIDE DEF e, mid, read
  <2>5. /\ Reading(mid, e).units
             = [open |-> <<[pass |-> e.pass, name |-> e.about, unit |-> Unit(e)]>>,
                orphans |-> << >>]
        /\ Stamped(mid, Reading(mid, e), {e.pass})
    BY <1>4, <2>2, Begun, Unremarked
  <2>6. u = [pass |-> e.pass, name |-> e.about, unit |-> Unit(e)]
    BY <2>2 DEF e
  <2> QED  BY <2>2, <2>3, <2>4, <2>5, <2>6
<1>6. Raising = "attempt" => pc = "attempt"
  BY <1>0 DEF Raising
<1>7. u.pass = pass /\ u.name = Raising
  OBVIOUS
<1> HIDE DEF read, mid, u
<1>8. Tells(read)'
  <2>1. read.report.passes \subseteq 0 .. pass
    BY <1>1 DEF Tells, Clocked
  <2>2. read'.report.passes \subseteq 0 .. pass
    BY <1>1, <1>4, <1>5, <2>1 DEF Stamped
  <2>3. Clocked(read.report.passes)'
    BY <1>0, <2>2 DEF Clocked
  <2>4. Stuck(read.units, read.told.begun)'
    <3>1. u.unit = "arm" <=> Len(log) > pass
      BY <1>1, <1>2, <1>5
    <3>2. u.name = "attempt" => read'.told.begun = Len(log) + 1
      BY <1>2, <1>4, <1>5, <1>6, <1>7 DEF Stamped
    <3> QED  BY <1>0, <1>5, <1>7, <3>1, <3>2 DEF Stuck
  <2> QED  BY <1>0, <1>1, <1>4, <1>5, <2>3, <2>4 DEF Tells, Stamped
<1> QED  BY <1>0, <1>3, <1>8 DEF Journalled, read, Working

\* Every step of the driver leaves the journal telling of it.
LEMMA JournalledStep ==
  Inv /\ Fit /\ Handed /\ Journalled /\ [JournalNext]_journalled => Journalled'
<1> SUFFICES ASSUME Inv, Fit, Handed, Journalled, [JournalNext]_journalled
             PROVE  Journalled'
  OBVIOUS
<1>1. CASE PlanFirst /\ Records(Around("plan", 0))
  BY <1>1, PreparingJournals
<1>2. CASE Research /\ Records(Around("research", 0))
  BY <1>2, PreparingJournals
<1>3. CASE BeginPass /\ Records(Opening)
  BY <1>3, BeginPassJournals
<1>4. CASE \E r \in Reports : Attempt(r) /\ Records(Around("attempt", pass))
  BY <1>4, AttemptJournals
<1>5. ASSUME NEW arm \in Arms, ArmStep(arm),
             Records(<<Event("arm_started", pass, arm), Event("arm_finished", pass, arm)>>)
      PROVE  Journalled'
  BY <1>5, ArmStepJournals
<1>6. CASE Converge /\ Records(Merging)
  BY <1>6, ConvergeJournals
<1>7. CASE ClosePass /\ Records(Closing)
  BY <1>7, ClosePassJournals
<1>8. CASE Report /\ Records(Reported)
  BY <1>8, ReportJournals
<1>9. CASE StepFails /\ Records(Raised)
  BY <1>9, StepFailsJournals
<1>10. CASE UNCHANGED journalled
  BY <1>10 DEF journalled, vars, Journalled, Tells, Clocked, Stuck, Working
<1>11. \/ PlanFirst /\ Records(Around("plan", 0))
       \/ Research /\ Records(Around("research", 0))
       \/ BeginPass /\ Records(Opening)
       \/ \E r \in Reports : Attempt(r) /\ Records(Around("attempt", pass))
       \/ \E arm \in Arms :
            /\ ArmStep(arm)
            /\ Records(<<Event("arm_started", pass, arm), Event("arm_finished", pass, arm)>>)
       \/ Converge /\ Records(Merging)
       \/ ClosePass /\ Records(Closing)
       \/ Report /\ Records(Reported)
       \/ StepFails /\ Records(Raised)
       \/ UNCHANGED journalled
  BY Zenon DEF JournalNext, Opening, Merging, Closing, Reported
<1> QED
  BY Zenon, <1>1, <1>2, <1>3, <1>4, <1>5, <1>6, <1>7, <1>8, <1>9, <1>10, <1>11

\* So it always does.
LEMMA JournalledAlways == JournalSpec => [](Inv /\ Journalled)
<1>1. JournalInit => Init
  BY DEF JournalInit
<1> QED
  BY <1>1, InvInit, InvStep, FitInit, FitStep, HandedInit, HandedStep, JournalledInit,
     JournalledSteps, JournalledStep, PTL DEF JournalSpec

(***************************************************************************)
(* OpenUnitsNameTheFailure holds of every journalled run: nothing is open  *)
(* between two steps, so the unit a failure leaves open is the one that    *)
(* raised (observe/mod.rs:597).                                            *)
(***************************************************************************)
THEOREM JournalNamesTheFailure == JournalSpec => []OpenUnitsNameTheFailure
<1>1. Inv /\ Journalled => OpenUnitsNameTheFailure
  BY JournalledTells
<1> QED  BY <1>1, JournalledAlways, PTL

(***************************************************************************)
(* ReportTellsTheRun holds of every journalled run: the report read back   *)
(* from the journal has the run's own bound, routes and revisions, and the *)
(* movements merged add up to the counters (presets/assembled.rs:441).     *)
(***************************************************************************)
THEOREM JournalTellsTheRun == JournalSpec => []ReportTellsTheRun
<1>1. Inv /\ Journalled => ReportTellsTheRun
  BY JournalledTells
<1> QED  BY <1>1, JournalledAlways, PTL
=============================================================================
