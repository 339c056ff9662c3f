------------------------------- MODULE FanIn -------------------------------
(***************************************************************************)
(* One superstep of evaluation arms (arm/mod.rs, arm/types.rs,             *)
(* presets/steps.rs): every arm is handed the same accumulator, runs when  *)
(* its work lets it, and returns a whole candidate; the barrier folds      *)
(* exactly the declared arms once all of them are in.  Arms here are the   *)
(* ones a host may write: they bump or reset counters, conclude, and write *)
(* any narrative field.                                                    *)
(***************************************************************************)
EXTENDS LoopFold

CONSTANTS
  Arms,                \* the declared arms, as numbers in name order
  Concluders,          \* the arms that say they may end the run
  Tuners,              \* the arms whose type can propose an amendment
  Bases,               \* the accumulators a superstep may start from
  Moves                \* what an arm's body may do

\* As much of a LoopState as the fold reads.
Accumulator ==
  [counts  : [Counter -> U32], solved : BOOLEAN, expired : BOOLEAN,
   lessons : Seq(Seq(Nat)), scores : Seq(Nat), steer : Nat, judged : Judgement,
   last    : Nat, proposed : Seq(Nat),
   profile : [thresholds : Thresholds, muted : SUBSET Nat]]

ASSUME ArmsAssumption ==
  /\ Arms \subseteq Nat /\ Concluders \subseteq Arms /\ Tuners \subseteq Arms
  /\ Bases \subseteq Accumulator

VARIABLES
  base,                \* the attempt's output, shared by every arm
  moved,               \* what each finished arm did
  arrived,             \* [arm, candidate] pairs, in finishing order
  merged               \* the barrier's result, an option

barrierVars == <<base, moved, arrived, merged>>

-----------------------------------------------------------------------------
(* An arm's body, and the step that runs it.                               *)

\* The steer every arm writes, and the accumulator's when it carries none.
Correction == 1
NoSteer    == 0

StepOn(kind, n) ==
  CASE kind = "bump" -> SatAdd(n, 1) [] kind = "reset" -> 0 [] OTHER -> n

\* The contribution of an arm that writes these fields.
Contribution(arm, writes) ==
  [f \in NarrativeField |->
     IF f \notin writes THEN None
     ELSE CASE f = "lesson"       -> Some(<<arm>>)
            [] f = "steer"        -> Some(Correction)
            [] f = "score"        -> Some(arm)
            [] f = "judged"       -> Some("steer")
            [] f = "last_attempt" -> Some(arm)
            [] f = "amendment"    -> Some(arm)]

\* A muted arm's node still runs, and returns its input.
Muted(arm) == arm \in base.profile.muted

\* The state and the contribution folded into it, which is all a node returns.
Candidate(arm, move) ==
  LET state == [base EXCEPT
        !.counts = [c \in Counter |-> IF c \in DOMAIN move.steps
                                        THEN StepOn(move.steps[c], @[c])
                                        ELSE @[c]],
        !.solved = @ \/ move.concludes]
  IN  IF Muted(arm) THEN base ELSE Claim(state, Contribution(arm, move.writes))

-----------------------------------------------------------------------------
Finished == {arrived[i].arm : i \in DOMAIN arrived}

\* ArmSet::new: some arm, one at most of each privilege.  The first is asked
\* for here and never again: a fold takes any arm's conclusion.
Declarable ==
  /\ Arms # {}
  /\ \A Privileged \in {Concluders, Tuners} : \A a, b \in Privileged : a = b

BarrierInit ==
  /\ Declarable
  /\ base \in Bases
  /\ moved = << >>
  /\ arrived = << >>
  /\ merged = None

ArmStep(arm) ==
  /\ arm \notin Finished
  /\ \E move \in Moves :
       /\ "amendment" \in move.writes => arm \in Tuners
       /\ moved' = [a \in Finished \cup {arm} |->
                      IF a = arm THEN move ELSE moved[a]]
       /\ arrived' = Append(arrived,
                       [arm |-> arm, candidate |-> Candidate(arm, move)])
  /\ UNCHANGED <<base, merged>>

\* ArmSet::merge refuses a fold that is missing a declared arm.
Converge ==
  /\ Finished = Arms
  /\ merged = None
  /\ merged' = Some(Merge(base, arrived))
  /\ UNCHANGED <<base, moved, arrived>>

BarrierNext == Converge \/ \E arm \in Arms : ArmStep(arm)

BarrierSpec == BarrierInit /\ [][BarrierNext]_barrierVars

-----------------------------------------------------------------------------
Done   == merged # None
Folded == Done /\ merged[1].ok
Result == merged[1].state

(***************************************************************************)
(* BarrierTypeOK: the barrier holds one outcome per arm at most, and       *)
(* whatever it folds keeps its counters inside a u32 and its verdict in    *)
(* the vocabulary.                                                         *)
(***************************************************************************)
BarrierTypeOK ==
  /\ Finished \subseteq Arms
  /\ Len(arrived) = Cardinality(Finished)
  /\ DOMAIN moved = Finished
  /\ Folded => /\ Result.counts \in [Counter -> U32]
               /\ Result.judged \in Judgement

(***************************************************************************)
(* OrderIndependent: the fold answers the same, an error and the arm it    *)
(* names included, for every order in which the same arms could have       *)
(* finished.                                                               *)
(***************************************************************************)
OrderIndependent ==
  Done => \A order \in SetToSeqs(Finished) :
            LET Of(a) == CHOOSE o \in ToSet(arrived) : o.arm = a
            IN  Merge(base, [i \in DOMAIN order |-> Of(order[i])])
                  = merged[1]

(***************************************************************************)
(* Linearizes: a counter comes out of a superstep as if the arms had run   *)
(* one after another in some order, so no bump and no reset is lost to a   *)
(* race, at zero and at u32::MAX too.                                      *)
(***************************************************************************)
Ran(c) == {a \in Finished : ~Muted(a) /\ c \in DOMAIN moved[a].steps}

Serially(order, c) ==
  LET count[n \in 0 .. Len(order)] ==
        IF n = 0 THEN base.counts[c]
        ELSE StepOn(moved[order[n]].steps[c], count[n - 1])
  IN  count[Len(order)]

Linearizes ==
  Folded => \A c \in Counter : \E order \in SetToSeqs(Ran(c)) :
              Result.counts[c] = Serially(order, c)

(***************************************************************************)
(* ExclusiveNarrative: the claims an arm folds into its candidate are read *)
(* back at the barrier.  A field only one arm wrote reaches the            *)
(* accumulator, a field two arms wrote is refused, and a field re-written  *)
(* with the value it held is nobody's.                                     *)
(***************************************************************************)
Rewrite(f, a) ==
  \/ f = "steer" /\ base.steer = Correction
  \/ f = "judged" /\ base.judged = "steer"
  \/ f = "last_attempt" /\ base.last = a
  \/ f = "amendment" /\ base.proposed = Some(a)

Writers(f) ==
  {a \in Finished : ~Muted(a) /\ f \in moved[a].writes /\ ~Rewrite(f, a)}

Landed(f, a) ==
  CASE f = "lesson"       -> Result.lessons = Append(base.lessons, <<a>>)
    [] f = "steer"        -> Result.steer = Correction
    [] f = "score"        -> Result.scores = Append(base.scores, a)
    [] f = "judged"       -> Result.judged = "steer"
    [] f = "last_attempt" -> Result.last = a
    [] f = "amendment"    -> Result.proposed = Some(a)

ExclusiveNarrative ==
  Done => IF \E f \in NarrativeField : Cardinality(Writers(f)) > 1
            THEN ~merged[1].ok
            ELSE /\ merged[1].ok
                 /\ \A f \in NarrativeField : \A a \in Writers(f) : Landed(f, a)
=============================================================================
