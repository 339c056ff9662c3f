------------------------------ MODULE LoopFold ------------------------------
(***************************************************************************)
(* How the candidates a pass's arms return become one accumulator          *)
(* (state/mod.rs, state/types.rs, arm/mod.rs): counters by summed          *)
(* movement against a shared base, latches by vote, narrative by exclusive *)
(* ownership.                                                              *)
(*                                                                         *)
(* An option is a sequence of length zero or one.  A lesson is the         *)
(* sequence of its lines, so that joining several is a concatenation.      *)
(* Arm names are numbers in the order the code's names sort.               *)
(***************************************************************************)
EXTENDS Policy, Sequences, SequencesExt

None == << >>
Some(x) == <<x>>

Judgement == {"proceed", "steer", "restart"}

\* The fields the narrative claims of an arm can touch.
NarrativeField == {"lesson", "steer", "score", "judged", "last_attempt",
                   "amendment"}

-----------------------------------------------------------------------------
(* Counters and latches.                                                   *)

\* What `now` did to `was`; a latch votes only when it moved.
DeltaFrom(now, was) ==
  [counts  |-> [c \in Counter |-> now.counts[c] - was.counts[c]],
   solved  |-> IF now.solved # was.solved THEN Some(now.solved) ELSE None,
   expired |-> IF now.expired # was.expired THEN Some(now.expired) ELSE None]

\* Mutant of Total: the last arm's movement overwrites the others'.
LastTotal(deltas, c) == deltas[Len(deltas)].counts[c]

Total(deltas, c) ==
  LET sum[n \in 0 .. Len(deltas)] ==
        IF n = 0 THEN 0 ELSE sum[n - 1] + deltas[n].counts[c]
  IN  sum[Len(deltas)]

Shift(base, movement) == Clamped(base + movement, MaxU32)

\* A vote to conclude wins over a vote not to, whatever order they came in.
Latch(base, votes) ==
  IF Some(TRUE) \in votes THEN TRUE
  ELSE IF Some(FALSE) \in votes THEN FALSE ELSE base

Apply(base, deltas) ==
  [base EXCEPT
     !.counts  = [c \in Counter |-> Shift(@[c], Total(deltas, c))],
     !.solved  = Latch(@, {deltas[i].solved : i \in DOMAIN deltas}),
     !.expired = Latch(@, {deltas[i].expired : i \in DOMAIN deltas})]

-----------------------------------------------------------------------------
(* Narrative.                                                              *)

NoClaims == [f \in NarrativeField |-> None]

\* What an arm's candidate claims: the fields that differ from the base.
ClaimedFrom(base, candidate) ==
  LET Changed(now, was) == IF now # was THEN Some(now) ELSE None
      Grew(now, was)    == Len(now) > Len(was)
      Lessons           == SubSeq(candidate.lessons, Len(base.lessons) + 1,
                                  Len(candidate.lessons))
  IN  [lesson       |-> IF Grew(candidate.lessons, base.lessons)
                          THEN Some(FlattenSeq(Lessons)) ELSE None,
       steer        |-> Changed(candidate.steer, base.steer),
       score        |-> IF Grew(candidate.scores, base.scores)
                          THEN Some(candidate.scores[Len(base.scores) + 1])
                          ELSE None,
       judged       |-> Changed(candidate.judged, base.judged),
       last_attempt |-> Changed(candidate.last, base.last),
       amendment    |-> IF candidate.proposed = base.proposed
                          THEN None ELSE candidate.proposed]

\* Writes claims onto a state: a lesson and a score are appended, every other
\* claimed field is replaced.
Claim(state, claims) ==
  LET Replaced(was, f) == IF claims[f] = None THEN was ELSE claims[f][1]
  IN  [state EXCEPT !.lessons  = @ \o claims["lesson"],
                    !.scores   = @ \o claims["score"],
                    !.steer    = Replaced(@, "steer"),
                    !.judged   = Replaced(@, "judged"),
                    !.last     = Replaced(@, "last_attempt"),
                    !.proposed = IF claims["amendment"] = None
                                   THEN @ ELSE claims["amendment"]]

\* Puts together the claims nobody contests.
Pooled(claims) ==
  [f \in NarrativeField |->
     LET held == {claims[i][f] : i \in DOMAIN claims} \ {None}
     IN  IF held = {} THEN None ELSE CHOOSE claim \in held : TRUE]

-----------------------------------------------------------------------------
(* The barrier.  `arrived` lists [arm, candidate] pairs in the order the   *)
(* arms finished; the fold sorts them by arm before it does anything.      *)

\* How many outcomes stand no later than the i-th, by arm and, within an arm,
\* as they arrived: its place once they are sorted by that key.
Place(arrived, i) ==
  Cardinality({j \in DOMAIN arrived :
                 \/ arrived[j].arm < arrived[i].arm
                 \/ arrived[j].arm = arrived[i].arm /\ j <= i})

\* Mutant of Sorted: the fold takes the arms as they finished.
AsArrived(arrived) == arrived

Sorted(arrived) ==
  [k \in DOMAIN arrived |->
     arrived[CHOOSE i \in DOMAIN arrived : Place(arrived, i) = k]]

\* Mutant of Contesting: two writers of one field are not refused.
NoneContesting(claims) == {}

\* Fold positions whose claims meet a field an earlier one already holds.
Contesting(claims) ==
  {i \in DOMAIN claims : \E j \in 1 .. i - 1 : \E f \in NarrativeField :
     claims[i][f] # None /\ claims[j][f] # None}

\* A folded state, or an error naming the first arm that wrote a held field.
Merge(base, arrived) ==
  LET outcomes == Sorted(arrived)
      deltas   == [i \in DOMAIN outcomes |->
                     DeltaFrom(outcomes[i].candidate, base)]
      claims   == [i \in DOMAIN outcomes |->
                     ClaimedFrom(base, outcomes[i].candidate)]
      refused  == Contesting(claims)
  IN  IF refused # {}
        THEN [ok |-> FALSE, state |-> base, also |-> outcomes[Min(refused)].arm]
        ELSE [ok |-> TRUE, also |-> 0,
              state |-> Claim(Apply(base, deltas), Pooled(claims))]
=============================================================================
