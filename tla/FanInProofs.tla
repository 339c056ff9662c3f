---------------------------- MODULE FanInProofs ----------------------------
(***************************************************************************)
(* The barrier, for any number of arms, any base and anything the arms     *)
(* write: what it folds does not depend on the order they finished in,     *)
(* each counter comes out as if they had run one after another, and each   *)
(* narrative field reaches the accumulator from its only writer.           *)
(***************************************************************************)
EXTENDS FanIn, Chaining, FiniteSetTheorems, SequenceTheorems

-----------------------------------------------------------------------------
(* Sorting.  Outcomes are known here by their arms alone.                  *)

Outcomes(C) == [arm : Nat, candidate : C]

\* The outcomes that stand no later than the i-th.
UpTo(s, i) == {j \in DOMAIN s : \/ s[j].arm < s[i].arm
                                \/ s[j].arm = s[i].arm /\ j <= i}

\* Every outcome has a place of its own, and every place is taken.
LEMMA PlacesArePermuted ==
  ASSUME NEW C, NEW s \in Seq(Outcomes(C))
  PROVE  /\ \A i \in DOMAIN s : Place(s, i) \in DOMAIN s
         /\ \A i, j \in DOMAIN s : Place(s, i) = Place(s, j) => i = j
         /\ \A k \in DOMAIN s : \E i \in DOMAIN s : Place(s, i) = k
<1> DEFINE n == Len(s)
<1>1. n \in Nat /\ DOMAIN s = 1 .. n /\ \A i \in 1 .. n : s[i].arm \in Nat
  <2>1. n \in Nat /\ DOMAIN s = 1 .. n /\ \A i \in 1 .. n : s[i] \in Outcomes(C)
    BY ElementOfSeq, LenProperties
  <2> QED  BY <2>1 DEF Outcomes
<1>2. IsFiniteSet(1 .. n) /\ Cardinality(1 .. n) = n
  <2>1. n \in Nat
    BY <1>1
  <2> HIDE DEF n
  <2> QED  BY <2>1, FS_Interval
<1>3. \A i \in 1 .. n : /\ Place(s, i) = Cardinality(UpTo(s, i))
                        /\ i \in UpTo(s, i)
                        /\ UpTo(s, i) \in SUBSET (1 .. n)
  BY <1>1 DEF Place, UpTo
<1>4. \A i \in 1 .. n : /\ Place(s, i) \in 1 .. n
                        /\ IsFiniteSet(UpTo(s, i))
  <2> TAKE i \in 1 .. n
  <2>1. IsFiniteSet(UpTo(s, i)) /\ Cardinality(UpTo(s, i)) <= n
    BY <1>2, <1>3, FS_Subset
  <2>2. Cardinality(UpTo(s, i)) \in Nat /\ Cardinality(UpTo(s, i)) # 0
    BY <1>3, <2>1, FS_CardinalityType, FS_EmptySet
  <2> QED  BY <1>1, <1>3, <2>1, <2>2
<1>5. ASSUME NEW i \in 1 .. n, NEW j \in 1 .. n,
             Place(s, i) = Place(s, j)
      PROVE  ~ (s[i].arm < s[j].arm \/ (s[i].arm = s[j].arm /\ i < j))
  <2> SUFFICES ASSUME \/ s[i].arm < s[j].arm
                      \/ s[i].arm = s[j].arm /\ i < j
               PROVE  FALSE
    OBVIOUS
  <2>1. s[i].arm \in Nat /\ s[j].arm \in Nat /\ \A k \in 1 .. n : s[k].arm \in Nat
    BY <1>1
  <2>2. UpTo(s, i) \in SUBSET UpTo(s, j)
    BY <1>1, <2>1 DEF UpTo
  <2>3. j \notin UpTo(s, i)
    BY <1>1, <2>1 DEF UpTo
  <2>4. UpTo(s, i) = UpTo(s, j)
    BY <1>3, <1>4, <1>5, <2>2, FS_Subset
  <2> QED  BY <1>3, <2>3, <2>4
<1>6. ASSUME NEW i \in 1 .. n, NEW j \in 1 .. n, Place(s, i) = Place(s, j)
      PROVE  i = j
  <2>1. ~ (s[i].arm < s[j].arm \/ (s[i].arm = s[j].arm /\ i < j))
    BY <1>5, <1>6
  <2>3. ~ (s[j].arm < s[i].arm \/ (s[j].arm = s[i].arm /\ j < i))
    BY <1>5, <1>6
  <2>2. s[i].arm \in Nat /\ s[j].arm \in Nat /\ i \in Nat /\ j \in Nat
    BY <1>1
  <2>4. s[i].arm = s[j].arm
    BY <2>1, <2>2, <2>3
  <2> QED  BY <2>1, <2>2, <2>3, <2>4
<1> DEFINE place == [i \in 1 .. n |-> Place(s, i)]
<1>7. place \in Injection(1 .. n, 1 .. n)
  BY <1>4, <1>6 DEF Injection, IsInjective
<1>8. place \in Surjection(1 .. n, 1 .. n)
  <2> HIDE DEF place
  <2> QED  BY <1>2, <1>7, FS_Injection
<1>9. \A k \in 1 .. n : \E i \in 1 .. n : place[i] = k
  BY <1>8 DEF Surjection
<1> QED  BY <1>1, <1>4, <1>6, <1>9

\* What is sorted rises, and holds each outcome once.
LEMMA SortedSorts ==
  ASSUME NEW C, NEW s \in Seq(Outcomes(C))
  PROVE  /\ DOMAIN Sorted(s) = DOMAIN s
         /\ \A k \in DOMAIN s : \E i \in DOMAIN s :
              Place(s, i) = k /\ Sorted(s)[k] = s[i]
         /\ \A i \in DOMAIN s : Sorted(s)[Place(s, i)] = s[i]
<1>1. ASSUME NEW k \in DOMAIN s, NEW i \in DOMAIN s, Place(s, i) = k
      PROVE  Sorted(s)[k] = s[i]
  <2>1. (CHOOSE j \in DOMAIN s : Place(s, j) = k) = i
    BY <1>1, PlacesArePermuted
  <2> QED  BY <2>1 DEF Sorted
<1> QED  BY <1>1, PlacesArePermuted DEF Sorted

\* Two arrivals of the same outcomes, one of each arm, sort to one sequence:
\* `p` says where the second arrival's outcomes stand in the first.
LEMMA SameSort ==
  ASSUME NEW C, NEW s \in Seq(Outcomes(C)), NEW t \in Seq(Outcomes(C)),
         \A i, j \in DOMAIN s : s[i].arm = s[j].arm => i = j,
         NEW p \in Bijection(DOMAIN t, DOMAIN s),
         DOMAIN t = DOMAIN s,
         \A i \in DOMAIN t : t[i] = s[p[i]]
  PROVE  Sorted(t) = Sorted(s)
<1>1. /\ \A i \in DOMAIN t : p[i] \in DOMAIN s
      /\ \A i, j \in DOMAIN t : p[i] = p[j] => i = j
      /\ \A k \in DOMAIN s : \E i \in DOMAIN t : p[i] = k
  BY DEF Bijection, Injection, Surjection, IsInjective
<1>2. /\ Len(s) \in Nat /\ DOMAIN s = 1 .. Len(s)
      /\ \A i \in DOMAIN s : s[i].arm \in Nat
  <2>1. \A i \in DOMAIN s : s[i] \in Outcomes(C)
    BY ElementOfSeq, LenProperties
  <2> QED  BY <2>1, LenProperties DEF Outcomes
<1>3. \A i \in DOMAIN t : Place(t, i) = Place(s, p[i])
  <2> TAKE i \in DOMAIN t
  <2>1. /\ UpTo(s, p[i]) = {k \in DOMAIN s : s[k].arm <= s[p[i]].arm}
        /\ UpTo(t, i) = {j \in DOMAIN t : s[p[j]].arm <= s[p[i]].arm}
    <3>1. p[i] \in DOMAIN s /\ i \in 1 .. Len(s)
      BY <1>1, <1>2
    <3>2. ASSUME NEW k \in DOMAIN s
          PROVE  (s[k].arm < s[p[i]].arm \/ (s[k].arm = s[p[i]].arm /\ k <= p[i]))
                   <=> s[k].arm <= s[p[i]].arm
      <4>1. s[k].arm = s[p[i]].arm => k = p[i]
        BY <3>1
      <4>2. s[k].arm \in Nat /\ s[p[i]].arm \in Nat /\ p[i] \in Int
        BY <1>2, <3>1
      <4> QED  BY <4>1, <4>2
    <3>3. ASSUME NEW j \in DOMAIN t
          PROVE  (t[j].arm < t[i].arm \/ (t[j].arm = t[i].arm /\ j <= i))
                   <=> s[p[j]].arm <= s[p[i]].arm
      <4>1. p[j] \in DOMAIN s /\ t[j] = s[p[j]] /\ t[i] = s[p[i]]
        BY <1>1
      <4>2. s[p[j]].arm = s[p[i]].arm => j = i
        BY <1>1, <3>1, <4>1
      <4>3. s[p[j]].arm \in Nat /\ s[p[i]].arm \in Nat /\ i \in Int
        BY <1>2, <3>1, <4>1
      <4> QED  BY <4>1, <4>2, <4>3
    <3> QED  BY <3>2, <3>3 DEF UpTo
  <2> DEFINE q == [j \in UpTo(t, i) |-> p[j]]
  <2>2. q \in Bijection(UpTo(t, i), UpTo(s, p[i]))
    BY <1>1, <2>1 DEF Bijection, Injection, Surjection, IsInjective
  <2>3. IsFiniteSet(UpTo(t, i))
    <3>1. IsFiniteSet(DOMAIN t) /\ UpTo(t, i) \in SUBSET DOMAIN t
      BY <1>2, <2>1, FS_Interval
    <3> QED  BY <3>1, FS_Subset
  <2>4. Cardinality(UpTo(s, p[i])) = Cardinality(UpTo(t, i))
    BY <2>2, <2>3, FS_Bijection DEF ExistsBijection
  <2> QED  BY <2>4 DEF Place, UpTo
<1>4. \A k \in DOMAIN s : Sorted(t)[k] = Sorted(s)[k]
  <2> TAKE k \in DOMAIN s
  <2>1. PICK i \in DOMAIN t : Place(t, i) = k /\ Sorted(t)[k] = t[i]
    BY SortedSorts
  <2>2. Place(s, p[i]) = k /\ p[i] \in DOMAIN s
    BY <1>1, <1>3, <2>1
  <2>3. Sorted(s)[k] = s[p[i]]
    BY <2>2, SortedSorts
  <2> QED  BY <2>1, <2>3
<1> QED  BY <1>4 DEF Sorted

-----------------------------------------------------------------------------
(* What the barrier holds: one outcome of an arm at most, and once it has  *)
(* folded, the fold of every arm's.                                        *)

Candidates == {Candidate(a, m) : a \in Arms, m \in Moves}

Gathered ==
  /\ arrived \in Seq([arm : Arms, candidate : Candidates])
  /\ \A i, j \in DOMAIN arrived : arrived[i].arm = arrived[j].arm => i = j
  /\ Done => Finished = Arms /\ merged[1] = Merge(base, arrived)

\* The invariant of the barrier, kept by every arm's step and by the fold.
LEMMA GatheredHolds == BarrierSpec => []Gathered
<1>1. BarrierInit => Gathered
  BY DEF BarrierInit, Gathered, Done
<1>2. Gathered /\ [BarrierNext]_barrierVars => Gathered'
  <2> SUFFICES ASSUME Gathered, [BarrierNext]_barrierVars PROVE Gathered'
    OBVIOUS
  <2>1. ASSUME NEW arm \in Arms, ArmStep(arm) PROVE Gathered'
    <3>1. PICK m \in Moves : arrived' = Append(arrived,
                                [arm |-> arm, candidate |-> Candidate(arm, m)])
      BY <2>1 DEF ArmStep
    <3>2. base' = base /\ merged' = merged /\ arm \notin Finished
      BY <2>1 DEF ArmStep
    <3>3. Candidates' = Candidates
      BY <3>2 DEF Candidates, Candidate, Muted
    <3>4. [arm |-> arm, candidate |-> Candidate(arm, m)]
            \in [arm : Arms, candidate : Candidates]
      BY DEF Candidates
    <3>5. /\ arrived' \in Seq([arm : Arms, candidate : Candidates])
          /\ DOMAIN arrived = 1 .. Len(arrived) /\ Len(arrived) \in Nat
          /\ DOMAIN arrived' = 1 .. Len(arrived) + 1
          /\ \A i \in DOMAIN arrived : arrived'[i] = arrived[i]
          /\ arrived'[Len(arrived) + 1].arm = arm
      <4> HIDE DEF Candidates
      <4> QED  BY <3>1, <3>4, AppendProperties, LenProperties DEF Gathered
    <3>6. \A i \in DOMAIN arrived : arrived[i].arm # arm
      BY <3>2 DEF Finished
    <3>7. ~ Done
      BY <3>2 DEF Gathered
    <3>8. \A i, j \in DOMAIN arrived' : arrived'[i].arm = arrived'[j].arm => i = j
      <4> SUFFICES ASSUME NEW i \in DOMAIN arrived', NEW j \in DOMAIN arrived',
                          arrived'[i].arm = arrived'[j].arm
                   PROVE  i = j
        OBVIOUS
      <4>1. i \in DOMAIN arrived \/ i = Len(arrived) + 1
        BY <3>5
      <4>2. j \in DOMAIN arrived \/ j = Len(arrived) + 1
        BY <3>5
      <4> QED  BY <3>5, <3>6, <4>1, <4>2 DEF Gathered
    <3> QED  BY <3>2, <3>3, <3>5, <3>7, <3>8 DEF Gathered, Done
  <2>2. ASSUME Converge PROVE Gathered'
    <3>1. /\ base' = base /\ arrived' = arrived /\ Finished = Arms
          /\ merged' = <<Merge(base, arrived)>>
      BY <2>2 DEF Converge, Some
    <3>2. Candidates' = Candidates /\ Finished' = Finished
      BY <3>1 DEF Candidates, Candidate, Muted, Finished
    <3>3. Merge(base, arrived)' = Merge(base, arrived)
      BY <3>1
    <3> QED  BY <3>1, <3>2, <3>3 DEF Gathered, Done
  <2>3. ASSUME UNCHANGED barrierVars PROVE Gathered'
    <3>1. base' = base /\ arrived' = arrived /\ merged' = merged
      BY <2>3 DEF barrierVars
    <3>2. Candidates' = Candidates /\ Finished' = Finished
      BY <3>1 DEF Candidates, Candidate, Muted, Finished
    <3> QED  BY <3>1, <3>2 DEF Gathered, Done
  <2> QED  BY <2>1, <2>2, <2>3 DEF BarrierNext
<1> QED  BY <1>1, <1>2, PTL DEF BarrierSpec

\* The arms that finished, as many as there are outcomes.
LEMMA FinishedIsFinite ==
  ASSUME Gathered
  PROVE  IsFiniteSet(Finished) /\ Cardinality(Finished) = Len(arrived)
<1> DEFINE n == Len(arrived)
           at == [i \in 1 .. n |-> arrived[i].arm]
<1>1. n \in Nat /\ DOMAIN arrived = 1 .. n
  <2> HIDE DEF Candidates
  <2> QED  BY LenProperties DEF Gathered
<1>2. IsFiniteSet(1 .. n) /\ Cardinality(1 .. n) = n
  <2> HIDE DEF n
  <2> QED  BY <1>1, FS_Interval
<1>3. at \in Surjection(1 .. n, Finished) /\ at \in Injection(1 .. n, Finished)
  BY <1>1 DEF Gathered, Finished, Surjection, Injection, IsInjective
<1> HIDE DEF at, n
<1>4. IsFiniteSet(Finished) /\ Cardinality(Finished) = n
  BY <1>2, <1>3, FS_Surjection
<1> QED  BY <1>4 DEF n

\* Whatever order is tried, it holds the same outcomes, and sorts to one sequence.
LEMMA GatheredForgets == Gathered => OrderIndependent
<1> SUFFICES ASSUME Gathered, Done, NEW order \in SetToSeqs(Finished)
             PROVE  LET Of(a) == CHOOSE o \in ToSet(arrived) : o.arm = a
                    IN  Merge(base, [i \in DOMAIN order |-> Of(order[i])])
                          = merged[1]
  BY DEF OrderIndependent
<1> DEFINE Of(a) == CHOOSE o \in ToSet(arrived) : o.arm = a
           t == [i \in DOMAIN order |-> Of(order[i])]
           n == Len(arrived)
<1>1. /\ n \in Nat /\ DOMAIN arrived = 1 .. n
      /\ \A i \in 1 .. n : arrived[i] \in [arm : Arms, candidate : Candidates]
  <2> HIDE DEF Candidates
  <2> QED  BY ElementOfSeq, LenProperties DEF Gathered
<1>2. arrived \in Seq(Outcomes(Candidates))
  <2>1. \A i \in 1 .. n : arrived[i] \in Outcomes(Candidates)
    BY <1>1, ArmsAssumption DEF Outcomes
  <2> HIDE DEF Candidates
  <2> QED  BY <1>1, <2>1, SeqDef DEF Gathered
<1>3. Cardinality(Finished) = n
  BY FinishedIsFinite
<1>4. /\ order \in [1 .. n -> Finished]
      /\ \A i, j \in 1 .. n : order[i] = order[j] => i = j
  BY <1>3 DEF SetToSeqs
<1>5. \A i \in 1 .. n : \E k \in 1 .. n : arrived[k].arm = order[i]
  BY <1>1, <1>4 DEF Finished
<1> DEFINE p == [i \in 1 .. n |-> CHOOSE k \in 1 .. n : arrived[k].arm = order[i]]
<1>6. \A i \in 1 .. n : p[i] \in 1 .. n /\ arrived[p[i]].arm = order[i]
  BY <1>5
<1>7. \A i \in 1 .. n : t[i] = arrived[p[i]]
  <2> TAKE i \in 1 .. n
  <2>1. \A o \in ToSet(arrived) : o.arm = order[i] => o = arrived[p[i]]
    <3> HIDE DEF p
    <3> QED  BY <1>1, <1>6 DEF ToSet, Gathered
  <2>2. arrived[p[i]] \in ToSet(arrived) /\ arrived[p[i]].arm = order[i]
    <3> HIDE DEF p
    <3> QED  BY <1>1, <1>6 DEF ToSet
  <2>3. Of(order[i]) = arrived[p[i]]
    <3> HIDE DEF p
    <3> QED  BY <2>1, <2>2
  <2> QED  BY <2>3, <1>4
<1>8. p \in Bijection(1 .. n, 1 .. n)
  <2>1. p \in Injection(1 .. n, 1 .. n)
    <3>1. \A i, j \in 1 .. n : p[i] = p[j] => i = j
      <4> HIDE DEF p
      <4> QED  BY <1>4, <1>6
    <3>2. p \in [1 .. n -> 1 .. n]
      BY <1>6
    <3> HIDE DEF p
    <3> QED  BY <3>1, <3>2 DEF Injection, IsInjective
  <2>2. IsFiniteSet(1 .. n) /\ Cardinality(1 .. n) = n
    <3>1. n \in Nat
      BY <1>1
    <3> HIDE DEF t, p, n
    <3> QED  BY <3>1, FS_Interval
  <2>3. p \in Surjection(1 .. n, 1 .. n)
    <3> HIDE DEF p, n
    <3> QED  BY <2>1, <2>2, FS_Injection
  <2> QED  BY <2>1, <2>3 DEF Bijection
<1>9. DOMAIN t = 1 .. n /\ t \in Seq(Outcomes(Candidates))
  <2>1. DOMAIN t = 1 .. n
    BY <1>4
  <2>2. \A i \in 1 .. n : t[i] \in Outcomes(Candidates)
    <3> HIDE DEF t, p, Candidates
    <3> QED  BY <1>1, <1>2, <1>6, <1>7, ElementOfSeq
  <2>3. t = [i \in 1 .. n |-> t[i]]
    BY <2>1
  <2> HIDE DEF t, Candidates
  <2> QED  BY <1>1, <2>1, <2>2, <2>3, SeqDef
<1>10. Sorted(t) = Sorted(arrived)
  <2> HIDE DEF t, p, n, Candidates
  <2>1. \A i, j \in DOMAIN arrived : arrived[i].arm = arrived[j].arm => i = j
    BY DEF Gathered
  <2>2. DOMAIN t = DOMAIN arrived /\ p \in Bijection(DOMAIN t, DOMAIN arrived)
    BY <1>1, <1>8, <1>9
  <2>3. \A i \in DOMAIN t : t[i] = arrived[p[i]]
    BY <1>7, <1>9
  <2> QED  BY <1>2, <1>9, <2>1, <2>2, <2>3, SameSort
<1>11. Merge(base, t) = Merge(base, arrived)
  <2> HIDE DEF t
  <2> QED  BY <1>10 DEF Merge
<1> QED  BY <1>11 DEF Gathered

(***************************************************************************)
(* TheFoldForgetsTheOrder: whatever the arms are, whatever they wrote and  *)
(* whichever order they finished in, the barrier answers what it would     *)
(* answer for any other order: the same accumulator, or the same refusal   *)
(* naming the same arm.                                                    *)
(***************************************************************************)
THEOREM TheFoldForgetsTheOrder == BarrierSpec => []OrderIndependent
<1> QED  BY GatheredHolds, GatheredForgets, PTL

-----------------------------------------------------------------------------
(* What is in hand: for each finished arm, the candidate its move made of  *)
(* the shared base.                                                        *)

Carried ==
  /\ base \in Accumulator
  /\ \A i \in DOMAIN arrived :
       arrived[i].candidate = Candidate(arrived[i].arm, moved[arrived[i].arm])

\* An arm's step records the move its candidate was made of.
LEMMA CarriedHolds == BarrierSpec => []Carried
<1>1. BarrierInit => Carried
  BY ArmsAssumption DEF BarrierInit, Carried
<1>2. Gathered /\ Carried /\ [BarrierNext]_barrierVars => Carried'
  <2> SUFFICES ASSUME Gathered, Carried, [BarrierNext]_barrierVars PROVE Carried'
    OBVIOUS
  <2>1. ASSUME NEW arm \in Arms, ArmStep(arm) PROVE Carried'
    <3>1. PICK m \in Moves :
            /\ moved' = [a \in Finished \cup {arm} |-> IF a = arm THEN m ELSE moved[a]]
            /\ arrived' = Append(arrived, [arm |-> arm, candidate |-> Candidate(arm, m)])
      BY <2>1 DEF ArmStep
    <3>2. base' = base /\ arm \notin Finished
      BY <2>1 DEF ArmStep
    <3>3. /\ DOMAIN arrived = 1 .. Len(arrived) /\ Len(arrived) \in Nat
          /\ DOMAIN arrived' = 1 .. Len(arrived) + 1
          /\ \A i \in DOMAIN arrived : arrived'[i] = arrived[i]
          /\ arrived'[Len(arrived) + 1] = [arm |-> arm, candidate |-> Candidate(arm, m)]
      <4>1. /\ arrived \in Seq([arm : Arms, candidate : Candidates])
            /\ [arm |-> arm, candidate |-> Candidate(arm, m)]
                 \in [arm : Arms, candidate : Candidates]
        BY DEF Gathered, Candidates
      <4> HIDE DEF Candidates
      <4> QED  BY <3>1, <4>1, AppendProperties, LenProperties
    <3>4. \A a, n : Candidate(a, n)' = Candidate(a, n)
      BY <3>2 DEF Candidate, Muted
    <3>5. ASSUME NEW i \in DOMAIN arrived'
          PROVE  arrived'[i].candidate = Candidate(arrived'[i].arm, moved'[arrived'[i].arm])
      <4>1. CASE i = Len(arrived) + 1
        BY <3>1, <3>3, <4>1
      <4>2. CASE i \in DOMAIN arrived
        <5>1. arrived[i].arm \in Finished
          BY <4>2 DEF Finished
        <5>2. moved'[arrived[i].arm] = moved[arrived[i].arm]
          BY <3>1, <3>2, <5>1
        <5> QED  BY <3>3, <4>2, <5>2 DEF Carried
      <4> QED  BY <3>3, <4>1, <4>2
    <3>6. ASSUME NEW i \in DOMAIN arrived'
          PROVE  arrived'[i].candidate = Candidate(arrived[i].arm, moved[arrived[i].arm])'
      BY <3>2, <3>5 DEF Candidate, Muted
    <3> QED  BY <3>2, <3>6 DEF Carried
  <2>2. ASSUME base' = base, moved' = moved, arrived' = arrived PROVE Carried'
    BY <2>2 DEF Carried, Candidate, Muted
  <2> QED  BY <2>1, <2>2 DEF BarrierNext, Converge, barrierVars
<1> QED  BY <1>1, <1>2, GatheredHolds, PTL DEF BarrierSpec

-----------------------------------------------------------------------------
(* Narrative: the fields an arm's contribution wrote into its candidate    *)
(* are the fields its claim reads back, less those written as they stood.  *)

\* A sequence of one sequence flattens to it.
LEMMA OneFlat == ASSUME NEW x PROVE FlattenSeq(<<x>>) = x
<1> DEFINE s == <<x>>
           f == [i \in 1 .. 1 |-> x]
           Flat(g) == g = [i \in 1 .. Len(s) |->
                             IF i = 1 THEN s[i] ELSE g[i - 1] \o s[i]]
<1>1. Flat(f)
  OBVIOUS
<1>2. \A g : Flat(g) => g[1] = x
  OBVIOUS
<1>3. FlattenSeq(s) = (CHOOSE g : Flat(g))[1]
  BY DEF FlattenSeq
<1> HIDE DEF Flat, f, s
<1>4. Flat(CHOOSE g : Flat(g))
  BY <1>1
<1>5. FlattenSeq(s) = x
  BY <1>2, <1>3, <1>4
<1> QED  BY <1>5 DEF s

\* The fields a claim reaches, and the counters, which it leaves alone.
Narrated == {"counts", "lessons", "scores", "steer", "judged", "last", "proposed"}

\* `c` is `s` with the claims `w` written onto it.
Narrates(c, s, w) ==
         /\ c.counts = s.counts
         /\ c.lessons = s.lessons \o w["lesson"]
         /\ c.scores = s.scores \o w["score"]
         /\ c.steer = IF w["steer"] = None THEN s.steer ELSE w["steer"][1]
         /\ c.judged = IF w["judged"] = None THEN s.judged ELSE w["judged"][1]
         /\ c.last = IF w["last_attempt"] = None THEN s.last ELSE w["last_attempt"][1]
         /\ c.proposed = IF w["amendment"] = None THEN s.proposed ELSE w["amendment"]

\* Claims written onto a state move the fields they name, and no other.
LEMMA ClaimWrites ==
  ASSUME NEW s, NEW w, Narrated \subseteq DOMAIN s
  PROVE  Narrates(Claim(s, w), s, w)
<1> DEFINE e1 == [s EXCEPT !.lessons = @ \o w["lesson"]]
           e2 == [e1 EXCEPT !.scores = @ \o w["score"]]
           e3 == [e2 EXCEPT !.steer = IF w["steer"] = None THEN @ ELSE w["steer"][1]]
           e4 == [e3 EXCEPT !.judged = IF w["judged"] = None THEN @ ELSE w["judged"][1]]
           e5 == [e4 EXCEPT !.last = IF w["last_attempt"] = None THEN @ ELSE w["last_attempt"][1]]
           e6 == [e5 EXCEPT !.proposed = IF w["amendment"] = None THEN @ ELSE w["amendment"]]
<1>1. Claim(s, w) = e6
  BY DEF Claim
<1> QED  BY <1>1 DEF Narrated, Narrates

\* Claims leave the counters alone.
LEMMA ClaimKeepsCounts ==
  ASSUME NEW s, NEW w, Narrated \subseteq DOMAIN s
  PROVE  Claim(s, w).counts = s.counts
  BY ClaimWrites DEF Narrates

\* An arm's move on the base leaves the narrative as it stood.
LEMMA FieldsKept ==
  ASSUME NEW b \in Accumulator, NEW x, NEW y
  PROVE LET s == [b EXCEPT !.counts = x, !.solved = y]
        IN /\ Narrated \subseteq DOMAIN s
           /\ s.lessons = b.lessons /\ s.scores = b.scores
           /\ s.steer = b.steer /\ s.judged = b.judged
           /\ s.last = b.last /\ s.proposed = b.proposed
           /\ s.counts = x /\ s.solved = y
  BY DEF Accumulator, Narrated

\* An arm claims a field it writes to, unless the field stood so already.
Wrote(a, move, f) == ~Muted(a) /\ f \in move.writes /\ ~Rewrite(f, a)

\* The value an arm writes into a field.
Written(a, f) ==
  CASE f = "lesson"       -> <<a>>
    [] f = "steer"        -> Correction
    [] f = "score"        -> a
    [] f = "judged"       -> "steer"
    [] f = "last_attempt" -> a
    [] f = "amendment"    -> a

\* `g` is what a candidate `c` claims over the base `b`, field by field.
Reads(g, b, c) ==
         /\ g["lesson"] = IF Len(c.lessons) > Len(b.lessons)
                            THEN <<FlattenSeq(SubSeq(c.lessons, Len(b.lessons) + 1, Len(c.lessons)))>>
                            ELSE << >>
         /\ g["score"] = IF Len(c.scores) > Len(b.scores)
                           THEN <<c.scores[Len(b.scores) + 1]>> ELSE << >>
         /\ g["steer"] = IF c.steer # b.steer THEN <<c.steer>> ELSE << >>
         /\ g["judged"] = IF c.judged # b.judged THEN <<c.judged>> ELSE << >>
         /\ g["last_attempt"] = IF c.last # b.last THEN <<c.last>> ELSE << >>
         /\ g["amendment"] = IF c.proposed = b.proposed THEN << >> ELSE c.proposed

\* ClaimedFrom reads each field so.
LEMMA ClaimReads == ASSUME NEW b, NEW c PROVE Reads(ClaimedFrom(b, c), b, c)
  BY DEF ClaimedFrom, None, Some, Reads

\* What is read back from a candidate is what its arm wrote into it.
LEMMA ClaimsReadBack ==
  ASSUME base \in Accumulator, NEW a \in Nat, NEW move, NEW f \in NarrativeField
  PROVE  ClaimedFrom(base, Candidate(a, move))[f]
           = IF Wrote(a, move, f) THEN <<Written(a, f)>> ELSE << >>
<1> DEFINE c == Candidate(a, move)
           g == ClaimedFrom(base, c)
           w == Contribution(a, move.writes)
           Wr(field) == field \in move.writes
<1>1. base.lessons \in Seq(Seq(Nat)) /\ base.scores \in Seq(Nat) /\ <<a>> \in Seq(Nat)
  BY DEF Accumulator
<1>2. CASE Muted(a)
  <2>1. c = base
    BY <1>2 DEF Candidate
  <2>2. Len(base.lessons) \in Nat /\ Len(base.scores) \in Nat
    BY <1>1, LenProperties
  <2>r. Reads(g, base, base)
    BY <2>1, ClaimReads
  <2>3. g[f] = << >>
    <3> HIDE DEF g
    <3> QED  BY <2>2, <2>r DEF NarrativeField, Reads
  <2> QED  BY <1>2, <2>3 DEF Wrote
<1>3. CASE ~Muted(a)
  <2>1. /\ w["lesson"] = IF Wr("lesson") THEN <<<<a>>>> ELSE << >>
        /\ w["steer"] = IF Wr("steer") THEN <<Correction>> ELSE << >>
        /\ w["score"] = IF Wr("score") THEN <<a>> ELSE << >>
        /\ w["judged"] = IF Wr("judged") THEN <<"steer">> ELSE << >>
        /\ w["last_attempt"] = IF Wr("last_attempt") THEN <<a>> ELSE << >>
        /\ w["amendment"] = IF Wr("amendment") THEN <<a>> ELSE << >>
    BY DEF Contribution, NarrativeField, None, Some
  <2> HIDE DEF w
  <2>2. /\ c.lessons = base.lessons \o w["lesson"]
        /\ c.scores = base.scores \o w["score"]
        /\ c.steer = IF Wr("steer") THEN Correction ELSE base.steer
        /\ c.judged = IF Wr("judged") THEN "steer" ELSE base.judged
        /\ c.last = IF Wr("last_attempt") THEN a ELSE base.last
        /\ c.proposed = IF Wr("amendment") THEN <<a>> ELSE base.proposed
    <3> DEFINE x == [k \in Counter |-> IF k \in DOMAIN move.steps
                                         THEN StepOn(move.steps[k], base.counts[k])
                                         ELSE base.counts[k]]
               y == base.solved \/ move.concludes
               state == [base EXCEPT !.counts = x, !.solved = y]
    <3>1. c = Claim(state, w)
      BY <1>3 DEF Candidate, w
    <3> HIDE DEF c, x, y
    <3>2. /\ state.lessons = base.lessons /\ state.scores = base.scores
          /\ state.steer = base.steer /\ state.judged = base.judged
          /\ state.last = base.last /\ state.proposed = base.proposed
          /\ Narrated \subseteq DOMAIN state
      BY FieldsKept
    <3> HIDE DEF state
    <3>c. Narrates(c, state, w)
      BY <3>1, <3>2, ClaimWrites
    <3>3. /\ c.lessons = state.lessons \o w["lesson"]
          /\ c.scores = state.scores \o w["score"]
          /\ c.steer = IF w["steer"] = None THEN state.steer ELSE w["steer"][1]
          /\ c.judged = IF w["judged"] = None THEN state.judged ELSE w["judged"][1]
          /\ c.last = IF w["last_attempt"] = None THEN state.last ELSE w["last_attempt"][1]
          /\ c.proposed = IF w["amendment"] = None THEN state.proposed ELSE w["amendment"]
      BY <3>c DEF Narrates
    <3> HIDE DEF Wr
    <3>4. /\ (w["steer"] = None) = ~Wr("steer") /\ (w["judged"] = None) = ~Wr("judged")
          /\ (w["last_attempt"] = None) = ~Wr("last_attempt")
          /\ (w["amendment"] = None) = ~Wr("amendment")
          /\ Wr("steer") => w["steer"][1] = Correction
          /\ Wr("judged") => w["judged"][1] = "steer"
          /\ Wr("last_attempt") => w["last_attempt"][1] = a
          /\ Wr("amendment") => w["amendment"] = <<a>>
      BY <2>1 DEF None
    <3> QED  BY <3>2, <3>3, <3>4
  <2> HIDE DEF c
  <2>r. Reads(g, base, c)
    BY ClaimReads
  <2> HIDE DEF g
  <2>3. /\ g["lesson"] = IF Wr("lesson") THEN <<<<a>>>> ELSE << >>
        /\ g["score"] = IF Wr("score") THEN <<a>> ELSE << >>
    <3>1. /\ Len(base.lessons) \in Nat /\ Len(base.scores) \in Nat
          /\ base.lessons \o << >> = base.lessons /\ base.scores \o << >> = base.scores
      BY <1>1, LenProperties, ConcatEmptySeq
    <3>3. /\ Len(base.lessons \o <<<<a>>>>) = Len(base.lessons) + 1
          /\ SubSeq(base.lessons \o <<<<a>>>>, Len(base.lessons) + 1,
                    Len(base.lessons) + 1) = <<<<a>>>>
      BY <1>1, Grown
    <3>4. /\ Len(base.scores \o <<a>>) = Len(base.scores) + 1
          /\ (base.scores \o <<a>>)[Len(base.scores) + 1] = a
      BY <1>1, Grown
    <3>5. FlattenSeq(<<<<a>>>>) = <<a>>
      BY OneFlat
    <3>6. ASSUME Wr("lesson") PROVE g["lesson"] = <<<<a>>>>
      <4>1. c.lessons = base.lessons \o <<<<a>>>>
        BY <2>1, <2>2, <3>6
      <4>2. Len(c.lessons) > Len(base.lessons)
        BY <3>1, <3>3, <4>1
      <4>3. g["lesson"] = <<<<a>>>>
        BY <2>r, <3>3, <3>5, <4>1, <4>2 DEF Reads
      <4> QED  BY <4>3
    <3>7. ASSUME ~Wr("lesson") PROVE g["lesson"] = << >>
      <4>1. c.lessons = base.lessons
        BY <2>1, <2>2, <3>1, <3>7
      <4>2. g["lesson"] = << >>
        BY <2>r, <3>1, <4>1 DEF Reads
      <4> QED  BY <4>2
    <3>8. ASSUME Wr("score") PROVE g["score"] = <<a>>
      <4>1. c.scores = base.scores \o <<a>>
        BY <2>1, <2>2, <3>8
      <4>2. Len(c.scores) > Len(base.scores)
        BY <3>1, <3>4, <4>1
      <4>3. g["score"] = <<a>>
        BY <2>r, <3>4, <4>1, <4>2 DEF Reads
      <4> QED  BY <4>3
    <3>9. ASSUME ~Wr("score") PROVE g["score"] = << >>
      <4>1. c.scores = base.scores
        BY <2>1, <2>2, <3>1, <3>9
      <4>2. g["score"] = << >>
        BY <2>r, <3>1, <4>1 DEF Reads
      <4> QED  BY <4>2
    <3> QED  BY <3>6, <3>7, <3>8, <3>9
  <2>4. /\ g["steer"] = IF Wr("steer") /\ base.steer # Correction
                          THEN <<Correction>> ELSE << >>
        /\ g["judged"] = IF Wr("judged") /\ base.judged # "steer"
                           THEN <<"steer">> ELSE << >>
        /\ g["last_attempt"] = IF Wr("last_attempt") /\ base.last # a
                                 THEN <<a>> ELSE << >>
        /\ g["amendment"] = IF Wr("amendment") /\ base.proposed # <<a>>
                              THEN <<a>> ELSE << >>
    <3> HIDE DEF Wr
    <3> QED  BY <2>2, <2>r DEF Reads
  <2>5. Wrote(a, move, f) <=> Wr(f) /\ ~Rewrite(f, a)
    BY <1>3 DEF Wrote
  <2>6. g[f] = IF Wr(f) /\ ~Rewrite(f, a) THEN <<Written(a, f)>> ELSE << >>
    <3> HIDE DEF Wr
    <3> QED  BY <2>3, <2>4 DEF Rewrite, Written, NarrativeField, Some
  <2> QED  BY <2>5, <2>6 DEF c, g
<1> QED  BY <1>2, <1>3
\* A finished arm that wrote a field is one of the field's writers.
LEMMA WritersWrote ==
  ASSUME NEW a \in Finished, NEW f
  PROVE  a \in Writers(f) <=> Wrote(a, moved[a], f)
  BY DEF Writers, Wrote

\* The claims the barrier reads, in the order it reads them.
Claims == [i \in DOMAIN Sorted(arrived) |->
             ClaimedFrom(base, Sorted(arrived)[i].candidate)]

\* Each outcome's movement, in the order the barrier takes them.
Deltas == [i \in DOMAIN Sorted(arrived) |->
             DeltaFrom(Sorted(arrived)[i].candidate, base)]

\* The arm whose outcome the barrier takes k-th.
Who(k) == Sorted(arrived)[k].arm

\* The barrier takes each finished arm's candidate at one place.
LEMMA CandidatesByArm ==
  ASSUME Gathered, Carried, NEW k \in 1 .. Len(arrived)
  PROVE  /\ Who(k) \in Finished /\ Who(k) \in Nat
         /\ Sorted(arrived)[k].candidate = Candidate(Who(k), moved[Who(k)])
<1> DEFINE n == Len(arrived)
<1>1. /\ n \in Nat /\ DOMAIN arrived = 1 .. n
      /\ \A i \in 1 .. n : arrived[i] \in [arm : Arms, candidate : Candidates]
  <2> HIDE DEF Candidates
  <2> QED  BY ElementOfSeq, LenProperties DEF Gathered
<1>2. arrived \in Seq(Outcomes(Candidates))
  <2>1. \A i \in 1 .. n : arrived[i] \in Outcomes(Candidates)
    BY <1>1, ArmsAssumption DEF Outcomes
  <2> HIDE DEF Candidates
  <2> QED  BY <1>1, <2>1, SeqDef DEF Gathered
<1>3. PICK i \in 1 .. n : Sorted(arrived)[k] = arrived[i]
  <2> HIDE DEF Candidates
  <2>1. k \in DOMAIN arrived
    BY <1>1
  <2>2. \E i \in DOMAIN arrived : Sorted(arrived)[k] = arrived[i]
    BY <1>2, <2>1, SortedSorts
  <2> QED  BY <1>1, <2>2
<1> QED  BY <1>1, <1>3, ArmsAssumption DEF Who, Finished, Carried

\* So the claims it reads are the writes of the arms that wrote.
LEMMA ClaimsByArm ==
  ASSUME Gathered, Carried
  PROVE  /\ DOMAIN Claims = 1 .. Len(arrived) /\ Len(arrived) \in Nat
         /\ \A k \in 1 .. Len(arrived) :
              /\ Who(k) \in Finished
              /\ \A f \in NarrativeField :
                   Claims[k][f] = IF Who(k) \in Writers(f)
                                    THEN <<Written(Who(k), f)>> ELSE << >>
         /\ \A k, l \in 1 .. Len(arrived) : Who(k) = Who(l) => k = l
         /\ \A a \in Finished : \E k \in 1 .. Len(arrived) : Who(k) = a
<1> DEFINE n == Len(arrived)
<1>1. /\ n \in Nat /\ DOMAIN arrived = 1 .. n
      /\ \A i \in 1 .. n : arrived[i] \in [arm : Arms, candidate : Candidates]
  <2> HIDE DEF Candidates
  <2> QED  BY ElementOfSeq, LenProperties DEF Gathered
<1>2. arrived \in Seq(Outcomes(Candidates))
  <2>1. \A i \in 1 .. n : arrived[i] \in Outcomes(Candidates)
    BY <1>1, ArmsAssumption DEF Outcomes
  <2> HIDE DEF Candidates
  <2> QED  BY <1>1, <2>1, SeqDef DEF Gathered
<1> HIDE DEF n, Candidates
<1>3. /\ DOMAIN Sorted(arrived) = 1 .. n
      /\ \A k \in 1 .. n : \E i \in 1 .. n :
           Place(arrived, i) = k /\ Sorted(arrived)[k] = arrived[i]
      /\ \A i \in 1 .. n : Sorted(arrived)[Place(arrived, i)] = arrived[i]
      /\ \A i \in 1 .. n : Place(arrived, i) \in 1 .. n
  <2>1. DOMAIN Sorted(arrived) = DOMAIN arrived
    BY <1>2, SortedSorts
  <2>2. \A k \in DOMAIN arrived : \E i \in DOMAIN arrived :
          Place(arrived, i) = k /\ Sorted(arrived)[k] = arrived[i]
    BY <1>2, SortedSorts
  <2>3. \A i \in DOMAIN arrived : Sorted(arrived)[Place(arrived, i)] = arrived[i]
    BY <1>2, SortedSorts
  <2>4. \A i \in DOMAIN arrived : Place(arrived, i) \in DOMAIN arrived
    BY <1>2, PlacesArePermuted
  <2>5. DOMAIN arrived = 1 .. n
    BY <1>1
  <2> QED  BY <2>1, <2>2, <2>3, <2>4, <2>5
<1>4. \A k \in 1 .. n : \E i \in 1 .. n :
        /\ Place(arrived, i) = k /\ Sorted(arrived)[k] = arrived[i]
        /\ Who(k) = arrived[i].arm
        /\ Who(k) \in Finished /\ Who(k) \in Nat
  BY <1>1, <1>3, ArmsAssumption DEF Who, Finished
<1>5. ASSUME NEW k \in 1 .. n, NEW f \in NarrativeField
      PROVE  Claims[k][f] = IF Who(k) \in Writers(f)
                              THEN <<Written(Who(k), f)>> ELSE << >>
  <2>1. Who(k) \in Finished /\ Who(k) \in Nat
    BY CandidatesByArm DEF n
  <2>2. Sorted(arrived)[k].candidate = Candidate(Who(k), moved[Who(k)])
    BY CandidatesByArm DEF n
  <2>3. Claims[k] = ClaimedFrom(base, Candidate(Who(k), moved[Who(k)]))
    BY <1>3, <2>2 DEF Claims
  <2>4. base \in Accumulator
    BY DEF Carried
  <2>5. ClaimedFrom(base, Candidate(Who(k), moved[Who(k)]))[f]
          = IF Wrote(Who(k), moved[Who(k)], f) THEN <<Written(Who(k), f)>> ELSE << >>
    BY <2>1, <2>4, ClaimsReadBack
  <2>6. Who(k) \in Writers(f) <=> Wrote(Who(k), moved[Who(k)], f)
    BY <2>1, WritersWrote
  <2> QED  BY <2>3, <2>5, <2>6
<1>6. ASSUME NEW k \in 1 .. n, NEW l \in 1 .. n, Who(k) = Who(l) PROVE k = l
  <2>1. PICK i \in 1 .. n : Place(arrived, i) = k /\ Who(k) = arrived[i].arm
    BY <1>4
  <2>2. PICK j \in 1 .. n : Place(arrived, j) = l /\ Who(l) = arrived[j].arm
    BY <1>4
  <2>3. i = j
    BY <1>1, <1>6, <2>1, <2>2 DEF Gathered
  <2> QED  BY <2>1, <2>2, <2>3
<1>7. ASSUME NEW a \in Finished PROVE \E k \in 1 .. n : Who(k) = a
  <2>1. PICK i \in 1 .. n : arrived[i].arm = a
    BY <1>1 DEF Finished
  <2> QED  BY <1>3, <2>1 DEF Who
<1>8. DOMAIN Claims = 1 .. n
  BY <1>3 DEF Claims
<1> QED  BY <1>1, <1>4, <1>5, <1>6, <1>7, <1>8 DEF n

\* A finite set has more than one member when two of them differ.
LEMMA MoreThanOne ==
  ASSUME NEW S, IsFiniteSet(S)
  PROVE  Cardinality(S) > 1 <=> \E a, b \in S : a # b
<1>1. Cardinality(S) \in Nat
  BY FS_CardinalityType
<1>2. CASE S = {}
  <2>1. Cardinality(S) = 0
    BY <1>2, FS_EmptySet
  <2>2. ~ \E a, b \in S : a # b
    BY <1>2
  <2> QED  BY <2>1, <2>2
<1>3. CASE S # {}
  <2>1. PICK a \in S : TRUE
    BY <1>3
  <2>2. /\ IsFiniteSet(S \ {a}) /\ Cardinality(S \ {a}) = Cardinality(S) - 1
    BY <2>1, FS_RemoveElement
  <2>3. Cardinality(S \ {a}) = 0 <=> S \ {a} = {}
    BY <2>2, FS_EmptySet
  <2>4. (\E x, y \in S : x # y) <=> S \ {a} # {}
    BY <2>1
  <2>5. Cardinality(S \ {a}) \in Nat
    BY <2>2, FS_CardinalityType
  <2> HIDE <1>3
  <2> QED  BY <1>1, <2>2, <2>3, <2>4, <2>5
<1> QED  BY <1>2, <1>3

\* The counters' fold leaves the narrative as it stood in the base.
LEMMA FoldKept ==
  ASSUME NEW b \in Accumulator, NEW x, NEW y, NEW z
  PROVE LET s == [b EXCEPT !.counts = x, !.solved = y, !.expired = z]
        IN /\ Narrated \subseteq DOMAIN s
           /\ s.lessons = b.lessons /\ s.scores = b.scores
           /\ s.steer = b.steer /\ s.judged = b.judged
           /\ s.last = b.last /\ s.proposed = b.proposed
           /\ s.counts = x
  BY DEF Accumulator, Narrated

\* The fold refuses a field exactly when two arms wrote it.
LEMMA ContestedFields ==
  ASSUME Gathered, Carried
  PROVE  Contesting(Claims) # {}
           <=> \E f \in NarrativeField : Cardinality(Writers(f)) > 1
<1>2. ASSUME NEW f PROVE Cardinality(Writers(f)) > 1 <=> \E a, b \in Writers(f) : a # b
  <2>1. IsFiniteSet(Writers(f))
    BY FinishedIsFinite, FS_Subset DEF Writers
  <2> QED  BY <2>1, MoreThanOne
<1>3. ASSUME NEW i \in DOMAIN Claims, NEW j \in 1 .. i - 1, NEW f \in NarrativeField,
             Claims[i][f] # None, Claims[j][f] # None
      PROVE  Who(i) \in Writers(f) /\ Who(j) \in Writers(f) /\ Who(i) # Who(j)
  <2>1. /\ DOMAIN Claims = 1 .. Len(arrived) /\ Len(arrived) \in Nat
        /\ Claims[i][f] = IF Who(i) \in Writers(f) THEN <<Written(Who(i), f)>> ELSE << >>
    BY ClaimsByArm
  <2>2. j \in 1 .. Len(arrived) /\ i # j
    BY <2>1
  <2>3. Claims[j][f] = IF Who(j) \in Writers(f) THEN <<Written(Who(j), f)>> ELSE << >>
    BY <2>2, ClaimsByArm
  <2>4. Who(i) # Who(j)
    BY <2>1, <2>2, ClaimsByArm
  <2> QED  BY <1>3, <2>1, <2>3, <2>4 DEF None
<1>4. ASSUME NEW f \in NarrativeField, NEW a \in Writers(f), NEW b \in Writers(f), a # b
      PROVE  Contesting(Claims) # {}
  <2>1. a \in Finished /\ b \in Finished
    BY DEF Writers
  <2>2. PICK k \in 1 .. Len(arrived) : Who(k) = a
    BY <2>1, ClaimsByArm
  <2>3. PICK l \in 1 .. Len(arrived) : Who(l) = b
    BY <2>1, ClaimsByArm
  <2>4. Claims[k][f] # None /\ Claims[l][f] # None /\ k # l
    <3>1. Claims[k][f] = IF Who(k) \in Writers(f) THEN <<Written(Who(k), f)>> ELSE << >>
      BY ClaimsByArm
    <3>2. Claims[l][f] = IF Who(l) \in Writers(f) THEN <<Written(Who(l), f)>> ELSE << >>
      BY ClaimsByArm
    <3> QED  BY <1>4, <2>2, <2>3, <3>1, <3>2 DEF None
  <2>5. k \in DOMAIN Claims /\ l \in DOMAIN Claims
    BY ClaimsByArm
  <2>6. k < l => l \in Contesting(Claims)
    BY <2>4, <2>5 DEF Contesting
  <2>7. l < k => k \in Contesting(Claims)
    BY <2>4, <2>5 DEF Contesting
  <2> QED  BY <2>4, <2>6, <2>7
<1> QED  BY <1>2, <1>3, <1>4 DEF Contesting

\* Once no field is contested, a writer's claim is the one pooled.
LEMMA PooledWriter ==
  ASSUME Gathered, Carried, Contesting(Claims) = {},
         NEW f \in NarrativeField, NEW a \in Writers(f)
  PROVE  Pooled(Claims)[f] = <<Written(a, f)>>
<1> DEFINE held == {Claims[i][f] : i \in DOMAIN Claims} \ {None}
<1>1. \A b \in Writers(f) : b = a
  <2>1. ~ (Cardinality(Writers(f)) > 1)
    BY ContestedFields
  <2>2. IsFiniteSet(Writers(f))
    BY FinishedIsFinite, FS_Subset DEF Writers
  <2> QED  BY <2>1, <2>2, MoreThanOne
<1>2. PICK k \in 1 .. Len(arrived) : Who(k) = a
  BY ClaimsByArm DEF Writers
<1>3. \A i \in DOMAIN Claims : Claims[i][f] \in {None, <<Written(a, f)>>}
  <2> TAKE i \in DOMAIN Claims
  <2>1. Claims[i][f] = IF Who(i) \in Writers(f) THEN <<Written(Who(i), f)>> ELSE << >>
    BY ClaimsByArm
  <2> QED  BY <1>1, <2>1 DEF None
<1>4. Claims[k][f] = <<Written(a, f)>> /\ k \in DOMAIN Claims
  <2>1. Claims[k][f] = IF Who(k) \in Writers(f) THEN <<Written(Who(k), f)>> ELSE << >>
    BY ClaimsByArm
  <2> QED  BY <1>2, <2>1, ClaimsByArm
<1>5. <<Written(a, f)>> # None
  BY DEF None
<1>6. held = {<<Written(a, f)>>}
  BY <1>3, <1>4, <1>5
<1>7. Pooled(Claims)[f] = IF held = {} THEN None ELSE CHOOSE claim \in held : TRUE
  BY DEF Pooled
<1> QED  BY <1>6, <1>7

\* What the barrier holds once it has folded.
Answer ==
  merged[1] = IF Contesting(Claims) # {}
                THEN [ok |-> FALSE, state |-> base,
                      also |-> Sorted(arrived)[Min(Contesting(Claims))].arm]
                ELSE [ok |-> TRUE, also |-> 0,
                      state |-> Claim(Apply(base, Deltas), Pooled(Claims))]

\* It answers with the fold of the base, the movements and the claims.
LEMMA BarrierAnswers == ASSUME Gathered, Done PROVE Answer
<1>1. merged[1] = Merge(base, arrived)
  BY DEF Gathered
<1> QED  BY <1>1 DEF Answer, Merge, Claims, Deltas

\* The narrative is exclusive in every state whose candidates are moves.
LEMMA CarriedReads == Gathered /\ Carried => ExclusiveNarrative
<1> SUFFICES ASSUME Gathered, Carried, Done PROVE ExclusiveNarrative
  BY DEF ExclusiveNarrative
<1>1. Answer
  BY BarrierAnswers
<1>2. CASE Contesting(Claims) # {}
  <2>1. ~ merged[1].ok
    BY <1>1, <1>2 DEF Answer
  <2> QED  BY <1>2, <2>1, ContestedFields DEF ExclusiveNarrative
<1>3. CASE Contesting(Claims) = {}
  <2> DEFINE s == Apply(base, Deltas)
             w == Pooled(Claims)
  <2>1. merged[1].ok /\ Result = Claim(s, w)
    BY <1>1, <1>3 DEF Answer, Result
  <2>2. /\ Narrated \subseteq DOMAIN s
        /\ s.lessons = base.lessons /\ s.scores = base.scores
    <3> DEFINE x == [c \in Counter |-> Shift(base.counts[c], Total(Deltas, c))]
               y == Latch(base.solved, {Deltas[i].solved : i \in DOMAIN Deltas})
               z == Latch(base.expired, {Deltas[i].expired : i \in DOMAIN Deltas})
    <3>1. s = [base EXCEPT !.counts = x, !.solved = y, !.expired = z]
      BY DEF Apply
    <3>2. base \in Accumulator
      BY DEF Carried
    <3> HIDE DEF s, x, y, z
    <3> QED  BY <3>1, <3>2, FoldKept
  <2> HIDE DEF s, w
  <2>3. Narrates(Result, s, w)
    BY <2>1, <2>2, ClaimWrites
  <2>4. ASSUME NEW f \in NarrativeField, NEW a \in Writers(f) PROVE Landed(f, a)
    <3>1. w[f] = <<Written(a, f)>>
      BY <1>3, <2>4, PooledWriter DEF w
    <3>2. base.lessons \in Seq(Seq(Nat)) /\ base.scores \in Seq(Nat) /\ a \in Nat
      <4>1. a \in Nat
        BY <2>4, ArmsAssumption DEF Writers, Finished, Gathered
      <4> QED  BY <4>1 DEF Carried, Accumulator
    <3>3. /\ base.lessons \o <<<<a>>>> = Append(base.lessons, <<a>>)
          /\ base.scores \o <<a>> = Append(base.scores, a)
      <4>1. <<a>> \in Seq(Nat)
        BY <3>2
      <4> QED  BY <3>2, <4>1, Grown
    <3>4. /\ f = "lesson" => Result.lessons = Append(base.lessons, <<a>>)
          /\ f = "score" => Result.scores = Append(base.scores, a)
      BY <2>2, <2>3, <3>1, <3>3 DEF Narrates, Written
    <3>5. /\ f = "steer" => Result.steer = Correction
          /\ f = "judged" => Result.judged = "steer"
          /\ f = "last_attempt" => Result.last = a
          /\ f = "amendment" => Result.proposed = <<a>>
      <4>1. ASSUME NEW v PROVE <<v>> # None /\ <<v>>[1] = v
        BY DEF None
      <4>2. w[f] # None /\ w[f][1] = Written(a, f)
        BY <3>1, <4>1
      <4>3. /\ Result.steer = IF w["steer"] = None THEN s.steer ELSE w["steer"][1]
            /\ Result.judged = IF w["judged"] = None THEN s.judged ELSE w["judged"][1]
            /\ Result.last = IF w["last_attempt"] = None
                               THEN s.last ELSE w["last_attempt"][1]
            /\ Result.proposed = IF w["amendment"] = None
                                   THEN s.proposed ELSE w["amendment"]
        BY <2>3 DEF Narrates
      <4>4. /\ f = "steer" => Result.steer = Written(a, f)
            /\ f = "judged" => Result.judged = Written(a, f)
            /\ f = "last_attempt" => Result.last = Written(a, f)
            /\ f = "amendment" => Result.proposed = <<Written(a, f)>>
        BY <3>1, <4>2, <4>3
      <4> QED  BY <4>4 DEF Written
    <3> QED  BY <3>4, <3>5 DEF Landed, NarrativeField, Some
  <2> QED  BY <1>3, <2>1, <2>4, ContestedFields DEF ExclusiveNarrative
<1> QED  BY <1>2, <1>3

(***************************************************************************)
(* NarrativeIsReadBack: whatever the arms wrote, the barrier refuses the   *)
(* superstep exactly when two of them moved one narrative field; otherwise *)
(* the field's only writer is read out of its candidate and lands in the   *)
(* accumulator, and a field written as it stood is nobody's.               *)
(***************************************************************************)
THEOREM NarrativeIsReadBack == BarrierSpec => []ExclusiveNarrative
<1> QED  BY GatheredHolds, CarriedHolds, CarriedReads, PTL

-----------------------------------------------------------------------------
(* Orders of arms.                                                         *)

\* An enumeration of a set is an order its members could have run in.
LEMMA Enumerates ==
  ASSUME NEW S, NEW m \in Nat, NEW e \in Bijection(1 .. m, S)
  PROVE  e \in SetToSeqs(S) /\ Len(e) = m /\ \A i \in 1 .. m : e[i] \in S
<1>1. /\ e \in [1 .. m -> S]
      /\ \A i, j \in 1 .. m : e[i] = e[j] => i = j
      /\ e \in Surjection(1 .. m, S) /\ e \in Injection(1 .. m, S)
  BY DEF Bijection, Injection, IsInjective
<1>2. IsFiniteSet(1 .. m) /\ Cardinality(1 .. m) = m
  BY FS_Interval
<1>3. Cardinality(S) = m
  BY <1>1, <1>2, FS_Surjection
<1>4. Len(e) = m
  BY <1>1
<1> QED  BY <1>1, <1>3, <1>4 DEF SetToSeqs

\* One order after another is an order of both sets.
LEMMA Joins ==
  ASSUME NEW S, NEW T, S \cap T = {}, NEW m \in Nat, NEW t \in Nat,
         NEW e \in Bijection(1 .. m, S), NEW d \in Bijection(1 .. t, T)
  PROVE  [i \in 1 .. m + t |-> IF i <= m THEN e[i] ELSE d[i - m]]
           \in Bijection(1 .. m + t, S \cup T)
<1> DEFINE o == [i \in 1 .. m + t |-> IF i <= m THEN e[i] ELSE d[i - m]]
<1>1. /\ \A i \in 1 .. m : e[i] \in S
      /\ \A i, j \in 1 .. m : e[i] = e[j] => i = j
      /\ \A x \in S : \E i \in 1 .. m : e[i] = x
  BY DEF Bijection, Injection, Surjection, IsInjective
<1>2. /\ \A i \in 1 .. t : d[i] \in T
      /\ \A i, j \in 1 .. t : d[i] = d[j] => i = j
      /\ \A x \in T : \E i \in 1 .. t : d[i] = x
  BY DEF Bijection, Injection, Surjection, IsInjective
<1>3. \A i \in 1 .. m : i \in 1 .. m + t /\ o[i] = e[i]
  OBVIOUS
<1>4. \A i \in 1 .. t : i + m \in 1 .. m + t /\ o[i + m] = d[i]
  OBVIOUS
<1>5. \A i \in 1 .. m + t :
        \/ i \in 1 .. m /\ o[i] = e[i]
        \/ i - m \in 1 .. t /\ o[i] = d[i - m]
  OBVIOUS
<1>6. DOMAIN o = 1 .. m + t
  OBVIOUS
<1> HIDE DEF o
<1>7. ASSUME NEW i \in 1 .. m + t PROVE o[i] \in S \cup T
  BY <1>1, <1>2, <1>5
<1>8. ASSUME NEW i \in 1 .. m + t, NEW j \in 1 .. m + t, o[i] = o[j] PROVE i = j
  <2>1. CASE i \in 1 .. m /\ o[i] = e[i] /\ j \in 1 .. m /\ o[j] = e[j]
    BY <1>1, <1>8, <2>1
  <2>2. CASE i \in 1 .. m /\ o[i] = e[i] /\ j - m \in 1 .. t /\ o[j] = d[j - m]
    BY <1>1, <1>2, <1>8, <2>2
  <2>3. CASE i - m \in 1 .. t /\ o[i] = d[i - m] /\ j \in 1 .. m /\ o[j] = e[j]
    BY <1>1, <1>2, <1>8, <2>3
  <2>4. CASE i - m \in 1 .. t /\ o[i] = d[i - m] /\ j - m \in 1 .. t /\ o[j] = d[j - m]
    <3>1. i - m = j - m
      BY <1>2, <1>8, <2>4
    <3> QED  BY <3>1
  <2> QED  BY <1>5, <2>1, <2>2, <2>3, <2>4
<1>9. ASSUME NEW x \in S \cup T PROVE \E i \in 1 .. m + t : o[i] = x
  BY <1>1, <1>2, <1>3, <1>4
<1>10. o = [i \in 1 .. m + t |-> o[i]]
  BY DEF o
<1>11. o \in [1 .. m + t -> S \cup T]
  BY <1>7, <1>10
<1>12. o \in Bijection(1 .. m + t, S \cup T)
  BY <1>8, <1>9, <1>11 DEF Bijection, Injection, Surjection, IsInjective
<1> QED  BY <1>12 DEF o

\* A finite set has an order that ends with any member wanted.
LEMMA EndsWith ==
  ASSUME NEW S, IsFiniteSet(S), NEW x \in S
  PROVE  \E m \in Nat \ {0} : \E e \in Bijection(1 .. m, S) : e[m] = x
<1>1. IsFiniteSet(S \ {x})
  BY FS_RemoveElement
<1>2. PICK m \in Nat : ExistsBijection(1 .. m, S \ {x})
  BY <1>1, FS_CardinalityType
<1>3. PICK e : e \in Bijection(1 .. m, S \ {x})
  BY <1>2 DEF ExistsBijection
<1> DEFINE d == [i \in 1 .. 1 |-> x]
           o == [i \in 1 .. m + 1 |-> IF i <= m THEN e[i] ELSE d[i - m]]
<1>4. d \in Bijection(1 .. 1, {x})
  BY DEF Bijection, Injection, Surjection, IsInjective
<1>5. (S \ {x}) \cap {x} = {} /\ (S \ {x}) \cup {x} = S
  OBVIOUS
<1>6. o \in Bijection(1 .. m + 1, (S \ {x}) \cup {x})
  <2> HIDE DEF d
  <2>1. 1 \in Nat
    OBVIOUS
  <2> QED  BY <1>3, <1>4, <1>5, <2>1, Joins
<1>7. o[m + 1] = x
  OBVIOUS
<1>8. m + 1 \in Nat \ {0}
  OBVIOUS
<1> HIDE DEF o
<1> QED  BY <1>5, <1>6, <1>7, <1>8

-----------------------------------------------------------------------------
(* Running a counter's arms one after another.                             *)

\* A count is a counter's, taken through an order's steps from the base.
Steps(f, order, c) ==
  f = [n \in 0 .. Len(order) |->
         IF n = 0 THEN base.counts[c]
         ELSE StepOn(moved[order[n]].steps[c], f[n - 1])]

\* A step keeps a counter in its width.
LEMMA StepTyped == ASSUME NEW kind, NEW n \in U32 PROVE StepOn(kind, n) \in U32
  BY WidthAssumption DEF StepOn, SatAdd, Clamped, U32

\* What an arm's move does to a counter.
Kind(a, c) == moved[a].steps[c]

\* As far as its m-th arm.
\* `f` counts an order's steps on a counter
Runs(f, order, m, c) ==
  /\ f[0] = base.counts[c]
  /\ \A k \in 0 .. m : f[k] \in U32
  /\ \A k \in 1 .. m : f[k] = StepOn(Kind(order[k], c), f[k - 1])

\* Serially's result is the last of such a count.
LEMMA SerialSteps ==
  ASSUME NEW c, NEW order, NEW m \in Nat, Len(order) = m, base.counts[c] \in U32
  PROVE  \E f : Runs(f, order, m, c) /\ Serially(order, c) = f[m]
<1> DEFINE g == [k \in 1 .. m |-> [n \in U32 |-> StepOn(moved[order[k]].steps[c], n)]]
           f == CHOOSE f : Steps(f, order, c)
<1>1. g \in Links(m, U32)
  BY StepTyped DEF Links
<1>2. PICK h : h \in [0 .. m -> U32] /\ Chained(h, base.counts[c], m, g)
  <2> HIDE DEF g
  <2> QED  BY <1>1, Chains
<1>3. ASSUME NEW k \in 1 .. m
      PROVE  h[k] = StepOn(moved[order[k]].steps[c], h[k - 1])
  <2>1. k - 1 \in 0 .. m
    OBVIOUS
  <2>2. h[k - 1] \in U32
    BY <1>2, <2>1
  <2> QED  BY <1>2, <2>2 DEF Chained
<1>4. h[0] = base.counts[c]
  BY <1>2 DEF Chained
<1>5. Steps(h, order, c)
  BY <1>2, <1>3, <1>4 DEF Steps
<1>6. Steps(f, order, c)
  BY <1>5
<1>7. Serially(order, c) = f[m]
  BY DEF Serially, Steps
<1> HIDE DEF f, g
<1>8. /\ f[0] = base.counts[c]
      /\ \A k \in 1 .. m : f[k] = StepOn(moved[order[k]].steps[c], f[k - 1])
      /\ DOMAIN f = 0 .. m /\ f = [n \in 0 .. m |-> f[n]]
  BY <1>6 DEF Steps
<1> DEFINE P == {k \in 0 .. m : f[k] \in U32}
<1>9. 0 \in P /\ \A k \in 1 .. m : k - 1 \in P => k \in P
  BY <1>8, StepTyped
<1>10. \A k \in 0 .. m : k \in P
  <2> HIDE DEF P
  <2> QED  BY <1>9, Climbs
<1>11. Runs(f, order, m, c)
  BY <1>8, <1>10 DEF Runs, Kind
<1> QED  BY <1>7, <1>11

\* A stretch of bumps adds as many, and a u32 holds what it can.
LEMMA BumpsAdd ==
  ASSUME NEW m \in Nat, NEW t \in Nat, NEW f, \A k \in 0 .. m + t : f[k] \in U32,
         \A k \in m + 1 .. m + t : f[k] = SatAdd(f[k - 1], 1)
  PROVE  f[m + t] = Clamped(f[m] + t, MaxU32)
<1> DEFINE P == {k \in 0 .. t : f[m + k] = Clamped(f[m] + k, MaxU32)}
<1>0. \A k \in 0 .. m + t : f[k] \in 0 .. MaxU32
  BY DEF U32
<1>1. 0 \in P
  <2>1. m \in 0 .. m + t /\ m + 0 = m
    OBVIOUS
  <2> QED  BY <1>0, <2>1, WidthAssumption DEF Clamped
<1>2. ASSUME NEW k \in 1 .. t, k - 1 \in P PROVE k \in P
  <2>1. f[m + (k - 1)] = Clamped(f[m] + (k - 1), MaxU32)
    BY <1>2
  <2>2. m + k \in m + 1 .. m + t /\ (m + k) - 1 = m + (k - 1)
    OBVIOUS
  <2>3. f[m + k] = SatAdd(f[m + (k - 1)], 1)
    BY <2>2
  <2>4. f[m] \in 0 .. MaxU32
    BY <1>0
  <2>5. f[m + k] = Clamped(f[m] + k, MaxU32)
    BY <2>1, <2>3, <2>4, WidthAssumption DEF SatAdd, Clamped
  <2> QED  BY <2>5
<1>3. \A k \in 1 .. t : k - 1 \in P => k \in P
  BY <1>2
<1>4. \A k \in 0 .. t : k \in P
  <2> HIDE DEF P
  <2> QED  BY <1>1, <1>3, Climbs
<1> QED  BY <1>4

\* A stretch of steps that are neither bumps nor resets changes nothing.
LEMMA OthersKeep ==
  ASSUME NEW m \in Nat, NEW f, \A k \in 1 .. m : f[k] = f[k - 1]
  PROVE  f[m] = f[0]
<1> DEFINE P == {k \in 0 .. m : f[k] = f[0]}
<1>1. 0 \in P
  OBVIOUS
<1>2. ASSUME NEW k \in 1 .. m, k - 1 \in P PROVE k \in P
  BY <1>2
<1>3. \A k \in 1 .. m : k - 1 \in P => k \in P
  BY <1>2
<1>4. \A k \in 0 .. m : k \in P
  <2> HIDE DEF P
  <2> QED  BY <1>1, <1>3, Climbs
<1> QED  BY <1>4

Bumps(c)  == {a \in Ran(c) : Kind(a, c) = "bump"}
\* The arms that set a counter back to zero.
Resets(c) == {a \in Ran(c) : Kind(a, c) = "reset"}

\* Arms that bump, run after the others, add their number to what those left.
LEMMA BumpsLast ==
  ASSUME NEW c, base.counts[c] \in U32, NEW S, NEW T \in SUBSET Bumps(c),
         S \cap T = {}, S \cup T = Ran(c), NEW m \in Nat, NEW t \in Nat,
         NEW e \in Bijection(1 .. m, S), NEW d \in Bijection(1 .. t, T)
  PROVE  \E order \in SetToSeqs(Ran(c)) : \E f :
           Runs(f, e, m, c) /\ Serially(order, c) = Clamped(f[m] + t, MaxU32)
<1> DEFINE o == [i \in 1 .. m + t |-> IF i <= m THEN e[i] ELSE d[i - m]]
<1>1. o \in Bijection(1 .. m + t, Ran(c))
  BY Joins
<1>2. /\ \A i \in 1 .. m : o[i] = e[i]
      /\ \A i \in m + 1 .. m + t : i - m \in 1 .. t /\ o[i] = d[i - m]
  OBVIOUS
<1>3. \A i \in 1 .. t : d[i] \in Bumps(c)
  BY DEF Bijection, Injection
<1> HIDE DEF o
<1>4. m + t \in Nat
  OBVIOUS
<1>5. o \in SetToSeqs(Ran(c)) /\ Len(o) = m + t
  BY <1>1, <1>4, Enumerates
<1>6. PICK f : Runs(f, o, m + t, c) /\ Serially(o, c) = f[m + t]
  BY <1>4, <1>5, SerialSteps
<1>7. Runs(f, e, m, c)
  <2>1. \A k \in 1 .. m : k \in 1 .. m + t
    OBVIOUS
  <2>2. \A k \in 0 .. m : k \in 0 .. m + t
    OBVIOUS
  <2> QED  BY <1>2, <1>6, <2>1, <2>2 DEF Runs
<1>8. ASSUME NEW k \in m + 1 .. m + t PROVE f[k] = SatAdd(f[k - 1], 1)
  <2>1. o[k] \in Bumps(c)
    BY <1>2, <1>3
  <2>2. Kind(o[k], c) = "bump" /\ k \in 1 .. m + t
    BY <2>1 DEF Bumps
  <2>3. f[k] = StepOn("bump", f[k - 1])
    BY <1>6, <2>2 DEF Runs
  <2> QED  BY <2>3 DEF StepOn
<1>9. f[m + t] = Clamped(f[m] + t, MaxU32)
  BY <1>6, <1>8, BumpsAdd DEF Runs
<1> QED  BY <1>5, <1>6, <1>7, <1>9

\* As many of a finite set's members as are wanted.
LEMMA SomeOf ==
  ASSUME NEW S, IsFiniteSet(S), NEW t \in 0 .. Cardinality(S)
  PROVE  \E T \in SUBSET S : \E d : d \in Bijection(1 .. t, T)
<1> DEFINE n == Cardinality(S)
<1>1. n \in Nat /\ ExistsBijection(1 .. n, S)
  BY FS_CardinalityType
<1>2. PICK e : e \in Bijection(1 .. n, S)
  BY <1>1 DEF ExistsBijection
<1> HIDE DEF n
<1> DEFINE T == {e[i] : i \in 1 .. t}
           d == [i \in 1 .. t |-> e[i]]
<1>3. \A i \in 1 .. t : i \in 1 .. n
  BY <1>1 DEF n
<1>4. \A i, j \in 1 .. n : e[i] \in S /\ (e[i] = e[j] => i = j)
  BY <1>2 DEF Bijection, Injection, IsInjective
<1>5. T \in SUBSET S
  BY <1>3, <1>4
<1>6. d \in Bijection(1 .. t, T)
  BY <1>3, <1>4 DEF Bijection, Injection, Surjection, IsInjective
<1> HIDE DEF T, d
<1> QED  BY <1>5, <1>6

\* With no reset among them, the arms could have run in any order that leaves
\* the bumps to the end.
LEMMA OnlyBumps ==
  ASSUME NEW c, base.counts[c] \in U32, IsFiniteSet(Ran(c)), Resets(c) = {}
  PROVE  \E order \in SetToSeqs(Ran(c)) :
           Serially(order, c)
             = Clamped(base.counts[c] + Cardinality(Bumps(c)), MaxU32)
<1> DEFINE S == Ran(c) \ Bumps(c)
           T == Bumps(c)
           t == Cardinality(T)
<1>1. IsFiniteSet(S) /\ IsFiniteSet(T)
  BY FS_Subset DEF Bumps
<1>2. t \in Nat /\ ExistsBijection(1 .. t, T)
  BY <1>1, FS_CardinalityType
<1>3. PICK m \in Nat : ExistsBijection(1 .. m, S)
  BY <1>1, FS_CardinalityType
<1>4. PICK e : e \in Bijection(1 .. m, S)
  BY <1>3 DEF ExistsBijection
<1>5. PICK d : d \in Bijection(1 .. t, T)
  BY <1>2 DEF ExistsBijection
<1>6. T \in SUBSET Bumps(c) /\ S \cap T = {} /\ S \cup T = Ran(c)
  BY DEF Bumps
<1>7. \A i \in 1 .. m : e[i] \in S
  BY <1>4 DEF Bijection, Injection
<1>8. \A a \in S : Kind(a, c) # "bump" /\ Kind(a, c) # "reset"
  BY DEF Bumps, Resets
<1> HIDE DEF S, T, t
<1>9. PICK order \in SetToSeqs(Ran(c)) : \E f :
        Runs(f, e, m, c) /\ Serially(order, c) = Clamped(f[m] + t, MaxU32)
  BY <1>2, <1>4, <1>5, <1>6, BumpsLast
<1>10. PICK f : Runs(f, e, m, c) /\ Serially(order, c) = Clamped(f[m] + t, MaxU32)
  BY <1>9
<1>11. \A k \in 1 .. m : f[k] = f[k - 1]
  BY <1>7, <1>8, <1>10 DEF StepOn, Runs
<1>12. f[m] = base.counts[c]
  BY <1>10, <1>11, OthersKeep DEF Runs
<1> QED  BY <1>10, <1>12 DEF t, T

\* With a reset among them, as many bumps as are wanted could have come after
\* the last one.
LEMMA ResetThenBumps ==
  ASSUME NEW c, base.counts[c] \in U32, IsFiniteSet(Ran(c)), Resets(c) # {},
         NEW t \in 0 .. Cardinality(Bumps(c)), t <= MaxU32
  PROVE  \E order \in SetToSeqs(Ran(c)) : Serially(order, c) = t
<1>1. IsFiniteSet(Bumps(c))
  BY FS_Subset DEF Bumps
<1>2. PICK T \in SUBSET Bumps(c) : \E d : d \in Bijection(1 .. t, T)
  BY <1>1, SomeOf
<1>3. PICK d : d \in Bijection(1 .. t, T)
  BY <1>2
<1> DEFINE S == Ran(c) \ T
<1>4. PICK a \in Resets(c) : TRUE
  OBVIOUS
<1>5. a \in S /\ Kind(a, c) = "reset"
  BY <1>4 DEF Resets, Bumps
<1>6. IsFiniteSet(S)
  BY FS_Subset
<1>7. PICK m \in Nat \ {0} : \E e \in Bijection(1 .. m, S) : e[m] = a
  BY <1>5, <1>6, EndsWith
<1>8. PICK e \in Bijection(1 .. m, S) : e[m] = a
  BY <1>7
<1>9. S \cap T = {} /\ S \cup T = Ran(c)
  BY DEF Bumps
<1>10. t \in Nat /\ m \in Nat /\ m \in 1 .. m
  OBVIOUS
<1> HIDE DEF S
<1>11. PICK order \in SetToSeqs(Ran(c)) : \E f :
        Runs(f, e, m, c) /\ Serially(order, c) = Clamped(f[m] + t, MaxU32)
  BY <1>3, <1>8, <1>9, <1>10, BumpsLast
<1>12. PICK f : Runs(f, e, m, c) /\ Serially(order, c) = Clamped(f[m] + t, MaxU32)
  BY <1>11
<1>13. f[m] = 0
  BY <1>5, <1>8, <1>10, <1>12 DEF StepOn, Runs
<1> QED  BY <1>10, <1>12, <1>13, WidthAssumption DEF Clamped

-----------------------------------------------------------------------------
(* What the barrier adds up.                                               *)

\* `f` adds the movements up, one outcome after another.
Sums(f, deltas, c) ==
  f = [n \in 0 .. Len(deltas) |->
         IF n = 0 THEN 0 ELSE f[n - 1] + deltas[n].counts[c]]

\* The n-th sum follows from the one before it.
Climbing(f, deltas, n, c) ==
  /\ f[0] = 0
  /\ \A k \in 1 .. n : f[k] = f[k - 1] + deltas[k].counts[c]

\* A total is the last of the sums.
LEMMA TotalSums ==
  ASSUME NEW deltas, NEW c, NEW n \in Nat, Len(deltas) = n,
         \A k \in 1 .. n : deltas[k].counts[c] \in Int
  PROVE  \E f : Climbing(f, deltas, n, c) /\ Total(deltas, c) = f[n]
<1> DEFINE g == [k \in 1 .. n |-> [x \in Int |-> x + deltas[k].counts[c]]]
           f == CHOOSE f : Sums(f, deltas, c)
<1>1. g \in Links(n, Int)
  BY DEF Links
<1>2. PICK h : h \in [0 .. n -> Int] /\ Chained(h, 0, n, g)
  <2>1. 0 \in Int
    OBVIOUS
  <2> HIDE DEF g
  <2> QED  BY <1>1, <2>1, Chains
<1>3. ASSUME NEW k \in 1 .. n PROVE h[k] = h[k - 1] + deltas[k].counts[c]
  <2>1. k - 1 \in 0 .. n
    OBVIOUS
  <2>2. h[k - 1] \in Int
    BY <1>2, <2>1
  <2> QED  BY <1>2, <2>2 DEF Chained
<1>4. h[0] = 0
  BY <1>2 DEF Chained
<1>5. Sums(h, deltas, c)
  BY <1>2, <1>3, <1>4 DEF Sums
<1>6. Sums(f, deltas, c)
  BY <1>5
<1>7. Total(deltas, c) = f[n]
  BY DEF Total, Sums
<1> HIDE DEF f, g
<1>8. Climbing(f, deltas, n, c)
  BY <1>6 DEF Sums, Climbing
<1> QED  BY <1>7, <1>8

\* What an arm's candidate did to a counter.
LEMMA MovedCount ==
  ASSUME base \in Accumulator, NEW a, NEW move, NEW c \in Counter
  PROVE  Candidate(a, move).counts[c]
           = IF ~Muted(a) /\ c \in DOMAIN move.steps
               THEN StepOn(move.steps[c], base.counts[c]) ELSE base.counts[c]
<1> DEFINE x == [k \in Counter |-> IF k \in DOMAIN move.steps
                                     THEN StepOn(move.steps[k], base.counts[k])
                                     ELSE base.counts[k]]
           y == base.solved \/ move.concludes
           s == [base EXCEPT !.counts = x, !.solved = y]
           w == Contribution(a, move.writes)
<1>1. CASE Muted(a)
  BY <1>1 DEF Candidate
<1>2. CASE ~Muted(a)
  <2>1. Candidate(a, move) = Claim(s, w)
    BY <1>2 DEF Candidate
  <2> HIDE DEF x, y, w
  <2>2. s.counts = x /\ Narrated \subseteq DOMAIN s
    BY FieldsKept
  <2> HIDE DEF s
  <2>3. Claim(s, w).counts = s.counts
    BY <2>2, ClaimKeepsCounts
  <2>4. Candidate(a, move).counts[c] = x[c]
    BY <2>1, <2>2, <2>3
  <2> QED  BY <1>2, <2>4 DEF x
<1> QED  BY <1>1, <1>2

\* A movement the barrier takes is that of its arm, muted arms moving nothing.
LEMMA DeltasByArm ==
  ASSUME Gathered, Carried, NEW c \in Counter
  PROVE  /\ Len(Deltas) = Len(arrived)
         /\ \A k \in 1 .. Len(arrived) :
              Deltas[k].counts[c]
                = IF Who(k) \in Ran(c)
                    THEN StepOn(Kind(Who(k), c), base.counts[c]) - base.counts[c]
                    ELSE 0
<1> DEFINE n == Len(arrived)
<1>1. /\ n \in Nat /\ DOMAIN Sorted(arrived) = 1 .. n
      /\ \A k \in 1 .. n : Who(k) \in Finished
  BY ClaimsByArm DEF Claims
<1>2. Len(Deltas) = n
  BY <1>1 DEF Deltas
<1> HIDE DEF n
<1>3. ASSUME NEW k \in 1 .. n
      PROVE  Sorted(arrived)[k].candidate = Candidate(Who(k), moved[Who(k)])
  BY CandidatesByArm DEF n
<1>4. base.counts[c] \in Int
  BY DEF Carried, Accumulator, U32
<1>5. ASSUME NEW k \in 1 .. n
      PROVE  Deltas[k].counts[c]
               = IF Who(k) \in Ran(c)
                   THEN StepOn(Kind(Who(k), c), base.counts[c]) - base.counts[c]
                   ELSE 0
  <2>1. Deltas[k].counts[c]
          = Candidate(Who(k), moved[Who(k)]).counts[c] - base.counts[c]
    BY <1>1, <1>3 DEF Deltas, DeltaFrom
  <2>2. Who(k) \in Ran(c)
          <=> ~Muted(Who(k)) /\ c \in DOMAIN moved[Who(k)].steps
    BY <1>1 DEF Ran
  <2>3. Candidate(Who(k), moved[Who(k)]).counts[c]
           = IF Who(k) \in Ran(c)
               THEN StepOn(Kind(Who(k), c), base.counts[c]) ELSE base.counts[c]
    BY <2>2, MovedCount DEF Carried, Kind
  <2> QED  BY <1>4, <2>1, <2>3
<1> QED  BY <1>2, <1>5 DEF n

\* What a step moves a counter by: a bump one, unless there is no room, a reset
\* all of it back, anything else nothing.
LEMMA DeltaByKind ==
  ASSUME Gathered, Carried, NEW c \in Counter, NEW k \in 1 .. Len(arrived)
  PROVE  LET b == base.counts[c]
             d == Deltas[k].counts[c]
         IN  /\ b \in U32
             /\ d = IF Who(k) \in Bumps(c) THEN IF b < MaxU32 THEN 1 ELSE 0
                    ELSE IF Who(k) \in Resets(c) THEN 0 - b ELSE 0
             /\ ~ (Who(k) \in Bumps(c) /\ Who(k) \in Resets(c))
<1> DEFINE b == base.counts[c]
           d == Deltas[k].counts[c]
           a == Who(k)
<1>1. b \in 0 .. MaxU32
  BY DEF Carried, Accumulator, U32
<1>2. d = IF a \in Ran(c) THEN StepOn(Kind(a, c), b) - b ELSE 0
  BY DeltasByArm
<1> HIDE DEF a, b, d
<1>3. /\ a \in Bumps(c) <=> a \in Ran(c) /\ Kind(a, c) = "bump"
      /\ a \in Resets(c) <=> a \in Ran(c) /\ Kind(a, c) = "reset"
  BY DEF Bumps, Resets
<1>4. CASE a \in Bumps(c)
  <2>1. d = SatAdd(b, 1) - b
    BY <1>2, <1>3, <1>4 DEF StepOn
  <2>2. d = IF b < MaxU32 THEN 1 ELSE 0
    BY <1>1, <2>1, WidthAssumption DEF SatAdd, Clamped
  <2>3. a \notin Resets(c)
    BY <1>3, <1>4
  <2> QED  BY <1>1, <1>4, <2>2, <2>3 DEF a, b, d, U32
<1>5. CASE a \in Resets(c)
  <2>1. d = 0 - b /\ a \notin Bumps(c)
    BY <1>2, <1>3, <1>5 DEF StepOn
  <2> QED  BY <1>1, <1>5, <2>1 DEF a, b, d, U32
<1>6. CASE a \notin Bumps(c) /\ a \notin Resets(c)
  <2>1. a \in Ran(c) => StepOn(Kind(a, c), b) = b
    BY <1>3, <1>6 DEF StepOn
  <2>2. d = 0
    BY <1>1, <1>2, <2>1
  <2> QED  BY <1>1, <1>6, <2>2 DEF a, b, d, U32
<1> QED  BY <1>4, <1>5, <1>6

\* The bumps among the first outcomes.
BumpsIn(k, c) == {i \in 1 .. k : Who(i) \in Bumps(c)}

\* There are as many bumps among the first outcomes as there are bumping arms there.
LEMMA BumpsCounted ==
  ASSUME Gathered, Carried, NEW c \in Counter
  PROVE  /\ Cardinality(BumpsIn(0, c)) = 0
         /\ \A k \in 1 .. Len(arrived) :
              /\ Cardinality(BumpsIn(k - 1, c)) \in Nat
              /\ Cardinality(BumpsIn(k, c))
                   = Cardinality(BumpsIn(k - 1, c))
                       + IF Who(k) \in Bumps(c) THEN 1 ELSE 0
         /\ Cardinality(BumpsIn(Len(arrived), c)) = Cardinality(Bumps(c))
<1> DEFINE n == Len(arrived)
<1>1. n \in Nat
  BY ClaimsByArm
<1>2. \A k \in 0 .. n : IsFiniteSet(BumpsIn(k, c))
  <2> TAKE k \in 0 .. n
  <2>1. IsFiniteSet(1 .. k) /\ BumpsIn(k, c) \in SUBSET (1 .. k)
    BY FS_Interval DEF BumpsIn
  <2> QED  BY <2>1, FS_Subset
<1>3. Cardinality(BumpsIn(0, c)) = 0
  <2>1. BumpsIn(0, c) = {}
    BY DEF BumpsIn
  <2> QED  BY <2>1, FS_EmptySet
<1>4. ASSUME NEW k \in 1 .. n
      PROVE  /\ Cardinality(BumpsIn(k - 1, c)) \in Nat
             /\ Cardinality(BumpsIn(k, c))
                  = Cardinality(BumpsIn(k - 1, c))
                      + IF Who(k) \in Bumps(c) THEN 1 ELSE 0
  <2>1. IsFiniteSet(BumpsIn(k - 1, c)) /\ k \notin BumpsIn(k - 1, c)
    BY <1>2 DEF BumpsIn
  <2>2. Cardinality(BumpsIn(k - 1, c)) \in Nat
    BY <2>1, FS_CardinalityType
  <2>3. CASE Who(k) \in Bumps(c)
    <3>1. BumpsIn(k, c) = BumpsIn(k - 1, c) \cup {k}
      BY <2>3 DEF BumpsIn
    <3>2. Cardinality(BumpsIn(k, c)) = Cardinality(BumpsIn(k - 1, c)) + 1
      BY <2>1, <3>1, FS_AddElement
    <3> QED  BY <2>2, <2>3, <3>2
  <2>4. CASE Who(k) \notin Bumps(c)
    <3>1. BumpsIn(k, c) = BumpsIn(k - 1, c)
      BY <2>4 DEF BumpsIn
    <3> QED  BY <2>2, <2>4, <3>1
  <2> QED  BY <2>3, <2>4
<1>5. Cardinality(BumpsIn(n, c)) = Cardinality(Bumps(c))
  <2> DEFINE w == [i \in BumpsIn(n, c) |-> Who(i)]
  <2>1. /\ \A i, j \in 1 .. n : Who(i) = Who(j) => i = j
        /\ \A a \in Finished : \E i \in 1 .. n : Who(i) = a
    BY ClaimsByArm
  <2>2. w \in Bijection(BumpsIn(n, c), Bumps(c))
    BY <2>1 DEF BumpsIn, Bumps, Ran, Bijection, Injection, Surjection, IsInjective
  <2>3. IsFiniteSet(BumpsIn(n, c))
    BY <1>1, <1>2
  <2> QED  BY <2>2, <2>3, FS_Bijection DEF ExistsBijection
<1> QED  BY <1>3, <1>4, <1>5

\* Without a reset the total is the number of bumps, or nothing where the base
\* stands at its width already.
LEMMA OnlyBumpsTotal ==
  ASSUME Gathered, Carried, NEW c \in Counter, Resets(c) = {}
  PROVE  Total(Deltas, c) = IF base.counts[c] < MaxU32
                              THEN Cardinality(Bumps(c)) ELSE 0
<1> DEFINE n == Len(arrived)
           b == base.counts[c]
           B(k) == Cardinality(BumpsIn(k, c))
<1>1. n \in Nat /\ Len(Deltas) = n
  BY ClaimsByArm, DeltasByArm
<1>2. \A k \in 1 .. n : Deltas[k].counts[c]
                          = IF Who(k) \in Bumps(c) /\ b < MaxU32 THEN 1 ELSE 0
  BY DeltaByKind
<1>3. PICK f : Climbing(f, Deltas, n, c) /\ Total(Deltas, c) = f[n]
  <2>1. \A k \in 1 .. n : Deltas[k].counts[c] \in Int
    BY <1>2
  <2> HIDE DEF n
  <2> QED  BY <1>1, <2>1, TotalSums
<1> DEFINE P == {k \in 0 .. n : f[k] = IF b < MaxU32 THEN B(k) ELSE 0}
<1>4. B(0) = 0 /\ B(n) = Cardinality(Bumps(c))
  BY BumpsCounted
<1>5. \A k \in 1 .. n : /\ B(k - 1) \in Nat
                        /\ B(k) = B(k - 1) + IF Who(k) \in Bumps(c) THEN 1 ELSE 0
  BY BumpsCounted
<1> HIDE DEF n, b, B
<1>6. 0 \in P
  BY <1>1, <1>3, <1>4 DEF Climbing
<1>7. ASSUME NEW k \in 1 .. n, k - 1 \in P PROVE k \in P
  <2>1. f[k] = f[k - 1] + Deltas[k].counts[c]
    BY <1>3 DEF Climbing
  <2> QED  BY <1>2, <1>5, <1>7, <2>1
<1>8. \A k \in 0 .. n : k \in P
  <2>1. \A k \in 1 .. n : k - 1 \in P => k \in P
    BY <1>7
  <2> HIDE DEF P
  <2> QED  BY <1>1, <1>6, <2>1, Climbs
<1>9. n \in P
  BY <1>1, <1>8
<1> QED  BY <1>3, <1>4, <1>9 DEF b

\* With a reset, what the base and the total make is the number of bumps at most.
LEMMA ResetTotal ==
  ASSUME Gathered, Carried, NEW c \in Counter, Resets(c) # {}
  PROVE  /\ Total(Deltas, c) \in Int
         /\ base.counts[c] + Total(Deltas, c) <= Cardinality(Bumps(c))
<1> DEFINE n == Len(arrived)
           b == base.counts[c]
           B(k) == Cardinality(BumpsIn(k, c))
           D(k) == Deltas[k].counts[c]
           Reset(k) == Who(k) \in Resets(c)
<1>1. n \in Nat /\ Len(Deltas) = n
  BY ClaimsByArm, DeltasByArm
<1>0. b \in Nat
  BY DEF Carried, Accumulator, U32
<1>2. \A k \in 1 .. n : D(k) = IF Who(k) \in Bumps(c) THEN IF b < MaxU32 THEN 1 ELSE 0
                               ELSE IF Reset(k) THEN 0 - b ELSE 0
  BY DeltaByKind
<1>3. \A k \in 1 .. n : /\ D(k) \in Int
                        /\ D(k) <= IF Who(k) \in Bumps(c) THEN 1 ELSE 0
                        /\ Reset(k) => D(k) = 0 - b
  <2>1. \A k \in 1 .. n : ~ (Who(k) \in Bumps(c) /\ Who(k) \in Resets(c))
    BY DeltaByKind
  <2> HIDE DEF D, b
  <2> QED  BY <1>0, <1>2, <2>1
<1>4. PICK f : Climbing(f, Deltas, n, c) /\ Total(Deltas, c) = f[n]
  <2>1. \A k \in 1 .. n : Deltas[k].counts[c] \in Int
    BY <1>3
  <2> HIDE DEF n
  <2> QED  BY <1>1, <2>1, TotalSums
<1>5. B(0) = 0 /\ B(n) = Cardinality(Bumps(c))
  BY BumpsCounted
<1>6. \A k \in 1 .. n : /\ B(k - 1) \in Nat
                        /\ B(k) = B(k - 1) + IF Who(k) \in Bumps(c) THEN 1 ELSE 0
  BY BumpsCounted
<1> DEFINE P == {k \in 0 .. n : /\ f[k] \in Int /\ f[k] <= B(k)
                                /\ (\E i \in 1 .. k : Reset(i)) => f[k] <= B(k) - b}
<1>7. f[0] = 0 /\ \A k \in 1 .. n : f[k] = f[k - 1] + D(k)
  BY <1>4 DEF Climbing
<1>8. \E i \in 1 .. n : Reset(i)
  BY ClaimsByArm DEF Resets, Ran
<1> HIDE DEF n, b, B, D, Reset
<1>9. 0 \in P
  BY <1>1, <1>5, <1>7
<1>10. ASSUME NEW k \in 1 .. n, k - 1 \in P PROVE k \in P
  <2>1. /\ f[k] = f[k - 1] + D(k) /\ f[k - 1] \in Int /\ f[k - 1] <= B(k - 1)
        /\ (\E i \in 1 .. k - 1 : Reset(i)) => f[k - 1] <= B(k - 1) - b
        /\ B(k - 1) \in Nat /\ B(k) \in Nat
        /\ D(k) \in Int
        /\ D(k) + B(k - 1) <= B(k)
        /\ Reset(k) => D(k) = 0 - b
        /\ B(k - 1) <= B(k)
    BY <1>3, <1>6, <1>7, <1>10
  <2>2. f[k] \in Int /\ f[k] <= B(k)
    BY <2>1
  <2>3. ASSUME NEW i \in 1 .. k, Reset(i) PROVE f[k] <= B(k) - b
    <3>1. CASE i = k
      BY <1>0, <2>1, <2>3, <3>1
    <3>2. CASE i # k
      <4>1. i \in 1 .. k - 1
        BY <3>2
      <4>2. f[k - 1] <= B(k - 1) - b
        BY <2>1, <2>3, <4>1
      <4> QED  BY <1>0, <2>1, <4>2
    <3> QED  BY <3>1, <3>2
  <2> QED  BY <2>2, <2>3
<1>11. \A k \in 0 .. n : k \in P
  <2>1. \A k \in 1 .. n : k - 1 \in P => k \in P
    BY <1>10
  <2> HIDE DEF P
  <2> QED  BY <1>1, <1>9, <2>1, Climbs
<1>12. n \in P
  BY <1>1, <1>11
<1>13. f[n] \in Int /\ f[n] <= Cardinality(Bumps(c)) - b
  BY <1>5, <1>8, <1>12
<1>14. Cardinality(Bumps(c)) \in Nat
  <2>1. IsFiniteSet(Bumps(c))
    BY FinishedIsFinite, FS_Subset DEF Bumps, Ran
  <2> QED  BY <2>1, FS_CardinalityType
<1> QED  BY <1>0, <1>4, <1>13, <1>14 DEF b

\* In any case the total is a number.
LEMMA TotalTyped ==
  ASSUME Gathered, Carried, NEW c \in Counter
  PROVE  Total(Deltas, c) \in Int
<1>1. CASE Resets(c) = {}
  <2>1. IsFiniteSet(Bumps(c))
    BY FinishedIsFinite, FS_Subset DEF Bumps, Ran
  <2>2. Cardinality(Bumps(c)) \in Nat
    BY <2>1, FS_CardinalityType
  <2> QED  BY <1>1, <2>2, OnlyBumpsTotal
<1> QED  BY <1>1, ResetTotal

\* The folded counters are the base's, moved by the totals.
LEMMA FoldedCounts ==
  ASSUME Gathered, Carried, Folded
  PROVE  Result.counts = [c \in Counter |-> Shift(base.counts[c], Total(Deltas, c))]
<1>1. Answer /\ merged[1].ok
  BY BarrierAnswers DEF Folded
<1>2. Result = Claim(Apply(base, Deltas), Pooled(Claims))
  BY <1>1 DEF Answer, Result
<1> DEFINE x == [c \in Counter |-> Shift(base.counts[c], Total(Deltas, c))]
           y == Latch(base.solved, {Deltas[i].solved : i \in DOMAIN Deltas})
           z == Latch(base.expired, {Deltas[i].expired : i \in DOMAIN Deltas})
           s == [base EXCEPT !.counts = x, !.solved = y, !.expired = z]
<1>3. Apply(base, Deltas) = s
  BY DEF Apply
<1> HIDE DEF x, y, z
<1>4. s.counts = x /\ Narrated \subseteq DOMAIN s
  BY FoldKept DEF Carried
<1> HIDE DEF s
<1>5. Result.counts = x
  BY <1>2, <1>3, <1>4, ClaimKeepsCounts
<1> QED  BY <1>5 DEF x

\* The folded verdict is the base's, or the one an arm may write.
LEMMA FoldedVerdict ==
  ASSUME Gathered, Carried, Folded
  PROVE  Result.judged \in Judgement
<1>1. Answer /\ merged[1].ok
  BY BarrierAnswers DEF Folded
<1> DEFINE s == Apply(base, Deltas)
           w == Pooled(Claims)
           held == {Claims[i]["judged"] : i \in DOMAIN Claims} \ {None}
<1>2. Result = Claim(s, w)
  BY <1>1 DEF Answer, Result
<1>3. Narrated \subseteq DOMAIN s /\ s.judged = base.judged
  <2> DEFINE x == [c \in Counter |-> Shift(base.counts[c], Total(Deltas, c))]
             y == Latch(base.solved, {Deltas[i].solved : i \in DOMAIN Deltas})
             z == Latch(base.expired, {Deltas[i].expired : i \in DOMAIN Deltas})
  <2>1. s = [base EXCEPT !.counts = x, !.solved = y, !.expired = z]
    BY DEF Apply
  <2>2. base \in Accumulator
    BY DEF Carried
  <2> HIDE DEF s, x, y, z
  <2> QED  BY <2>1, <2>2, FoldKept
<1>4. w["judged"] \in {None, <<"steer">>}
  <2>1. \A i \in DOMAIN Claims : Claims[i]["judged"] \in {None, <<"steer">>}
    BY ClaimsByArm DEF Written, NarrativeField, None
  <2>2. w["judged"] = IF held = {} THEN None ELSE CHOOSE claim \in held : TRUE
    BY DEF Pooled, NarrativeField
  <2> QED  BY <2>1, <2>2
<1> HIDE DEF s, w
<1>5. Narrates(Result, s, w)
  BY <1>2, <1>3, ClaimWrites
<1>6. Result.judged = IF w["judged"] = None THEN base.judged ELSE w["judged"][1]
  BY <1>3, <1>5 DEF Narrates
<1>7. base.judged \in Judgement
  BY DEF Carried, Accumulator
<1> QED  BY <1>4, <1>6, <1>7 DEF Judgement

\* An order that ends with as many bumps as the result wants gives the result.
LEMMA CarriedLinearizes == Gathered /\ Carried => Linearizes
<1> SUFFICES ASSUME Gathered, Carried, Folded, NEW c \in Counter
             PROVE  \E order \in SetToSeqs(Ran(c)) :
                      Result.counts[c] = Serially(order, c)
  BY DEF Linearizes
<1> DEFINE b == base.counts[c]
           t == Cardinality(Bumps(c))
           total == Total(Deltas, c)
<1>1. b \in U32 /\ b \in 0 .. MaxU32
  BY DEF Carried, Accumulator, U32
<1>2. IsFiniteSet(Ran(c)) /\ IsFiniteSet(Bumps(c))
  <2>1. Ran(c) \in SUBSET Finished /\ Bumps(c) \in SUBSET Finished
    BY DEF Ran, Bumps
  <2> QED  BY <2>1, FinishedIsFinite, FS_Subset
<1>3. t \in Nat
  BY <1>2, FS_CardinalityType
<1>4. Result.counts[c] = Clamped(b + total, MaxU32)
  BY FoldedCounts DEF Shift
<1>5. CASE Resets(c) = {}
  <2>1. total = IF b < MaxU32 THEN t ELSE 0
    BY <1>5, OnlyBumpsTotal
  <2>2. PICK order \in SetToSeqs(Ran(c)) : Serially(order, c) = Clamped(b + t, MaxU32)
    BY <1>1, <1>2, <1>5, OnlyBumps
  <2> HIDE DEF b, t, total
  <2>3. Clamped(b + total, MaxU32) = Clamped(b + t, MaxU32)
    BY <1>1, <1>3, <2>1, WidthAssumption DEF Clamped
  <2> QED  BY <1>4, <2>2, <2>3
<1>6. CASE Resets(c) # {}
  <2>1. total \in Int /\ b + total <= t
    BY <1>6, ResetTotal
  <2> DEFINE u == Clamped(b + total, MaxU32)
  <2>2. u \in 0 .. t /\ u <= MaxU32
    <3> HIDE DEF b, t, total
    <3> QED  BY <1>1, <1>3, <2>1, WidthAssumption DEF Clamped
  <2> HIDE DEF u
  <2>3. PICK order \in SetToSeqs(Ran(c)) : Serially(order, c) = u
    BY <1>1, <1>2, <1>6, <2>2, ResetThenBumps
  <2> QED  BY <1>4, <2>3 DEF u
<1> QED  BY <1>5, <1>6

(***************************************************************************)
(* FoldLinearizes: however many arms bump, reset or leave a counter in one *)
(* superstep, the counter the barrier folds is one the same arms would     *)
(* have left by running one after another, at zero and at u32::MAX too:    *)
(* no bump and no reset is lost to arms that did not see each other's.     *)
(***************************************************************************)
THEOREM FoldLinearizes == BarrierSpec => []Linearizes
<1> QED  BY GatheredHolds, CarriedHolds, CarriedLinearizes, PTL

-----------------------------------------------------------------------------
(***************************************************************************)
(* TypeCorrect: whatever accumulator a superstep starts from, the barrier  *)
(* holds one outcome per arm at most, and what it folds is a state again:  *)
(* counters inside a u32, a verdict in the vocabulary.                     *)
(***************************************************************************)
THEOREM TypeCorrect == BarrierSpec => []BarrierTypeOK
<1>1. Gathered /\ Carried /\ DOMAIN moved = Finished => BarrierTypeOK
  <2> SUFFICES ASSUME Gathered, Carried, DOMAIN moved = Finished PROVE BarrierTypeOK
    OBVIOUS
  <2>1. Finished \subseteq Arms
    <3> HIDE DEF Candidates
    <3>1. arrived \in Seq([arm : Arms, candidate : Candidates])
      BY DEF Gathered
    <3>2. \A i \in DOMAIN arrived : arrived[i] \in [arm : Arms, candidate : Candidates]
      BY <3>1, ElementOfSeq, LenProperties
    <3> QED  BY <3>2 DEF Finished
  <2>2. Len(arrived) = Cardinality(Finished)
    BY FinishedIsFinite
  <2>3. ASSUME Folded PROVE Result.counts \in [Counter -> U32]
    <3>1. Result.counts = [c \in Counter |-> Shift(base.counts[c], Total(Deltas, c))]
      BY <2>3, FoldedCounts
    <3>2. ASSUME NEW c \in Counter PROVE Shift(base.counts[c], Total(Deltas, c)) \in U32
      <4>1. Total(Deltas, c) \in Int /\ base.counts[c] \in Int
        BY TotalTyped DEF Carried, Accumulator, U32
      <4> QED  BY <4>1, WidthAssumption DEF Shift, Clamped, U32
    <3> QED  BY <3>1, <3>2
  <2>4. ASSUME Folded PROVE Result.judged \in Judgement
    BY <2>4, FoldedVerdict
  <2> QED  BY <2>1, <2>2, <2>3, <2>4 DEF BarrierTypeOK
<1>2. BarrierInit => DOMAIN moved = Finished
  BY DEF BarrierInit, Finished
<1>3. Gathered /\ DOMAIN moved = Finished /\ [BarrierNext]_barrierVars => (DOMAIN moved = Finished)'
  <2> SUFFICES ASSUME Gathered, DOMAIN moved = Finished, [BarrierNext]_barrierVars
               PROVE  (DOMAIN moved = Finished)'
    OBVIOUS
  <2>1. ASSUME NEW arm \in Arms, ArmStep(arm) PROVE (DOMAIN moved = Finished)'
    <3>1. PICK m \in Moves :
            /\ DOMAIN moved' = Finished \cup {arm}
            /\ arrived' = Append(arrived, [arm |-> arm, candidate |-> Candidate(arm, m)])
      BY <2>1 DEF ArmStep
    <3>2. [arm |-> arm, candidate |-> Candidate(arm, m)]
            \in [arm : Arms, candidate : Candidates]
      BY DEF Candidates
    <3>3. /\ DOMAIN arrived = 1 .. Len(arrived) /\ Len(arrived) \in Nat
          /\ DOMAIN arrived' = 1 .. Len(arrived) + 1
          /\ \A i \in DOMAIN arrived : arrived'[i] = arrived[i]
          /\ arrived'[Len(arrived) + 1].arm = arm
      <4> HIDE DEF Candidates
      <4> QED  BY <3>1, <3>2, AppendProperties, LenProperties DEF Gathered
    <3>4. Finished' = Finished \cup {arm}
      BY <3>3 DEF Finished
    <3> QED  BY <3>1, <3>4
  <2>2. ASSUME moved' = moved, arrived' = arrived PROVE (DOMAIN moved = Finished)'
    BY <2>2 DEF Finished
  <2> QED  BY <2>1, <2>2 DEF BarrierNext, Converge, barrierVars
<1> QED  BY <1>1, <1>2, <1>3, GatheredHolds, CarriedHolds, PTL DEF BarrierSpec
=============================================================================
