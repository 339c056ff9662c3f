------------------------------ MODULE Chaining ------------------------------
(***************************************************************************)
(* Walking up the numbers: the facts that let a proof follow a recursive   *)
(* function of the model from its start to its end.                        *)
(***************************************************************************)
EXTENDS NaturalsInduction, WellFoundedInduction, SequenceTheorems, TLAPS

\* A nonempty set of numbers has a least one.
LEMMA Smallest ==
  ASSUME NEW T \in SUBSET Nat, T # {}
  PROVE  \E m \in T : \A k \in T : m <= k
<1> DEFINE R == {p \in Nat \X Nat : p[1] < p[2]}
<1>1. IsWellFoundedOn(R, Nat)
  BY NatLessThanWellFounded DEF OpToRel
<1>2. PICK m \in T : \A k \in T : ~ (<<k, m>> \in R)
  <2> HIDE DEF R
  <2> QED  BY <1>1, WFMin
<1>3. \A k \in T : ~ (k < m)
  <2> SUFFICES ASSUME NEW k \in T, k < m PROVE FALSE
    OBVIOUS
  <2>1. <<k, m>> \in R
    OBVIOUS
  <2> QED  BY <1>2, <2>1
<1> QED  BY <1>2, <1>3

\* What holds at the start and is passed on holds all along.
LEMMA Climbs ==
  ASSUME NEW n \in Nat, NEW P, 0 \in P, \A k \in 1 .. n : k - 1 \in P => k \in P
  PROVE  \A k \in 0 .. n : k \in P
<1> DEFINE T == {k \in 0 .. n : k \notin P}
<1> SUFFICES ASSUME T # {} PROVE FALSE
  OBVIOUS
<1>1. PICK m \in T : \A k \in T : m <= k
  <2>1. T \in SUBSET Nat
    OBVIOUS
  <2> HIDE DEF T
  <2> QED  BY <2>1, Smallest
<1>2. m \in 1 .. n /\ m - 1 \in 0 .. n /\ m - 1 < m
  OBVIOUS
<1>3. m - 1 \in P
  BY <1>1, <1>2
<1> QED  BY <1>1, <1>2, <1>3

\* A chain of any length, from any start, each link made from the one before.
Links(n, D) == [1 .. n -> [D -> D]]

Chained(f, start, n, g) ==
  f[0] = start /\ \A k \in 1 .. n : f[k] = g[k][f[k - 1]]

\* Every such chain has its values.
LEMMA Chains ==
  ASSUME NEW D, NEW start \in D, NEW n \in Nat, NEW g \in Links(n, D)
  PROVE  \E f : f \in [0 .. n -> D] /\ Chained(f, start, n, g)
<1> USE DEF Links, Chained
<1> DEFINE Chain(f, m) == f \in [0 .. m -> D] /\ Chained(f, start, m, g)
<1> DEFINE P == {m \in 0 .. n : \E f : Chain(f, m)}
<1>1. 0 \in P
  <2> DEFINE e == [k \in 0 .. 0 |-> start]
  <2>1. Chain(e, 0)
    OBVIOUS
  <2> HIDE DEF e
  <2>2. \E f : Chain(f, 0)
    BY <2>1
  <2> QED  BY <2>2
<1>2. ASSUME NEW m \in 1 .. n, m - 1 \in P PROVE m \in P
  <2>1. PICK f : Chain(f, m - 1)
    BY <1>2
  <2>2. f[m - 1] \in D
    BY <2>1
  <2> DEFINE e == [k \in 0 .. m |-> IF k = m THEN g[m][f[m - 1]] ELSE f[k]]
  <2>3. e \in [0 .. m -> D]
    BY <2>1, <2>2
  <2>4. e[0] = start
    BY <2>1
  <2>5. ASSUME NEW k \in 1 .. m PROVE e[k] = g[k][e[k - 1]]
    <3>1. CASE k = m
      <4>1. e[m] = g[m][f[m - 1]]
        OBVIOUS
      <4>2. m - 1 \in 0 .. m /\ m - 1 # m
        OBVIOUS
      <4>3. e[m - 1] = f[m - 1]
        BY <4>2
      <4> QED  BY <3>1, <4>1, <4>3
    <3>2. CASE k # m
      <4>1. k \in 1 .. m - 1 /\ k - 1 \in 0 .. m /\ k - 1 # m
        BY <3>2
      <4> QED  BY <2>1, <3>2, <4>1
    <3> QED  BY <3>1, <3>2
  <2> HIDE DEF e
  <2>6. \E h : Chain(h, m)
    BY <2>3, <2>4, <2>5
  <2> QED  BY <2>6
<1>3. n \in P
  <2> HIDE DEF P
  <2>1. \A m \in 1 .. n : m - 1 \in P => m \in P
    BY <1>2
  <2>2. \A m \in 0 .. n : m \in P
    BY <1>1, <2>1, Climbs
  <2> QED  BY <2>2
<1> QED  BY <1>3

\* A list appended to is longer by what was appended.
LEMMA Grown ==
  ASSUME NEW S, NEW s \in Seq(S), NEW x \in S
  PROVE  /\ s \o <<x>> = Append(s, x)
         /\ s \o << >> = s
         /\ Len(s \o <<x>>) = Len(s) + 1
         /\ (s \o <<x>>)[Len(s) + 1] = x
         /\ SubSeq(s \o <<x>>, Len(s) + 1, Len(s) + 1) = <<x>>
<1>1. <<x>> \in Seq(S) /\ Len(<<x>>) = 1 /\ Len(s) \in Nat
  BY LenProperties
<1>2. s \o <<x>> = Append(s, x) /\ s \o << >> = s
  BY ConcatEmptySeq
<1>3. /\ Len(s \o <<x>>) = Len(s) + 1 /\ (s \o <<x>>)[Len(s) + 1] = x
  BY <1>1, <1>2, AppendProperties
<1>4. SubSeq(s \o <<x>>, Len(s) + 1, Len(s) + 1) = SubSeq(<<x>>, 1, 1)
  BY <1>1, SubSeqOfConcat2
<1>5. SubSeq(<<x>>, 1, 1) = <<x>>
  BY <1>1, SubSeqFull
<1> QED  BY <1>2, <1>3, <1>4, <1>5
=============================================================================
