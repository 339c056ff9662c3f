--------------------------- MODULE ProfileProofs ---------------------------
(***************************************************************************)
(* What holds of the pure functions every run decides by, whatever it is   *)
(* given: the routing policy, whose one decision is written three times,   *)
(* and the operators a profile is revised with - what a fold does to each  *)
(* field, what narrowing a budget keeps, and what the tighter of two       *)
(* bounds permits.                                                         *)
(***************************************************************************)
EXTENDS Profile, FiniteSetTheorems, TLAPS

-----------------------------------------------------------------------------
(* The three writings of the decision agree, and a run that stops on a     *)
(* terminal route is classified by what stopped it.                        *)

\* An accumulator the policy can read: every counter and threshold present.
Readable(acc) ==
  /\ acc.counts \in [Counter -> U32]
  /\ acc.profile.thresholds \in Thresholds
  /\ acc.solved \in BOOLEAN
  /\ acc.expired \in BOOLEAN

(***************************************************************************)
(* Reading a counter and a threshold by address is reading the fields.     *)
(***************************************************************************)
LEMMA AddressedIsRead ==
  ASSUME NEW acc, Readable(acc), NEW c \in Counter, NEW f \in ThresholdField
  PROVE  Reached(acc, c, f) <=> acc.counts[c] >= acc.profile.thresholds[f]
  BY DEF Readable, Reached, Counted, Addressed, Thresholds

(***************************************************************************)
(* The jq ladder the graph's switch evaluates picks the route the driver's *)
(* Rust does (policy/ladder.rs, policy/mod.rs).                            *)
(***************************************************************************)
THEOREM LadderAgrees ==
  ASSUME NEW acc, Readable(acc)
  PROVE  Ladder(acc) = RouteOf(acc)
<1>1. /\ Reached(acc, "blocked", "blocked")
           <=> acc.counts["blocked"] >= acc.profile.thresholds["blocked"]
      /\ Reached(acc, "attempts", "max_attempts")
           <=> acc.counts["attempts"] >= acc.profile.thresholds["max_attempts"]
      /\ Reached(acc, "unverified", "unverified")
           <=> acc.counts["unverified"] >= acc.profile.thresholds["unverified"]
      /\ Reached(acc, "unproductive", "stuck")
           <=> acc.counts["unproductive"] >= acc.profile.thresholds["stuck"]
      /\ Reached(acc, "computational", "computational")
           <=> acc.counts["computational"]
                 >= acc.profile.thresholds["computational"]
  BY AddressedIsRead DEF Counter, ThresholdField
<1> QED  BY <1>1 DEF Ladder, RouteOf

(***************************************************************************)
(* A route is terminal exactly when one of the four stopping conditions    *)
(* holds, whatever else does.                                              *)
(***************************************************************************)
LEMMA TerminalRoutes ==
  ASSUME NEW acc
  PROVE  RouteOf(acc) \in TerminalRoute <=>
           \/ acc.counts["blocked"] >= acc.profile.thresholds["blocked"]
           \/ acc.solved
           \/ acc.counts["attempts"] >= acc.profile.thresholds["max_attempts"]
           \/ acc.counts["unverified"] >= acc.profile.thresholds["unverified"]
  BY DEF RouteOf, TerminalRoute

(***************************************************************************)
(* The jq condition the graph's loop head stops on is the one the driver   *)
(* asks: it never stops a run the router would continue, nor the reverse.  *)
(***************************************************************************)
THEOREM TerminalConditionAgrees ==
  ASSUME NEW acc, Readable(acc)
  PROVE  TerminalCondition(acc) <=> IsTerminal(acc)
<1>1. /\ Reached(acc, "blocked", "blocked")
           <=> acc.counts["blocked"] >= acc.profile.thresholds["blocked"]
      /\ Reached(acc, "attempts", "max_attempts")
           <=> acc.counts["attempts"] >= acc.profile.thresholds["max_attempts"]
      /\ Reached(acc, "unverified", "unverified")
           <=> acc.counts["unverified"] >= acc.profile.thresholds["unverified"]
      /\ Reached(acc, "restarts", "max_restarts")
           <=> acc.counts["restarts"] >= acc.profile.thresholds["max_restarts"]
  BY AddressedIsRead DEF Counter, ThresholdField
<1> QED  BY <1>1, TerminalRoutes DEF TerminalCondition, IsTerminal

(***************************************************************************)
(* The "solved" route claims nothing the verdict does not check: a run     *)
(* that takes it unsolved, out of attempts, is exhausted, and one that     *)
(* takes it is never stalled or blocked.                                   *)
(***************************************************************************)
THEOREM SolvedRouteIsNoVerdict ==
  ASSUME NEW acc, Readable(acc), RouteOf(acc) = "solved"
  PROVE  /\ Classify(acc) \in {"success", "clean_no_op", "exhausted"}
         /\ ~acc.solved => Classify(acc) = "exhausted"
  BY DEF RouteOf, Classify, Readable

-----------------------------------------------------------------------------
(***************************************************************************)
(* The two halves of a fold: the change, and the record of it.             *)
(***************************************************************************)
Recording(p, change, ok, r, q) ==
  /\ q.history = Append(p.history, [change |-> change, applied |-> ok])
  /\ ~ok => /\ q.revision = p.revision /\ q.thresholds = p.thresholds
            /\ q.caps = p.caps /\ q.muted = p.muted
  /\ ok => /\ q.revision = SatAdd(p.revision, 1)
           /\ q.thresholds = r.thresholds
           /\ q.caps = r.caps /\ q.muted = r.muted
  /\ q = [revision |-> q.revision, thresholds |-> q.thresholds,
          caps |-> q.caps, muted |-> q.muted, history |-> q.history]

\* A fold records its proposal and moves all of it or nothing.
LEMMA FoldByCases ==
  ASSUME NEW p \in ProfileType, NEW change \in Change, NEW limits
  PROVE  Recording(p, change, Acceptable(p, change, limits),
                   ApplyChange(p, change), Fold(p, change, limits))
<1>0. PICK q, r, ok : /\ q = Fold(p, change, limits)
                      /\ r = ApplyChange(p, change)
                      /\ ok = Acceptable(p, change, limits)
  OBVIOUS
<1>1. /\ r = [revision |-> p.revision, thresholds |-> r.thresholds,
              caps |-> r.caps, muted |-> r.muted, history |-> p.history]
  BY <1>0 DEF ApplyChange, Change, ProfileType
<1>2. p = [revision |-> p.revision, thresholds |-> p.thresholds,
           caps |-> p.caps, muted |-> p.muted, history |-> p.history]
  BY DEF ProfileType
<1>3. CASE ~ok
  <2>1. q = [p EXCEPT !.history =
               Append(p.history, [change |-> change, applied |-> ok])]
    BY <1>0, <1>3 DEF Fold
  <2>2. Recording(p, change, ok, r, q)
    BY <1>2, <1>3, <2>1 DEF Recording
  <2> QED  BY <1>0, <2>2
<1>4. CASE ok
  <2> DEFINE counted == [r EXCEPT !.revision = SatAdd(r.revision, 1)]
  <2>1. counted = [revision |-> SatAdd(p.revision, 1), thresholds |-> r.thresholds,
                   caps |-> r.caps, muted |-> r.muted, history |-> p.history]
    BY <1>1
  <2>2. q = [counted EXCEPT !.history =
               Append(counted.history, [change |-> change, applied |-> ok])]
    BY <1>0, <1>4 DEF Fold
  <2> HIDE DEF counted
  <2>3. Recording(p, change, ok, r, q)
    BY <1>4, <2>1, <2>2 DEF Recording
  <2> QED  BY <1>0, <2>3
<1> QED  BY <1>0, <1>3, <1>4 DEF Acceptable

(***************************************************************************)
(* A change moves the one field it names.                                  *)
(***************************************************************************)
Moving(p, change, r) ==
  /\ change.kind = "threshold" =>
       /\ change.field \in ThresholdField /\ change.to \in U32
       /\ r.thresholds = [p.thresholds EXCEPT ![change.field] = change.to]
       /\ r.caps = p.caps /\ r.muted = p.muted
  /\ change.kind = "cap" =>
       /\ change.field \in CapField /\ change.to \in U64
       /\ r.caps = WriteCap(p.caps, change)
       /\ r.thresholds = p.thresholds /\ r.muted = p.muted
  /\ change.kind \in {"mute", "unmute"} =>
       /\ change.field \in ArmName
       /\ r.muted = p.muted \cup {change.field}
            \/ r.muted = p.muted \ {change.field}
       /\ r.thresholds = p.thresholds /\ r.caps = p.caps
  /\ change.kind \in {"threshold", "cap", "mute", "unmute"}

\* A change moves the one field it names.
LEMMA ChangeByCases ==
  ASSUME NEW p \in ProfileType, NEW change \in Change
  PROVE  Moving(p, change, ApplyChange(p, change))
  BY DEF ApplyChange, Change, ProfileType, Moving

\* A cap is written as proposed, or at the top of its width.
LEMMA WrittenCap ==
  ASSUME NEW caps \in Caps, NEW change, change.field \in CapField, change.to \in U64
  PROVE  /\ WriteCap(caps, change) \in Caps
         /\ \A c \in CapName : c # change.field => WriteCap(caps, change)[c] = caps[c]
         /\ WriteCap(caps, change)[change.field] <= change.to
         /\ \/ WriteCap(caps, change)[change.field] = change.to
            \/ WriteCap(caps, change)[change.field] = MaxU32
<1>1. CapField \subseteq CapName /\ change.field \in CapName
  BY DEF CapField, CapName
<1>2. PICK v : v = IF change.field \in WideCap THEN change.to
                   ELSE Least(change.to, MaxU32)
  OBVIOUS
<1>3. /\ v \in U64 /\ v <= change.to /\ (v = change.to \/ v = MaxU32)
      /\ change.field \notin WideCap => v <= MaxU32
  BY <1>2, WidthAssumption DEF Least, U64
<1>4. WriteCap(caps, change) = [caps EXCEPT ![change.field] = v]
  BY <1>2 DEF WriteCap
<1> QED  BY <1>1, <1>3, <1>4 DEF Caps

\* A fold hands back a profile.
LEMMA FoldTyped ==
  ASSUME NEW p \in ProfileType, NEW change \in Change, NEW limits
  PROVE  Fold(p, change, limits) \in ProfileType
<1>1. PICK q, r, ok : /\ q = Fold(p, change, limits)
                      /\ r = ApplyChange(p, change)
                      /\ ok = Acceptable(p, change, limits)
                      /\ Recording(p, change, ok, r, q)
                      /\ Moving(p, change, r)
  BY FoldByCases, ChangeByCases
<1>2. ok \in BOOLEAN
  BY <1>1 DEF Acceptable
<1>3. /\ p.history \in Seq(Recorded) /\ p.revision \in U32
      /\ p.thresholds \in Thresholds /\ p.caps \in Caps /\ p.muted \in SUBSET ArmName
  BY DEF ProfileType
<1>4. q.history \in Seq(Recorded)
  <2>1. [change |-> change, applied |-> ok] \in Recorded
    BY <1>2 DEF Recorded
  <2>2. q.history = Append(p.history, [change |-> change, applied |-> ok])
    BY <1>1 DEF Recording
  <2> QED  BY <1>3, <2>1, <2>2
<1>5. /\ q.revision = p.revision \/ q.revision = SatAdd(p.revision, 1)
      /\ q.thresholds = p.thresholds \/ q.thresholds = r.thresholds
      /\ q.caps = p.caps \/ q.caps = r.caps
      /\ q.muted = p.muted \/ q.muted = r.muted
      /\ q = [revision |-> q.revision, thresholds |-> q.thresholds,
              caps |-> q.caps, muted |-> q.muted, history |-> q.history]
  BY <1>1, <1>2 DEF Recording
<1>6. q.revision \in U32
  BY <1>3, <1>5, WidthAssumption DEF SatAdd, Clamped, U32
<1>7. r.thresholds \in Thresholds
  BY <1>1, <1>3 DEF Moving, Thresholds
<1>8. r.caps \in Caps
  BY <1>1, <1>3, WrittenCap DEF Moving
<1>9. r.muted \in SUBSET ArmName
  BY <1>1, <1>3 DEF Moving
<1> QED  BY <1>1, <1>3, <1>4, <1>5, <1>6, <1>7, <1>8, <1>9 DEF ProfileType

-----------------------------------------------------------------------------
(***************************************************************************)
(* A saturating product grows with its first factor.                       *)
(***************************************************************************)
LEMMA ProductGrows ==
  ASSUME NEW m \in Nat, NEW n \in Nat, NEW k \in Nat, m <= n
  PROVE  SatMul(m, k) <= SatMul(n, k)
<1>1. PICK d \in Nat : n = m + d
  BY n - m \in Nat, n = m + (n - m)
<1>2. n * k = m * k + d * k /\ d * k \in Nat /\ m * k \in Nat
  BY <1>1
<1> QED  BY <1>2, WidthAssumption DEF SatMul, Clamped

(***************************************************************************)
(* The tighter of two legal budgets, cap by cap, is legal.                 *)
(***************************************************************************)
LEMMA NarrowedIsLegal ==
  ASSUME NEW a \in Caps, NEW b \in Caps, Legal(a), Legal(b)
  PROVE  Legal(Narrowed(a, b))
<1> DEFINE n == Narrowed(a, b)
<1>0. /\ \A c \in CapName : a[c] \in Nat /\ b[c] \in Nat
      /\ CapName \ {"max_retries"} = Scoped
  BY WidthAssumption DEF Caps, U64, Scoped
<1>1. \A c \in CapName : n[c] = Least(b[c], a[c])
  BY DEF Narrowed
<1>2. \A c \in CapName : /\ n[c] \in Nat /\ n[c] <= a[c] /\ n[c] <= b[c]
                         /\ n[c] = a[c] \/ n[c] = b[c]
  BY <1>0, <1>1 DEF Least
<1> HIDE DEF n
<1>3. \A c \in Scoped : n[c] > 0
  BY <1>0, <1>2 DEF Legal, Scoped
<1>4. /\ n["tool_timeout"] < n["run_timeout"]
      /\ n["request_timeout"] < n["tool_timeout"]
  BY <1>0, <1>2 DEF Legal, CapName
<1>5. n["max_tool_calls"] >= SatMul(n["max_model_calls"], CallsPerTurn)
  <2>1. /\ SatMul(n["max_model_calls"], CallsPerTurn)
             <= SatMul(a["max_model_calls"], CallsPerTurn)
        /\ SatMul(n["max_model_calls"], CallsPerTurn)
             <= SatMul(b["max_model_calls"], CallsPerTurn)
    BY <1>0, <1>2, ProductGrows, CallsPerTurnAssumption DEF CapName
  <2>2. \A x, y \in Nat : SatMul(x, y) \in Int
    <3> TAKE x, y \in Nat
    <3>1. x * y \in Int
      OBVIOUS
    <3> QED  BY <3>1, WidthAssumption DEF SatMul, Clamped
  <2>3. /\ SatMul(n["max_model_calls"], CallsPerTurn) \in Int
        /\ SatMul(a["max_model_calls"], CallsPerTurn) \in Int
        /\ SatMul(b["max_model_calls"], CallsPerTurn) \in Int
    BY <1>0, <1>2, <2>2, CallsPerTurnAssumption DEF CapName
  <2> QED  BY <1>0, <1>2, <2>1, <2>3 DEF Legal, CapName
<1> QED  BY <1>3, <1>4, <1>5 DEF Legal, n

(***************************************************************************)
(* Recording a proposal adds one to the applied ones, or none.             *)
(***************************************************************************)
LEMMA AppliedAppended ==
  ASSUME NEW h \in Seq(Recorded), NEW change \in Change, NEW ok \in BOOLEAN
  PROVE  LET n == Cardinality(AppliedAt(h))
             e == [change |-> change, applied |-> ok]
         IN  /\ n \in Nat
             /\ Cardinality(AppliedAt(Append(h, e))) = IF ok THEN n + 1 ELSE n
<1> DEFINE e == [change |-> change, applied |-> ok]
           g == Append(h, e)
<1>1. /\ Len(h) \in Nat
      /\ DOMAIN h = 1 .. Len(h)
      /\ DOMAIN g = 1 .. Len(h) + 1
      /\ \A i \in 1 .. Len(h) : g[i] = h[i]
      /\ g[Len(h) + 1] = e
  BY e \in Recorded DEF Recorded
<1>2. e.applied = ok
  OBVIOUS
<1> HIDE DEF g, e
<1>3. /\ IsFiniteSet(AppliedAt(h))
      /\ Cardinality(AppliedAt(h)) \in Nat
      /\ Len(h) + 1 \notin AppliedAt(h)
  <2>1. IsFiniteSet(1 .. Len(h)) /\ AppliedAt(h) \subseteq 1 .. Len(h)
    BY <1>1, FS_Interval DEF AppliedAt
  <2> QED  BY <1>1, <2>1, FS_Subset, FS_CardinalityType
<1>4. AppliedAt(g) = IF ok THEN AppliedAt(h) \cup {Len(h) + 1} ELSE AppliedAt(h)
  BY <1>1, <1>2 DEF AppliedAt
<1>5. Cardinality(AppliedAt(h) \cup {Len(h) + 1}) = Cardinality(AppliedAt(h)) + 1
  BY <1>3, FS_AddElement
<1> QED  BY <1>3, <1>4, <1>5 DEF g, e

-----------------------------------------------------------------------------
(***************************************************************************)
(* What the tighter of two bounds permits, both permit.                    *)
(***************************************************************************)
LEMMA TighterIsBoth ==
  ASSUME NEW a \in BoundsType, NEW b \in BoundsType, NEW change \in Change,
         Permits(Tighter(a, b), change)
  PROVE  Permits(a, change) /\ Permits(b, change)
<1>1. \A x, y \in RangeType, n \in U64 :
         Holds(Overlap(x, y), n) => Holds(x, n) /\ Holds(y, n)
  BY WidthAssumption DEF RangeType, Holds, Overlap, Least, Greatest, U64
<1>2. CASE change.kind = "threshold"
  <2>1. change.field \in ThresholdField /\ change.to \in U64
    BY <1>2, WidthAssumption DEF Change, U32, U64
  <2>2. /\ a.thresholds[change.field] \in RangeType
        /\ b.thresholds[change.field] \in RangeType
    BY <2>1 DEF BoundsType
  <2>3. Holds(Overlap(a.thresholds[change.field], b.thresholds[change.field]), change.to)
    BY <1>2, <2>1 DEF Permits, Tighter
  <2> QED  BY <1>1, <1>2, <2>1, <2>2, <2>3 DEF Permits
<1>3. CASE change.kind = "cap"
  <2>1. change.field \in CapField /\ change.to \in U64
    BY <1>3 DEF Change
  <2>2. a.caps[change.field] \in RangeType /\ b.caps[change.field] \in RangeType
    BY <2>1 DEF BoundsType
  <2>3. Holds(Overlap(a.caps[change.field], b.caps[change.field]), change.to)
    BY <1>3, <2>1 DEF Permits, Tighter
  <2> QED  BY <1>1, <1>3, <2>1, <2>2, <2>3 DEF Permits
<1>4. CASE change.kind \in {"mute", "unmute"}
  BY <1>4 DEF Permits, Tighter
<1> QED  BY <1>2, <1>3, <1>4 DEF Change

(***************************************************************************)
(* Bounds narrowed by themselves are themselves.                           *)
(***************************************************************************)
LEMMA TighterOfOne ==
  ASSUME NEW b \in BoundsType
  PROVE  Tighter(b, b) = b
<1>1. \A r \in RangeType : Overlap(r, r) = r
  BY WidthAssumption DEF RangeType, Overlap, Least, Greatest, U64
<1>2. /\ \A f \in ThresholdField : b.thresholds[f] \in RangeType
      /\ \A c \in CapField : b.caps[c] \in RangeType
      /\ b.thresholds = [f \in ThresholdField |-> b.thresholds[f]]
      /\ b.caps = [c \in CapField |-> b.caps[c]]
      /\ b.muting_window \in Int /\ b.max_amendments \in Int
      /\ b = [thresholds |-> b.thresholds, caps |-> b.caps,
              mutable_arms |-> b.mutable_arms, muting_window |-> b.muting_window,
              max_amendments |-> b.max_amendments]
  BY DEF BoundsType, U32
<1>3. /\ [f \in ThresholdField |-> Overlap(b.thresholds[f], b.thresholds[f])] = b.thresholds
      /\ [c \in CapField |-> Overlap(b.caps[c], b.caps[c])] = b.caps
  BY <1>1, <1>2
<1>4. /\ Greatest(b.muting_window, b.muting_window) = b.muting_window
      /\ Least(b.max_amendments, b.max_amendments) = b.max_amendments
  BY <1>2 DEF Least, Greatest
<1> QED  BY <1>2, <1>3, <1>4 DEF Tighter
=============================================================================
