----------------------------- MODULE Saturating -----------------------------
(***************************************************************************)
(* The unsigned arithmetic of the crate.  Every counter of a run is a u32  *)
(* moved with saturating operations, never with wrapping or checked ones:  *)
(* a wrapped counter would read as a fresh run.  The two widths are        *)
(* constants so that TLC can put them within reach.                        *)
(***************************************************************************)
EXTENDS Integers

CONSTANTS
  MaxU32,              \* u32::MAX, the largest value of a counter
  MaxU64               \* u64::MAX, the largest token count or duration

ASSUME WidthAssumption ==
  /\ MaxU32 \in Nat \ {0}
  /\ MaxU64 \in Nat
  /\ MaxU32 <= MaxU64

U32 == 0 .. MaxU32
U64 == 0 .. MaxU64

\* Puts an integer back into the range 0 .. max.
Clamped(n, max) == IF n < 0 THEN 0 ELSE IF n > max THEN max ELSE n

SatAdd(m, n)   == Clamped(m + n, MaxU32)
SatSub(m, n)   == Clamped(m - n, MaxU32)
SatMul(m, n)   == Clamped(m * n, MaxU32)
SatAdd64(m, n) == Clamped(m + n, MaxU64)

Least(m, n)    == IF m <= n THEN m ELSE n
Greatest(m, n) == IF m >= n THEN m ELSE n
=============================================================================
