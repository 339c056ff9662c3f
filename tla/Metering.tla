------------------------------ MODULE Metering ------------------------------
(***************************************************************************)
(* A meter spending against one validated budget (budget/types.rs): passes,*)
(* model calls, the tool calls each of them may fan out to, tokens, and an *)
(* injected clock, in any order.                                           *)
(***************************************************************************)
EXTENDS Budget

CONSTANTS
  CapSets,             \* the caps a budget may be asked for
  Spends               \* tokens a model call spends, and ticks of the clock

ASSUME MeteringAssumption == CapSets \subseteq Caps /\ Spends \subseteq U64

VARIABLES
  caps,                \* the budget's caps, accepted by RunBudget::new
  meter,
  turn                 \* tool calls the last model call may still issue

vars == <<caps, meter, turn>>

Init ==
  /\ caps \in {c \in CapSets : Legal(c)}
  /\ meter = FreshMeter
  /\ turn = 0

Pass(signal) ==
  /\ meter' = MeterPass(meter, signal)
  /\ UNCHANGED <<caps, turn>>

ModelCall(tokens) ==
  /\ meter' = MeterModelCall(meter, tokens)
  /\ turn' = CallsPerTurn
  /\ UNCHANGED caps

ToolCall ==
  /\ turn > 0
  /\ meter' = MeterToolCall(meter)
  /\ turn' = turn - 1
  /\ UNCHANGED caps

Advance(d) ==
  /\ meter' = MeterAdvance(meter, d)
  /\ UNCHANGED <<caps, turn>>

Next ==
  \/ \E signal \in BOOLEAN : Pass(signal)
  \/ \E n \in Spends : ModelCall(n)
  \/ ToolCall
  \/ \E d \in Spends : Advance(d)

Spec == Init /\ [][Next]_vars

-----------------------------------------------------------------------------
(***************************************************************************)
(* TypeOK: every reading stays inside its width however long a run meters. *)
(***************************************************************************)
TypeOK ==
  /\ caps \in Caps
  /\ meter \in Meter
  /\ turn \in 0 .. CallsPerTurn

\* How far out a bound is, the outermost first, in the order `tripped` asks.
Scope(bound) ==
  CASE bound = "iterations"  -> 0
    [] bound = "run_clock"   -> 1
    [] bound = "model_calls" -> 2
    [] bound = "tokens"      -> 3
    [] bound = "tool_calls"  -> 4
    [] OTHER                 -> 5

(***************************************************************************)
(* TrippedStays: a bound once reached is reached for good, and what a run  *)
(* reports only ever moves outward.  A counter that wrapped would read as  *)
(* a fresh run.                                                            *)
(***************************************************************************)
TrippedStays ==
  [][Scope(Tripped(caps, meter)') <= Scope(Tripped(caps, meter))]_vars

(***************************************************************************)
(* TwoMeters: effective and inert passes split the raw passes between them,*)
(* and agree with them at the ceiling.                                     *)
(***************************************************************************)
TwoMeters == meter.iterations = SatAdd(meter.effective, meter.inert)

(***************************************************************************)
(* ToolCallsUnreachable: in a validated budget the tool-call cap, whose    *)
(* overrun loses partial results, is never the bound a run reports         *)
(* (budget/types.rs:43-47).                                                *)
(***************************************************************************)
ToolCallsUnreachable == Tripped(caps, meter) # "tool_calls"
=============================================================================
