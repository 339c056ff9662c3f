------------------------------- MODULE Budget -------------------------------
(***************************************************************************)
(* The nested bounds of a run (budget/types.rs, budget/mod.rs): which caps *)
(* make a legal budget, how a budget is narrowed, and which bound a meter  *)
(* has reached.  Durations are integers in one unit of time.               *)
(***************************************************************************)
EXTENDS Saturating

CapName == {"max_iterations", "max_model_calls", "max_tool_calls",
            "max_tokens", "run_timeout", "tool_timeout", "request_timeout",
            "max_retries"}

\* The caps held in 64 bits; the others are u32.
WideCap == {"max_tokens", "run_timeout", "tool_timeout", "request_timeout"}

Caps == {caps \in [CapName -> U64] :
           \A c \in CapName \ WideCap : caps[c] <= MaxU32}

\* Every cap but the retries must bound something.
Scoped == CapName \ {"max_retries"}

Bound         == {"iterations", "run_clock", "model_calls", "tool_calls", "tokens"}
GracefulBound == {"iterations", "model_calls", "tokens"}
NoBound       == "none"

CONSTANT CallsPerTurn        \* TOOL_CALLS_PER_MODEL_CALL: 8 in the code

ASSUME CallsPerTurnAssumption == CallsPerTurn \in Nat \ {0}

\* Mutant of Legal: a tool cap a run can reach first is accepted.
Uncontested(caps) ==
  /\ \A c \in Scoped : caps[c] > 0
  /\ caps["tool_timeout"] < caps["run_timeout"]
  /\ caps["request_timeout"] < caps["tool_timeout"]

\* RunBudget::new accepts these caps.
Legal(caps) ==
  /\ \A c \in Scoped : caps[c] > 0
  /\ caps["tool_timeout"] < caps["run_timeout"]
  /\ caps["request_timeout"] < caps["tool_timeout"]
  /\ caps["max_tool_calls"] >= SatMul(caps["max_model_calls"], CallsPerTurn)

\* The caps RunBudget::narrow hands to RunBudget::new.
Narrowed(budget, caps) == [c \in CapName |-> Least(caps[c], budget[c])]

-----------------------------------------------------------------------------
Meter == [iterations : U32, model_calls : U32, tool_calls : U32,
          tokens : U64, elapsed : U64, effective : U32, inert : U32]

FreshMeter == [iterations |-> 0, model_calls |-> 0, tool_calls |-> 0,
               tokens |-> 0, elapsed |-> 0, effective |-> 0, inert |-> 0]

MeterPass(m, signal) ==
  [m EXCEPT !.iterations = SatAdd(@, 1),
            !.effective  = IF signal THEN SatAdd(@, 1) ELSE @,
            !.inert      = IF signal THEN @ ELSE SatAdd(@, 1)]

\* Mutant of MeterModelCall: the counter wraps.
WrappingModelCall(m, tokens) ==
  [m EXCEPT !.model_calls = (@ + 1) % (MaxU32 + 1),
            !.tokens = SatAdd64(@, tokens)]

MeterModelCall(m, tokens) ==
  [m EXCEPT !.model_calls = SatAdd(@, 1), !.tokens = SatAdd64(@, tokens)]

MeterToolCall(m) == [m EXCEPT !.tool_calls = SatAdd(@, 1)]

MeterAdvance(m, d) == [m EXCEPT !.elapsed = SatAdd64(@, d)]

\* The outermost bound the meter has reached.
Tripped(caps, m) ==
  IF m.iterations >= caps["max_iterations"] THEN "iterations"
  ELSE IF m.elapsed >= caps["run_timeout"] THEN "run_clock"
  ELSE IF m.model_calls >= caps["max_model_calls"] THEN "model_calls"
  ELSE IF m.tokens >= caps["max_tokens"] THEN "tokens"
  ELSE IF m.tool_calls >= caps["max_tool_calls"] THEN "tool_calls"
  ELSE NoBound
=============================================================================
