----------------------------- MODULE ToolClaims -----------------------------
(***************************************************************************)
(* What the repository says of collected evidence, where the tool set does *)
(* something else.  Refuted by a run of ToolUse of its own.                *)
(***************************************************************************)
EXTENDS ToolUse

(***************************************************************************)
(* CollectedMeansRan: tools/types.rs:349 calls a receipt "Proof that a     *)
(* named tool executed and produced the output being recorded".  A call    *)
(* whose arguments did not parse is answered with an outcome that carries  *)
(* one, so evidence may be collected under a tool that never ran.          *)
(***************************************************************************)
CollectedMeansRan == evidence \ {Supplied} \subseteq ran
=============================================================================
