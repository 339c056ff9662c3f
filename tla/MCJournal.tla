----------------------------- MODULE MCJournal -----------------------------
(***************************************************************************)
(* The small runs of MCDriveLoop, driven in process with their journal.    *)
(***************************************************************************)
EXTENDS Journal, MCDriveLoop
=============================================================================
