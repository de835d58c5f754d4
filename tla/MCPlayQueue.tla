----------------------------- MODULE MCPlayQueue -----------------------------
(* Constants for checking PlayQueue with TLC. *)
EXTENDS PlayQueue, TLC

=============================================================================
