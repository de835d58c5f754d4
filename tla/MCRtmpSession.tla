--------------------------- MODULE MCRtmpSession ---------------------------
(* Constants for checking RtmpSession with TLC. *)
EXTENDS RtmpSession, TLC

MCSymmetry == Permutations(Session)

=============================================================================
