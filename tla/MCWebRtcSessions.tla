--------------------------- MODULE MCWebRtcSessions ---------------------------
(* Constants for checking WebRtcSessions with TLC. *)
EXTENDS WebRtcSessions, TLC

=============================================================================
