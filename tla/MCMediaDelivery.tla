--------------------------- MODULE MCMediaDelivery ---------------------------
(* Constants for checking MediaDelivery with TLC. *)
EXTENDS MediaDelivery, TLC

=============================================================================
