----------------------------- MODULE MCOutbound -----------------------------
(* Instances of Outbound for TLC.                                          *)
EXTENDS Outbound

TwoSockets == 1..2
=============================================================================
