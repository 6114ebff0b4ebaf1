---------------------------- MODULE MCCollector ----------------------------
(* Instances of Collector for TLC. *)
EXTENDS Collector, TLC

CONSTANTS q1, q2
=============================================================================
