------------------------------ MODULE MCButton ------------------------------
(* The button for TLC: the debounce is exactly the period of the repeated  *)
(* line, as in the code; the outbox holds one line, so that a fault line   *)
(* may be in the way of a press; one disconnection falls anywhere.         *)
EXTENDS Button
=============================================================================
