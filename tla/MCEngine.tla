------------------------------ MODULE MCEngine ------------------------------
(* Engine for TLC: the constants are sets of model values.                   *)
EXTENDS Engine
=============================================================================
