----------------------------- MODULE MCGateway ------------------------------
(* Instances of Gateway for TLC, whose constants are sets of model values.  *)
EXTENDS Gateway
=============================================================================
