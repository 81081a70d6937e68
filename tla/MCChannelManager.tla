-------------------------- MODULE MCChannelManager --------------------------
(* Instances of ChannelManager for TLC, whose constants are sets of model   *)
(* values.  A run with a liveness property uses no symmetry.                *)
EXTENDS ChannelManager
=============================================================================
