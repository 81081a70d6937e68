---------------------------- MODULE MCErrorPath -----------------------------
(* Instances of ErrorPath for TLC, whose constants are sets of model values. *)
EXTENDS ErrorPath
=============================================================================
