------------------------ MODULE MCConnectionManager -------------------------
(* The instance of ConnectionManager for TLC: three loops, so that two can *)
(* overwrite the connection of a third, and three hosts, so that the index *)
(* wraps.  No symmetry: a liveness property is checked too.                *)
EXTENDS ConnectionManager
=============================================================================
