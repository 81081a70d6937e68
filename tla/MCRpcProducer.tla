--------------------------- MODULE MCRpcProducer ----------------------------
(* The instance of RpcProducer for TLC: two calls that may be given each   *)
(* other's replies, and two replies to each, so that there is a late       *)
(* duplicate.  No symmetry: a liveness property is checked too.            *)
EXTENDS RpcProducer
=============================================================================
