--------------------------- MODULE MCRpcConsumer ----------------------------
(* Instances of RpcConsumer for TLC.  Channels are interchangeable.        *)
EXTENDS RpcConsumer, TLC

Interchangeable == Permutations(Channels)
=============================================================================
