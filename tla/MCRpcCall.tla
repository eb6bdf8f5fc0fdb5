------------------------------ MODULE MCRpcCall ------------------------------
(* Two clients and a provider on one thread. *)
EXTENDS RpcCall
=============================================================================
