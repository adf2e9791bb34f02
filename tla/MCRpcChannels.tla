---------------------------- MODULE MCRpcChannels ----------------------------
(* RpcChannels on a small instance.                                          *)
EXTENDS RpcChannels

CONSTANTS p, q

MCPaths == {p, q}
=============================================================================
