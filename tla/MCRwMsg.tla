------------------------------ MODULE MCRwMsg ------------------------------
(* Two senders, one below the kmsg task and one at its priority.           *)
EXTENDS RwMsg
CONSTANTS s1, s2
MCSenders == {s1, s2}
MCPeers == {s2}
=============================================================================
