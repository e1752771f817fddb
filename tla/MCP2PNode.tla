------------------------------ MODULE MCP2PNode ------------------------------
(***************************************************************************)
(* An instance of P2PNode: a given peer and a bootstrapper, and a port     *)
(* from which the given peer may call in itself.                           *)
(***************************************************************************)
EXTENDS P2PNode

CONSTANT host

Hosts == {host}
Listen == {8888, 9999}
Out == {50000}
Self == [ip |-> host, port |-> 7777]
Given == {[ip |-> host, port |-> 8888]}
Bootstrappers == {[ip |-> host, port |-> 9999]}
Lists == {Given \cup Bootstrappers}
Ports == {<<8888, 8888>>, <<9999, 9999>>, <<50000, 8888>>}
=============================================================================
