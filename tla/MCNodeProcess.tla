---------------------------- MODULE MCNodeProcess ----------------------------
(***************************************************************************)
(* Instance: two peers, a transaction that is broadcast and a block that   *)
(* is sent directly, queues that one message fills (two for messages of    *)
(* the library), streams of two items over a channel for one.  A load is   *)
(* what happens together in a behaviour; their union has every event.      *)
(***************************************************************************)
EXTENDS NodeProcess

CONSTANTS p1, p2

Packets ==
    {[variant |-> "Block", mode |-> "Direct"],
     [variant |-> "Transaction", mode |-> "Broadcast"]}

Peers == {p1, p2}

Depths == [name \in Queue |-> IF name = "out_high" THEN 2 ELSE 1]

Responses == {"Success", "DuplicateEntry"}

LoadSets ==
    {{p1, p2, "Transaction", "signal"},
     {p1, "Block", "Transaction"},
     {p2, "Block", "bake"},
     {"query", "signal", "server_error"},
     {"stream", "state", "blocks"},
     {"transaction", "start_baker", "stop_baker"},
     {"bake", "signal"},
     {"shutdown", "signal"},
     {"import", "protocol_update", "signal"},
     {"transaction", "protocol_update"}}
=============================================================================
