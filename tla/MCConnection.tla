---------------------------- MODULE MCConnection -----------------------------
(***************************************************************************)
(* An instance of Connection: each end sends one message of two chunks     *)
(* (the last one full or not) and one ping, which is of high priority.     *)
(***************************************************************************)
EXTENDS Connection

Messages == {"full", "partial"}
From == [m \in Messages |-> IF m = "full" THEN "initiator" ELSE "responder"]
Lengths == [m \in Messages |-> IF m = "full" THEN 4 ELSE 3]
Priority == [m \in Messages |-> "Normal"]
=============================================================================
