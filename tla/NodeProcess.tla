----------------------------- MODULE NodeProcess -----------------------------
(***************************************************************************)
(* The life of the node's process: the main task starts the consensus      *)
(* library, the servers, the out-of-band import, the threads of the queues *)
(* and the poll loop, waits for the signal to shut down, and takes it all  *)
(* down again in an order that must leave nobody calling the library when  *)
(* it is freed.                                                            *)
(***************************************************************************)
EXTENDS QueryServer

CONSTANTS
    MaxChunks,          \* bound: chunks of blocks to import at the start
    MaxReads            \* bound: packets that are read in a round of the poll loop

VARIABLES
    main,               \* where the main task is
    signal,             \* the shutdown signal has been sent
    import,             \* the task that stops the import, and its flag
    chunks,             \* chunks of blocks that are still to be imported
    poll                \* the poll loop, and the packets read in this round

processVars == <<main, signal, import, chunks, poll>>

vars == <<queueVars, serverVars, processVars>>

Init ==
    /\ QueuesInit
    /\ ServerInit
    /\ main = "library"
    /\ signal = FALSE
    /\ import = "off"
    /\ chunks \in [left : 0 .. IF "import" \in load THEN MaxChunks ELSE 0, mayskip : {TRUE}]
    /\ poll = [at |-> "off", read |-> 0]

Goto(at) == main' = at

-----------------------------------------------------------------------------
(* Start.                                                                  *)

start_consensus_layer ==
    /\ main = "library"
    /\ \/ library' = "running" /\ Goto("servers")
       \/ UNCHANGED library /\ Goto("failed")
    /\ UNCHANGED <<queues, inbound, outbound, dedup, gossip, hand, late, serverVars,
                   signal, import, chunks, poll>>

\* The task that stops the import subscribes to the signal, and the servers start.
start_servers ==
    /\ main = "servers"
    /\ \/ /\ server' = [s \in Server |-> "serving"]
          /\ import' = "waiting"
          /\ Goto("catchup")
       \/ UNCHANGED server /\ import' = "waiting" /\ Goto("failed")
    /\ UNCHANGED <<queueVars, task, stream, is_baking, baker, stopped, load, signal, chunks, poll>>

\* The chunks of the catch-up index are taken one after the other, until the
\* import is stopped, or a chunk cannot be downloaded or imported.  Chunks the
\* node already has are skipped up to the first one it has not.
import_missing_blocks ==
    /\ main = "catchup"
    /\ IF chunks.left = 0 \/ import = "stopped"
       THEN Goto("threads") /\ UNCHANGED <<chunks, late>>
       ELSE \/ /\ chunks.mayskip
               /\ chunks' = [chunks EXCEPT !.left = @ - 1]
               /\ UNCHANGED <<main, late>>
            \/ /\ CallLibrary("main")
               /\ chunks' = [left |-> chunks.left - 1, mayskip |-> FALSE]
               /\ Goto("catchup") \/ Goto("threads")
    /\ UNCHANGED <<queues, inbound, outbound, dedup, gossip, hand, library, serverVars,
                   signal, import, poll>>

start_consensus_message_threads ==
    /\ main = "threads"
    /\ inbound' = LoopStart
    /\ outbound' = LoopStart
    /\ Goto("poll")
    /\ UNCHANGED <<queues, dedup, gossip, hand, library, late, serverVars,
                   signal, import, chunks, poll>>

spawn ==
    /\ main = "poll"
    /\ poll' = [at |-> "check", read |-> 0]
    /\ Goto("baker_check") \/ Goto("failed")     \* the peers of the configuration
    /\ UNCHANGED <<queueVars, serverVars, signal, import, chunks>>

start_baker ==
    /\ \/ /\ main = "baker_check"
          /\ Goto(IF Active /\ ~is_baking THEN "baker_library" ELSE "wait")
          /\ UNCHANGED <<is_baking, baker, late>>
       \/ /\ main = "baker_library"
          /\ StartBaker("main")
          /\ Goto("baker_flag")
          /\ UNCHANGED is_baking
       \/ /\ main = "baker_flag"
          /\ is_baking' = TRUE
          /\ Goto("wait")
          /\ UNCHANGED <<baker, late>>
    /\ UNCHANGED <<queues, inbound, outbound, dedup, gossip, hand, library,
                   server, task, stream, stopped, load, signal, import, chunks, poll>>
-----------------------------------------------------------------------------
(* The signal.                                                             *)

\* A task that has subscribed receives the signal; the main task has done so
\* before the first step.
Raise ==
    /\ signal' = TRUE
    /\ import' = IF import = "waiting" THEN "signalled" ELSE import

get_shutdown_signal ==
    /\ ~signal /\ "signal" \in load
    /\ Raise
    /\ UNCHANGED <<queueVars, serverVars, main, chunks, poll>>

\* A server that fails tells the main task.
ServerFails ==
    /\ "server_error" \in load
    /\ \E s \in Server :
          /\ server[s] = "serving"
          /\ server' = [server EXCEPT ![s] = "ended"]
    /\ Raise
    /\ UNCHANGED <<queueVars, task, stream, is_baking, baker, stopped, load, main, chunks, poll>>

stop_importing_blocks ==
    /\ import = "signalled" /\ main # "done"
    /\ import' = "stopped"
    /\ CallLibrary("import")
    /\ UNCHANGED <<queues, inbound, outbound, dedup, gossip, hand, library, serverVars,
                   main, signal, chunks, poll>>

\* A protocol update that is not recognized stops the network.
regenesis_callback ==
    /\ library = "running" /\ "protocol_update" \in load
    /\ stopped' = TRUE
    /\ UNCHANGED <<queueVars, server, task, stream, is_baking, baker, load, processVars>>

-----------------------------------------------------------------------------
(* The poll loop.                                                          *)

PollCheck ==
    /\ poll.at = "check"
    /\ IF stopped
       THEN poll' = [at |-> "ended", read |-> 0] /\ UNCHANGED late
       ELSE poll' = [at |-> "events", read |-> 0] /\ CallLibrary("poll")
    /\ UNCHANGED <<queues, inbound, outbound, dedup, gossip, hand, library, serverVars,
                   main, signal, import, chunks>>

PollRead ==
    /\ poll.at = "events"
    /\ poll.read < MaxReads
    /\ \E c \in Peer \cap load, p \in Packet : p.variant \in load /\ process_message(c, p)
    /\ poll' = [poll EXCEPT !.read = @ + 1]
    /\ UNCHANGED <<serverVars, main, signal, import, chunks>>

PollQueue ==
    /\ \E c \in Peer : handle_pkt_out(c)
    /\ UNCHANGED <<serverVars, processVars>>

PollRoundEnds ==
    /\ poll.at = "events" /\ \A c \in Peer : hand[c] = NoPacket
    /\ poll' = [at |-> "check", read |-> 0]
    /\ UNCHANGED <<queueVars, serverVars, main, signal, import, chunks>>

PollStep == PollCheck \/ PollRead \/ PollQueue \/ PollRoundEnds
-----------------------------------------------------------------------------
(* Shutdown.                                                               *)

Wait ==
    /\ main = "wait" /\ signal
    /\ Goto("rpc")
    /\ UNCHANGED <<queueVars, serverVars, signal, import, chunks, poll>>

\* A server that still runs is told to end.  The main task gives it ten seconds,
\* in which one that serves no request does end, and then goes on without it.
StopServer(s, at, waiting, next) ==
    /\ \/ /\ main = at
          /\ IF server[s] = "ended"
             THEN Goto(next) /\ UNCHANGED server
             ELSE Goto(waiting) /\ server' = [server EXCEPT ![s] = "draining"]
       \/ /\ main = waiting /\ (server[s] = "ended" \/ Serving(s))
          /\ server' = [server EXCEPT ![s] = IF @ = "ended" THEN @ ELSE "detached"]
          /\ Goto(next)
    /\ UNCHANGED <<queueVars, task, stream, is_baking, baker, stopped, load,
                   signal, import, chunks, poll>>

StopRpc == StopServer("rpc", "rpc", "rpc_wait", "grpc2")

\* Mutant: the library is stopped before the threads.
shutdown_early == StopServer("grpc2", "grpc2", "grpc2_wait", "bakeoff_check")

shutdown == StopServer("grpc2", "grpc2", "grpc2_wait", "close")

ServerDrained ==
    /\ \E s \in Server :
          /\ server[s] = "draining" /\ ~Serving(s)
          /\ server' = [server EXCEPT ![s] = "ended"]
    /\ UNCHANGED <<queueVars, task, stream, is_baking, baker, stopped, load, processVars>>

\* Mutant: the inbound thread is not told to stop.
close_outbound ==
    /\ \/ main = "close" /\ stopped' = TRUE /\ Goto(StopOrder[1]) /\ UNCHANGED queues
       \/ \E i \in 1 .. 2 :
             /\ main = StopOrder[i]
             /\ send_stop(StopOrder[i])
             /\ Goto(IF i = 2 THEN "join" ELSE StopOrder[i + 1])
             /\ UNCHANGED stopped
    /\ UNCHANGED <<inbound, outbound, dedup, gossip, hand, library, late,
                   server, task, stream, is_baking, baker, load, signal, import, chunks, poll>>

\* P2PNode::close by the main task.
close ==
    /\ \/ main = "close" /\ stopped' = TRUE /\ Goto(StopOrder[1]) /\ UNCHANGED queues
       \/ \E i \in 1 .. 4 :
             /\ main = StopOrder[i]
             /\ send_stop(StopOrder[i])
             /\ Goto(IF i = 4 THEN "join" ELSE StopOrder[i + 1])
             /\ UNCHANGED stopped
    /\ UNCHANGED <<inbound, outbound, dedup, gossip, hand, library, late,
                   server, task, stream, is_baking, baker, load, signal, import, chunks, poll>>

\* The poll loop and then the threads of the queues are waited for.
join ==
    /\ main = "join" /\ poll.at = "ended" /\ inbound.at = "ended" /\ outbound.at = "ended"
    /\ Goto("bakeoff_check")
    /\ UNCHANGED <<queueVars, serverVars, signal, import, chunks, poll>>

stop_baker ==
    /\ \/ /\ main = "bakeoff_check"
          /\ Goto(IF Active /\ is_baking THEN "bakeoff_library" ELSE "free")
          /\ UNCHANGED <<is_baking, baker, late>>
       \/ /\ main = "bakeoff_library"
          /\ StopBaker("main")
          /\ Goto("bakeoff_flag")
          /\ UNCHANGED is_baking
       \/ /\ main = "bakeoff_flag"
          /\ is_baking' = FALSE
          /\ Goto("free")
          /\ UNCHANGED <<baker, late>>
    /\ UNCHANGED <<queues, inbound, outbound, dedup, gossip, hand, library,
                   server, task, stream, stopped, load, signal, import, chunks, poll>>

\* The library kills its baker, if there still is one, and frees its state; the
\* queues are emptied.
stop ==
    /\ main = "free" /\ baker # "sending"
    /\ baker' = "off"
    /\ library' = "freed"
    /\ queues' = [name \in Queue |-> <<>>]
    /\ Goto("exit")
    /\ UNCHANGED <<inbound, outbound, dedup, gossip, hand, late,
                   server, task, stream, is_baking, stopped, load, signal, import, chunks, poll>>

stop_haskell ==
    /\ main = "exit"
    /\ library' = "stopped"
    /\ Goto("done")
    /\ UNCHANGED <<queues, inbound, outbound, dedup, gossip, hand, late, serverVars,
                   signal, import, chunks, poll>>

-----------------------------------------------------------------------------

Main ==
    \/ start_consensus_layer \/ start_servers \/ import_missing_blocks
    \/ start_consensus_message_threads \/ spawn \/ start_baker \/ Wait
    \/ StopRpc \/ shutdown \/ close \/ join \/ stop_baker \/ stop \/ stop_haskell

Exited == main \in {"done", "failed"}

Next ==
    /\ ~Exited
    /\ \/ Main \/ PollStep
       \/ stop_importing_blocks \/ ServerDrained
       \/ get_shutdown_signal \/ ServerFails \/ regenesis_callback
       \/ (Inbound \/ Outbound) /\ UNCHANGED <<serverVars, processVars>>
       \/ (Client \/ TaskStep \/ NotifyBlock \/ BakerSends) /\ UNCHANGED processVars

Spec == Init /\ [][Next]_vars

\* The threads and the tasks of the program are scheduled, and so is the library:
\* a message it has begun to send is sent once there is room for it.
Fairness ==
    /\ WF_vars(~Exited /\ Main)
    /\ WF_vars(~Exited /\ ServerDrained)
    /\ WF_vars(~Exited /\ (PollCheck \/ PollQueue \/ PollRoundEnds))
    /\ WF_vars(~Exited /\ Inbound /\ UNCHANGED <<serverVars, processVars>>)
    /\ WF_vars(~Exited /\ Outbound /\ UNCHANGED <<serverVars, processVars>>)
    /\ WF_vars(~Exited /\ baker = "sending" /\ BakerSends /\ UNCHANGED processVars)

FairSpec == Spec /\ Fairness
-----------------------------------------------------------------------------
(* Properties.                                                             *)

\* The comment before stop_haskell asks that nobody calls the library once it has
\* been stopped: the threads that the main task joins, and the main task itself,
\* never do so after it was freed.  (A task of a server that did not end within
\* its ten seconds, or the task that stops the import, still may.)
OwnThreadsQuiet == late \cap {"poll", "inbound", "main"} = {}

\* A queue is full and the thread that empties it has ended: a sender that waits
\* for room waits for ever.
Jammed ==
    \/ outbound.at = "ended" /\ \E name \in {"out_high", "out_low"} : Full(name)
    \/ inbound.at = "ended" /\ \E name \in {"in_high", "in_low"} : Full(name)

\* Once the signal is sent the process ends, whatever the clients, the peers and
\* the baker do meanwhile, unless a queue has become full behind the back of a
\* thread that had already stopped.
ShutdownEnds == signal ~> Exited \/ Jammed

\* A low priority message is not starved: a transaction that waits in the inbound
\* queue has the library called for a transaction, however many messages of high
\* priority arrive, unless the thread is stopped or jammed.
LowNotStarved ==
    queues["in_low"] # <<>> ~>
        \/ inbound.at = "call" /\ inbound.msg.packet.variant = "Transaction"
        \/ inbound.at = "ended" \/ Jammed \/ Exited

\* The sender that was handed to the library as a raw pointer is not used after
\* the callback has dropped it, whenever the client leaves.
SenderOnce == ~stream.misused

\* A client that stays to the end of a query's stream has every item, once and in
\* order, even though the library found the channel full; a subscriber to blocks
\* may miss some but never sees one twice or late.
StreamComplete ==
    LET seen == stream.got \o stream.chan
    IN  /\ task.at = "sent" /\ stream.client => seen = [i \in 1 .. stream.items |-> i]
        /\ \A i, j \in DOMAIN seen : i < j => seen[i] < seen[j]

\* Whatever connections deliver it, a broadcast packet that the deduplication queue
\* holds reaches the library at most once and is relayed for one source only,
\* although the check, the queue and the library are the steps of two threads.
GossipOnce ==
    \A p \in Packet : Deduplicated(p) =>
        gossip[p].handed <= 1 /\ Cardinality(gossip[p].relayed) <= 1
=============================================================================
