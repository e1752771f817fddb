--------------------------- MODULE ConsensusQueues ---------------------------
(***************************************************************************)
(* The way of a consensus message through the node: a connection drops the *)
(* duplicates of broadcasts and puts the packet into one of two bounded    *)
(* inbound queues; the inbound thread hands it to the consensus library    *)
(* and relays it; what the library sends goes through the outbound queues  *)
(* to the outbound thread.  Each thread drains a bounded number of high    *)
(* priority messages, then takes one of low priority, and waits for either *)
(* queue when both were empty.                                             *)
(*                                                                         *)
(* The library is external: it may send messages at any time during a      *)
(* call, and a message it sends waits for room in the outbound queue.      *)
(***************************************************************************)
EXTENDS ConsensusFfi, Sequences, FiniteSets

CONSTANTS
    Packet,             \* records: variant, mode and an id
    Peer,
    NoPacket, NoPeer,
    Depth,              \* the capacity of each queue
    DedupSize,          \* the capacity of a deduplication queue
    Response            \* the responses of the library that are told apart

VARIABLES
    queues,             \* CALLBACK_QUEUE
    inbound,            \* the inbound thread
    outbound,           \* the outbound thread
    dedup,              \* the deduplication queue of each type of packet
    gossip,             \* history: how often a broadcast was handed to the library, and
                        \* the peers it was relayed for
    hand,               \* what each connection's worker is at in this round of events
    library,            \* the consensus library: off, running, freed or stopped
    late                \* who called the library after it was freed

queueVars == <<queues, inbound, outbound, dedup, gossip, hand, library, late>>

Queue == {"in_high", "in_low", "out_high", "out_low"}

Stop == [packet |-> NoPacket, source |-> NoPeer]

Message == [packet : Packet, source : Peer]

\* A message of the node's own; what it contains does not matter here.
Own == [packet |-> NoPacket, source |-> "node"]

Full(name) == Len(queues[name]) >= Depth[name]

\* A thread: its step, the messages of high priority it has taken in a row, and the
\* message it handles with the part of the loop that took it.
Off == [at |-> "off", n |-> 0, from |-> "high", msg |-> Stop]

LoopStart == [Off EXCEPT !.at = "drain"]

QueuesInit ==
    /\ queues = [name \in Queue |-> <<>>]
    /\ inbound = Off
    /\ outbound = Off
    /\ dedup = [variant \in {p.variant : p \in Packet} |-> <<>>]
    /\ gossip = [p \in Packet |-> [handed |-> 0, relayed |-> {}]]
    /\ hand = [c \in Peer |-> NoPacket]
    /\ library = "off"
    /\ late = {}

-----------------------------------------------------------------------------
(* Queues and calls.                                                       *)

Push(name, msg) == queues' = [queues EXCEPT ![name] = Append(@, msg)]

\* try_send: a message that does not fit is dropped.
send_msg(name, msg) == IF Full(name) THEN UNCHANGED queues ELSE Push(name, msg)

\* send: waits for room.
send_blocking_msg(name, msg) == ~Full(name) /\ Push(name, msg)

send_stop(name) == send_blocking_msg(name, Stop)

\* A call of the library by one of the program's threads or tasks.
CallLibrary(who) == late' = IF library = "running" THEN late ELSE late \cup {who}

\* A message that the library sends, through one of the callbacks it was given.
sending_callback == send_blocking_msg("out_high", Own)

-----------------------------------------------------------------------------
(* Deduplication, and a packet's way into the queues.                      *)

\* The queue is circular: a new entry overwrites the oldest one.
PushCircular(seq, p) ==
    IF Len(seq) < DedupSize THEN Append(seq, p) ELSE Append(Tail(seq), p)

InWindow(p) == \E i \in DOMAIN dedup[p.variant] : dedup[p.variant][i] = p

\* Mutant: a packet that is found to be new is not remembered.
check_and_insert_forgets(p) == UNCHANGED dedup

check_and_insert(p) == dedup' = [dedup EXCEPT ![p.variant] = PushCircular(@, p)]

Deduplicated(p) ==
    p.mode = "Broadcast"
        /\ p.variant \in {"FinalizationMessage", "Transaction", "Block", "FinalizationRecord"}

is_packet_duplicate(p) == Deduplicated(p) /\ InWindow(p)

\* A worker of the pool reads a packet of its connection.
process_message(c, p) ==
    /\ hand[c] = NoPacket
    /\ ~is_packet_duplicate(p)
    /\ IF Deduplicated(p) THEN check_and_insert(p) ELSE UNCHANGED dedup
    /\ hand' = [hand EXCEPT ![c] = p]
    /\ UNCHANGED <<gossip, queues, inbound, outbound, library, late>>

\* The worker queues what it has read, by its priority.
handle_pkt_out(c) ==
    /\ hand[c] # NoPacket
    /\ send_msg(IF hand[c].variant = "Transaction" THEN "in_low" ELSE "in_high",
                [packet |-> hand[c], source |-> c])
    /\ hand' = [hand EXCEPT ![c] = NoPacket]
    /\ UNCHANGED <<inbound, outbound, dedup, gossip, library, late>>

-----------------------------------------------------------------------------
(* The loop of a thread, and what it does with a message: the new state of *)
(* the thread is computed from its old one and its two queues.             *)

Ended(thread) == [Off EXCEPT !.at = "ended"]

\* A message was taken from a queue; Stop ends the thread.
handle_queue_stop(thread, msg, from) ==
    IF msg = Stop THEN Ended(thread)
    ELSE [thread EXCEPT !.at = "call", !.from = from, !.msg = msg]

\* Mutant: the high priority messages are not counted, as with try_iter.
Handled_try_iter(thread) ==
    IF thread.from = "high" THEN [thread EXCEPT !.at = "drain", !.msg = Stop] ELSE LoopStart

\* A message has been handled: the bounded loop goes on, or the outer one starts again.
Handled(thread) ==
    IF thread.from = "high"
    THEN [thread EXCEPT !.at = "drain", !.n = @ + 1, !.msg = Stop]
    ELSE LoopStart

\* May the bounded loop take another high priority message?
MoreHigh(thread, high) == thread.n < Depth[high] /\ queues[high] # <<>>

\* No message of either priority was found: the thread waits for one if it has
\* found the high priority queue empty, and not just used up the bound.
NoMessage(thread, high) == IF thread.n < Depth[high] THEN [Off EXCEPT !.at = "select"] ELSE LoopStart

Pop(name) == queues' = [queues EXCEPT ![name] = Tail(@)]

\* A step of a thread's loop: it takes a message and gets into a new state with it,
\* or finds none.  To find the high priority queue empty and to look into the other
\* one is a single step, because only this thread takes messages from them.
\* select! takes one of either priority, and the outer loop starts again after it.
Taken(thread, high, low) ==
    {t \in {<<high, "high">>, <<low, "low">>, <<high, "low">>} :
        /\ queues[t[1]] # <<>>
        /\ \/ thread.at = "select" /\ t[2] = "low"
           \/ thread.at = "drain" /\ IF MoreHigh(thread, high) THEN t[2] = "high" ELSE t[1] = low}

FoundNone(thread, high, low) ==
    thread.at = "drain" /\ ~MoreHigh(thread, high) /\ queues[low] = <<>>

-----------------------------------------------------------------------------
(* The inbound thread.                                                     *)

InboundLoop ==
    /\ \/ \E t \in Taken(inbound, "in_high", "in_low") :
             /\ inbound' = handle_queue_stop(inbound, Head(queues[t[1]]), t[2])
             /\ Pop(t[1])
       \/ /\ FoundNone(inbound, "in_high", "in_low")
          /\ inbound' = NoMessage(inbound, "in_high")
          /\ UNCHANGED queues
    /\ UNCHANGED <<outbound, dedup, gossip, hand, library, late>>

Relayable(m, response) ==
    /\ m.packet.mode = "Broadcast"
    /\ variant_rebroadcastable(m.packet.variant)
    /\ is_rebroadcastable(response, m.packet.variant)

\* The library sends a message while it handles one: bound, one for each call.
InboundCallback ==
    /\ \/ /\ inbound.at = "call"
          /\ inbound' = [inbound EXCEPT !.at = "sending"]
          /\ UNCHANGED queues
       \/ /\ inbound.at = "sending"
          /\ sending_callback
          /\ inbound' = [inbound EXCEPT !.at = "answer"]
    /\ UNCHANGED <<outbound, dedup, gossip, hand, library, late>>

\* The library has answered: a broadcast is relayed to everybody but its source,
\* unless it is dropped at random, and a received block is then executed.  (A block
\* that was sent directly is sent on to the peers that are not pending: that, and
\* what the answer says about the source, is in CatchUp.)
handle_consensus_inbound_msg ==
    /\ inbound.at \in {"call", "answer"}
    /\ CallLibrary("inbound")
    /\ \E response \in Response, drop_message \in BOOLEAN :
          /\ gossip' = [gossip EXCEPT ![inbound.msg.packet] =
                           [handed  |-> IF Deduplicated(inbound.msg.packet) /\ @.handed < 2
                                        THEN @.handed + 1 ELSE @.handed,
                            relayed |-> IF Relayable(inbound.msg, response) /\ ~drop_message
                                        THEN @.relayed \cup {inbound.msg.source} ELSE @.relayed]]
          /\ inbound' = IF inbound.msg.packet.variant = "Block" /\ response = "Success"
                        THEN [inbound EXCEPT !.at = "execute"] ELSE Handled(inbound)
    /\ UNCHANGED <<queues, outbound, dedup, hand, library>>

execute_block ==
    /\ inbound.at = "execute"
    /\ CallLibrary("inbound")
    /\ inbound' = Handled(inbound)
    /\ UNCHANGED <<queues, outbound, dedup, gossip, hand, library>>

Inbound == InboundLoop \/ InboundCallback \/ handle_consensus_inbound_msg \/ execute_block

-----------------------------------------------------------------------------
(* The outbound thread sends what it takes at once.                        *)

Sent(thread) == IF thread.at = "call" THEN Handled(thread) ELSE thread

Outbound ==
    /\ \/ \E t \in Taken(outbound, "out_high", "out_low") :
             /\ outbound' = Sent(handle_queue_stop(outbound, Head(queues[t[1]]), t[2]))
             /\ Pop(t[1])
       \/ /\ FoundNone(outbound, "out_high", "out_low")
          /\ outbound' = NoMessage(outbound, "out_high")
          /\ UNCHANGED queues
    /\ UNCHANGED <<inbound, dedup, gossip, hand, library, late>>
=============================================================================
