----------------------------- MODULE QueryServer -----------------------------
(***************************************************************************)
(* The two RPC servers and the request that a task of one of them serves.  *)
(* Bound: one request at a time.                                           *)
(*                                                                         *)
(* The items of a streaming query are written by a thread of the consensus *)
(* library.  The sender of the channel is handed to it as a raw pointer:   *)
(* whoever drops the sender ends the stream, and nobody may use it then.   *)
(***************************************************************************)
EXTENDS Queries, ConsensusQueues

CONSTANTS
    MaxItems,           \* bound: items of a stream
    ChannelSize,        \* capacity of a stream's channel
    Loads,              \* bound: the sets of requests and events that happen together
    Active              \* does the node have the credentials of a baker?

VARIABLES
    server,             \* each server: off, serving, draining, ended or detached
    task,               \* the request that is being served: what it is, and at which step
    stream,             \* the channel of a streaming query
    is_baking,          \* the flag of the ConsensusContainer
    baker,              \* the library's baker thread: off, on or sending a message
    stopped,            \* is_network_stopped
    load                \* the requests and events of this behaviour

serverVars == <<server, task, stream, is_baking, baker, stopped, load>>

Server == {"rpc", "grpc2"}

NoKind == Kind("none", FALSE, FALSE, FALSE)

Idle == [op |-> "none", at |-> "idle", kind |-> NoKind, of |-> "rpc"]

\* sender: nobody's, Rust's, the library's, in the list of subscribers, dropped
\* or leaked; misused: it was used after it had been dropped
NoStream == [sender |-> "none", items |-> 0, next |-> 1, chan |-> <<>>, got |-> <<>>,
             client |-> FALSE, misused |-> FALSE]

ServerInit ==
    /\ server = [s \in Server |-> "off"]
    /\ task = Idle
    /\ stream = NoStream
    /\ is_baking = FALSE
    /\ baker = "off"
    /\ stopped = FALSE
    /\ load \in Loads

Done == task' = Idle

Step(at) == task' = [task EXCEPT !.at = at]

-----------------------------------------------------------------------------
(* A request arrives.                                                      *)

Ready(s, op) == server[s] = "serving" /\ task = Idle /\ op \in load

Accept(s, op, kind, at) ==
    /\ Ready(s, op)
    /\ task' = [op |-> op, at |-> at, kind |-> kind, of |-> s]

\* A query of the first interface: one call, unless an argument cannot be passed.
call_consensus ==
    /\ Ready("rpc", "query")
    /\ \E kind \in V1KindsOf(V1BlockEndpoints \cup V1TransactionEndpoints) :
          Accept("rpc", "query", kind, "arguments")
    /\ UNCHANGED <<stream, server, is_baking, baker, stopped, load, queueVars>>

\* A query of the second interface whose endpoint is enabled.
unary_endpoint ==
    /\ Ready("grpc2", "query")
    /\ \E kind \in {k \in KindsOf(Endpoints \ {"get_instance_state"}) : k.reply = "unary"} :
          Accept("grpc2", "query", kind, "arguments")
    /\ UNCHANGED <<stream, server, is_baking, baker, stopped, load, queueVars>>

stream_endpoint ==
    /\ Ready("grpc2", "stream")
    /\ \E kind \in {k \in KindsOf(Endpoints) : k.reply = "stream"}, n \in 0 .. MaxItems :
          /\ Accept("grpc2", "stream", kind, "arguments")
          /\ stream' = [NoStream EXCEPT !.sender = "rust", !.items = n, !.client = TRUE]
    /\ UNCHANGED <<server, is_baking, baker, stopped, load, queueVars>>

\* The state of an instance: asked for as in a unary query, and then read and
\* sent by a task that is spawned for it.
get_instance_state ==
    /\ \E n \in 0 .. MaxItems :
          /\ Accept("grpc2", "state", Kind("unary", TRUE, TRUE, FALSE), "arguments")
          /\ stream' = [NoStream EXCEPT !.sender = "rust", !.items = n, !.client = TRUE]
    /\ UNCHANGED <<server, is_baking, baker, stopped, load, queueVars>>

\* A subscription: the sender is put into the list of the clients.
get_blocks ==
    /\ Accept("grpc2", "blocks", NoKind, "subscribed")
    /\ stream' = [NoStream EXCEPT !.sender = "listed", !.items = MaxItems, !.client = TRUE]
    /\ UNCHANGED <<server, is_baking, baker, stopped, load, queueVars>>

-----------------------------------------------------------------------------
(* A query is served.                                                      *)

\* The arguments are refused; a sender that Rust still owns is dropped with the
\* handler.
RequireFails ==
    /\ task.at = "arguments" /\ task.kind.requires
    /\ Done
    /\ stream' = NoStream
    /\ UNCHANGED <<server, is_baking, baker, stopped, load, queueVars>>

Failed(kind, response) == ~ensure_ok(kind, response)

\* The query reaches the library.  If it succeeds, a thread of the library (or a
\* task, for an instance's state) sends the items; if not, the sender of a stream
\* is leaked unless the query deallocates it.
QueryLibrary ==
    /\ task.at = "arguments"
    /\ CallLibrary("task")
    /\ \E response \in {query_try_from(code) : code \in -2 .. 1} :
          IF Failed(task.kind, response) \/ task.op = "query"
          THEN /\ Done
               /\ stream' = [NoStream EXCEPT !.sender =
                               IF task.op = "stream" /\ ~task.kind.frees
                               THEN "leaked" ELSE "none"]
          ELSE /\ Step("sending")
               /\ stream' = [stream EXCEPT !.sender =
                               IF task.op = "stream" THEN "library" ELSE "rust"]
    /\ UNCHANGED <<server, is_baking, baker, stopped, load,
                   queues, inbound, outbound, dedup, gossip, hand, library>>

\* Mutant: when the client is gone the sender is dropped, but the channel is
\* reported to be full.
enqueue_bytearray_callback_retry(null) ==
    [code   |-> IF null THEN -2 ELSE IF stream.client /\ Len(stream.chan) < ChannelSize THEN 0 ELSE -1,
     sender |-> IF null \/ ~stream.client THEN "dropped" ELSE stream.sender,
     chan   |-> IF ~null /\ stream.client /\ Len(stream.chan) < ChannelSize
                THEN Append(stream.chan, stream.next) ELSE stream.chan]

\* What the callback answers, and what becomes of the sender and the channel.
enqueue_bytearray_callback(null) ==
    CASE null \/ ~stream.client ->
            [code |-> -2, sender |-> "dropped", chan |-> stream.chan]
      [] ~null /\ stream.client /\ Len(stream.chan) >= ChannelSize ->
            [code |-> -1, sender |-> stream.sender, chan |-> stream.chan]
      [] OTHER ->
            [code |-> 0, sender |-> stream.sender, chan |-> Append(stream.chan, stream.next)]

\* Mutant: an item that did not fit is not sent again.
Enqueued_skip(next, code) == next + 1

\* The next item to send: the same one again when the channel was full.
Enqueued(next, code) == IF code = 0 THEN next + 1 ELSE next

\* The library's thread sends an item, or closes the channel after the last one.
enqueueProtoMessages ==
    /\ task.op = "stream" /\ task.at = "sending" /\ library # "stopped"
    /\ \E r \in {enqueue_bytearray_callback(stream.next > stream.items)} :
          /\ stream' = [stream EXCEPT !.misused = @ \/ stream.sender # "library",
                                     !.sender = r.sender, !.chan = r.chan,
                                     !.next = Enqueued(@, r.code)]
          /\ IF stream.next > stream.items \/ r.code = -2 THEN Step("sent") ELSE UNCHANGED task
    /\ UNCHANGED <<server, is_baking, baker, stopped, load, queueVars>>

\* The task that reads an instance's state calls the library for each item, and
\* waits for room.
SendState ==
    /\ task.op = "state" /\ task.at = "sending"
    /\ IF stream.next > stream.items \/ ~stream.client
       THEN /\ Step("sent")
            /\ stream' = [stream EXCEPT !.sender = "dropped"]
            /\ UNCHANGED late
       ELSE /\ Len(stream.chan) < ChannelSize
            /\ CallLibrary("task")
            /\ stream' = [stream EXCEPT !.chan = Append(@, stream.next), !.next = @ + 1]
            /\ UNCHANGED task
    /\ UNCHANGED <<server, is_baking, baker, stopped, load,
                   queues, inbound, outbound, dedup, gossip, hand, library>>

\* A new block is reported to a subscriber: one that is too slow misses it, and
\* one that is gone is forgotten.
NotifyBlock ==
    /\ task.op = "blocks" /\ library = "running"
    /\ server["grpc2"] = "serving"
    /\ stream.next <= stream.items
    /\ IF stream.client
       THEN /\ stream' = [stream EXCEPT !.next = @ + 1, !.chan =
                             IF Len(@) < ChannelSize THEN Append(@, stream.next) ELSE @]
            /\ UNCHANGED task
       ELSE Done /\ stream' = NoStream
    /\ UNCHANGED <<server, is_baking, baker, stopped, load, queueVars>>

ClientReads ==
    /\ stream.client /\ stream.chan # <<>>
    /\ stream' = [stream EXCEPT !.got = Append(@, Head(stream.chan)), !.chan = Tail(@)]
    /\ UNCHANGED <<task, server, is_baking, baker, stopped, load, queueVars>>

\* The client leaves: the receiver is dropped with what it holds.
ClientLeaves ==
    /\ stream.client
    /\ stream' = [stream EXCEPT !.client = FALSE, !.chan = <<>>]
    /\ UNCHANGED <<task, server, is_baking, baker, stopped, load, queueVars>>

\* The stream has been read to its end.
StreamEnds ==
    /\ task.at = "sent" /\ stream.chan = <<>>
    /\ Done
    /\ stream' = NoStream
    /\ UNCHANGED <<server, is_baking, baker, stopped, load, queueVars>>

-----------------------------------------------------------------------------
(* A transaction is accepted by the library and then queued for the peers. *)

TransactionRequest ==
    /\ \E s \in Server : Accept(s, "transaction", NoKind, "check")
    /\ UNCHANGED <<stream, server, is_baking, baker, stopped, load, queueVars>>

send_transaction ==
    \/ /\ task.op = "transaction" /\ task.at = "check"
       /\ IF stopped THEN Done /\ UNCHANGED late
          ELSE CallLibrary("task") /\ (Done \/ Step("queue"))
       /\ UNCHANGED <<stream, server, is_baking, baker, stopped, load,
                      queues, inbound, outbound, dedup, gossip, hand, library>>
    \/ /\ task.op = "transaction" /\ task.at = "queue"
       /\ send_msg("out_low", Own)
       /\ Done
       /\ UNCHANGED <<stream, server, is_baking, baker, stopped, load,
                      inbound, outbound, dedup, gossip, hand, library, late>>

-----------------------------------------------------------------------------
(* The baker: the flag is tested, the library called and the flag set in   *)
(* three steps of whoever asks.                                            *)

StartBaker(who) ==
    /\ CallLibrary(who)
    /\ baker' = IF baker = "off" THEN "on" ELSE baker

\* The library's thread is killed once it is not in a callback.
StopBaker(who) ==
    /\ baker # "sending"
    /\ CallLibrary(who)
    /\ baker' = "off"

\* The baker bakes a block while it holds the write lock, which the library also
\* holds while it sends messages in a call of the inbound thread, and broadcasts
\* the block afterwards.
BakerSends ==
    /\ library = "running"
    /\ \/ /\ baker = "on" /\ "bake" \in load /\ inbound.at # "sending"
          /\ baker' = "sending"
          /\ UNCHANGED queues
       \/ baker = "sending" /\ sending_callback /\ baker' = "on"
    /\ UNCHANGED <<server, task, stream, is_baking, stopped, load,
                   inbound, outbound, dedup, gossip, hand, library, late>>

BakerRequest ==
    /\ \E op \in {"start_baker", "stop_baker"} : Accept("rpc", op, NoKind, "check")
    /\ UNCHANGED <<stream, server, is_baking, baker, stopped, load, queueVars>>

\* start_baker and stop_baker of the ConsensusContainer, by a task.
BakerTask ==
    /\ task.op \in {"start_baker", "stop_baker"}
    /\ \/ /\ task.at = "check"
          /\ IF Active /\ is_baking = (task.op = "stop_baker") THEN Step("library") ELSE Done
          /\ UNCHANGED <<is_baking, baker, late>>
       \/ /\ task.at = "library"
          /\ IF task.op = "start_baker" THEN StartBaker("task") ELSE StopBaker("task")
          /\ Step("flag")
          /\ UNCHANGED is_baking
       \/ /\ task.at = "flag"
          /\ is_baking' = (task.op = "start_baker")
          /\ Done
          /\ UNCHANGED <<baker, late>>
    /\ UNCHANGED <<server, stream, stopped, load, queues, inbound, outbound, dedup, gossip, hand, library>>

-----------------------------------------------------------------------------
(* Shutdown of the node's network and its threads, asked for by a client.  *)

StopOrder == <<"out_low", "out_high", "in_low", "in_high">>

ShutdownRequest ==
    /\ \E s \in Server : Accept(s, "shutdown", NoKind, "close")
    /\ UNCHANGED <<stream, server, is_baking, baker, stopped, load, queueVars>>

\* P2PNode::close by a task: the flag, and then a Stop for every queue in order.
CloseTask ==
    /\ task.op = "shutdown"
    /\ \/ /\ task.at = "close"
          /\ stopped' = TRUE
          /\ Step(StopOrder[1])
          /\ UNCHANGED queues
       \/ \E i \in 1 .. 4 :
             /\ task.at = StopOrder[i]
             /\ send_stop(StopOrder[i])
             /\ IF i = 4 THEN Done ELSE Step(StopOrder[i + 1])
             /\ UNCHANGED stopped
    /\ UNCHANGED <<server, stream, is_baking, baker, load,
                   inbound, outbound, dedup, gossip, hand, library, late>>

-----------------------------------------------------------------------------

Client ==
    \/ call_consensus \/ unary_endpoint \/ stream_endpoint \/ get_instance_state \/ get_blocks
    \/ TransactionRequest \/ BakerRequest \/ ShutdownRequest \/ ClientReads \/ ClientLeaves

TaskStep ==
    \/ RequireFails \/ QueryLibrary \/ enqueueProtoMessages \/ SendState
    \/ StreamEnds \/ send_transaction \/ BakerTask \/ CloseTask

\* A request keeps its server from ending: a stream does so while its client reads.
Serving(s) ==
    /\ task # Idle /\ task.of = s
    /\ task.op \in {"stream", "state", "blocks"} => stream.client
=============================================================================
