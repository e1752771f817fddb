------------------------------- MODULE P2PNode -------------------------------
(***************************************************************************)
(* The node's connections.  A connection starts as a candidate, made by    *)
(* accept or by connect, and is promoted to a peer when the handshake is   *)
(* done.  Both sets change in the poll loop only: every other thread, and  *)
(* the handlers of network events, leave a request in a bounded queue that *)
(* the loop works off at its next round; a request that finds the queue    *)
(* full is lost.                                                           *)
(*                                                                         *)
(* The node is of type Node (not a bootstrapper), and remote nodes do one  *)
(* handshake per connection.                                               *)
(***************************************************************************)
EXTENDS Integers, Sequences, FiniteSets, SequencesExt

CONSTANTS
    Ip,
    ListenPort,         \* ports on which nodes listen
    OutPort,            \* ports from which nodes connect
    PeerLists,          \* the lists of addresses that peers may send
    Tells,              \* <<p, q>>: a node on port p may say that it listens on port q
    SelfAddr,           \* where this node listens
    ConfigNodes,        \* the given addresses of the configuration
    BootstrapNodes,     \* the addresses of the bootstrappers
    HardConnectionLimit,
    MaxAllowedNodes,
    DesiredNodes,
    DisallowMultiplePeersOnIp,
    MaxChanges,         \* the capacity of the queue of connection changes
    MaxToken,           \* bound: connections ever made
    MaxRequests         \* bound: requests of other threads

Port == ListenPort \cup OutPort

Addr == [ip : Ip, port : Port]

\* The addresses at which a node can be reached.
NodeAddr == [ip : Ip, port : ListenPort]

PeerType == {"Node", "Bootstrapper"}

Token == 1..MaxToken

ASSUME ConfigAssumption ==
    /\ ConfigNodes \subseteq NodeAddr
    /\ BootstrapNodes \subseteq NodeAddr
    /\ PeerLists \subseteq SUBSET NodeAddr
    /\ IsFiniteSet(NodeAddr)
    /\ MaxToken \in Nat
    /\ MaxChanges \in Nat

VARIABLES
    next_token,
    conn_candidates,
    connections,
    given_addresses,
    bans,               \* the persistent ban list: IPs
    soft_bans,          \* IPs and socket addresses
    changes,            \* the queue conn_changes
    at,                 \* where the poll loop is
    started,            \* has the main thread called the given peers?
    requests            \* how many requests other threads have made

lists == <<next_token, conn_candidates, connections, given_addresses, bans, soft_bans>>

vars == <<lists, changes, at, started, requests>>

Connection ==
    [token : Nat, addr : Addr, external_port : Port, peer_type : PeerType,
     self_id : BOOLEAN,     \* is the remote end's identity known?
     closed : BOOLEAN]      \* the remote end has closed the connection

Change ==
    [kind : {"Promotion", "Expulsion", "Removal"}, token : Nat]
        \cup [kind : {"RemoveAll"}, tokens : SUBSET Nat]
        \cup [kind : {"NewConn"}, addr : NodeAddr, peer_type : PeerType, given : BOOLEAN]
        \cup [kind : {"NewPeers"}, addrs : SUBSET NodeAddr]

Init ==
    /\ next_token = 1
    /\ conn_candidates = {}
    /\ connections = {}
    /\ given_addresses = ConfigNodes
    /\ bans = {}
    /\ soft_bans = {}
    /\ changes = <<>>
    /\ at = "accept"
    /\ started = FALSE
    /\ requests = 0

-----------------------------------------------------------------------------
external_addr(c) == [ip |-> c.addr.ip, port |-> c.external_port]

All == conn_candidates \cup connections

get_peer_stats(type) == {c \in connections : c.peer_type = type}

is_given_connection(c) == {c.addr, external_addr(c)} \cap given_addresses # {}

unconnected_given_addresses ==
    given_addresses \ UNION {{c.addr, external_addr(c)} : c \in connections}

is_connected(addr) == \E c \in connections : addr \in {c.addr, external_addr(c)}

is_soft_banned(addr) == {addr, addr.ip} \cap soft_bans # {}

is_banned(ip) == ip \in bans

find_conn_to(addr) == {c.token : c \in {d \in All : d.addr = addr}}

find_conn_tokens_by_ip(ip) == {c.token : c \in {d \in All : d.addr.ip = ip}}

\* A change that finds the queue full is lost.
register_conn_change(change) ==
    changes' = IF Len(changes) < MaxChanges THEN Append(changes, change) ELSE changes

NewConnection(token, addr, type) ==
    [token |-> token, addr |-> addr, external_port |-> addr.port, peer_type |-> type,
     self_id |-> FALSE, closed |-> FALSE]

remove_connections(tokens) ==
    /\ conn_candidates' = {c \in conn_candidates : c.token \notin tokens}
    /\ connections' = {c \in connections : c.token \notin tokens}

-----------------------------------------------------------------------------
(* accept and connect.                                                     *)

\* Is there room, and no connection yet, for one that comes in from addr?
Acceptable(addr) ==
    /\ ~is_banned(addr.ip)
    /\ Cardinality(conn_candidates) + Cardinality(connections) < HardConnectionLimit
    /\ \A c \in All : c.addr.ip = addr.ip =>
          ~DisallowMultiplePeersOnIp /\ addr.port \notin {c.addr.port, c.external_port}
    /\ ~is_soft_banned(addr)

\* Mutant: the token of a connection that is gone is used again.
accept_reuse(addr) ==
    /\ at = "accept"
    /\ Acceptable(addr)
    /\ LET free == Token \ {c.token : c \in All}
       IN  /\ free # {}
           /\ conn_candidates' = conn_candidates \cup {NewConnection(Min(free), addr, "Node")}
    /\ UNCHANGED <<next_token, connections, given_addresses, bans, soft_bans, changes, at, started,
                   requests>>

accept(addr) ==
    /\ at = "accept"
    /\ next_token <= MaxToken
    /\ Acceptable(addr)
    /\ conn_candidates' = conn_candidates \cup {NewConnection(next_token, addr, "Node")}
    /\ next_token' = next_token + 1
    /\ UNCHANGED <<connections, given_addresses, bans, soft_bans, changes, at, started, requests>>

\* Mutant: candidates are not looked at.
MayConnect_peers(addr, type, respect_max_peers) ==
    /\ respect_max_peers /\ type = "Node" =>
          Cardinality(get_peer_stats("Node")) < MaxAllowedNodes
    /\ addr # SelfAddr
    /\ ~is_banned(addr.ip)
    /\ ~is_soft_banned(addr)
    /\ ~is_connected(addr)

\* Will connect try to reach addr?
MayConnect(addr, type, respect_max_peers) ==
    /\ respect_max_peers /\ type = "Node" =>
          Cardinality(get_peer_stats("Node")) < MaxAllowedNodes
    /\ addr # SelfAddr
    /\ ~is_banned(addr.ip)
    /\ ~is_soft_banned(addr)
    /\ \A c \in All :
          IF DisallowMultiplePeersOnIp THEN c.addr.ip # addr.ip
          ELSE addr \notin {c.addr, external_addr(c)}

\* connect for the addresses in turn: those in reached get a connection and
\* those in failed do not answer.
ConnectTo(addrs, type, respect_max_peers, reached, failed) ==
    /\ LET allowed == {a \in addrs : MayConnect(a, type, respect_max_peers)}
       IN  /\ reached \cup failed \subseteq allowed
           /\ \A a \in allowed \ (reached \cup failed) :
                 DisallowMultiplePeersOnIp /\ \E b \in reached : b.ip = a.ip
    /\ reached \cap failed = {}
    /\ DisallowMultiplePeersOnIp =>
          \A a \in reached, b \in reached : a.ip = b.ip => a = b
    /\ next_token + Cardinality(reached) <= MaxToken + 1
    /\ next_token' = next_token + Cardinality(reached)
    /\ \E tokens \in [reached -> Token] :
          /\ \A a \in reached : next_token <= tokens[a] /\ tokens[a] < next_token'
          /\ \A a, b \in reached : tokens[a] = tokens[b] => a = b
          /\ conn_candidates' = conn_candidates
                \cup {NewConnection(tokens[a], a, type) : a \in reached}
    /\ soft_bans' = IF type = "Node" THEN soft_bans \cup failed ELSE soft_bans

-----------------------------------------------------------------------------
(* process_conn_change.                                                    *)

NewConn(change) ==
    /\ \E reached \in SUBSET {change.addr} : \E failed \in SUBSET {change.addr} :
          /\ ConnectTo({change.addr}, change.peer_type, ~change.given, reached, failed)
          /\ given_addresses' = IF change.given THEN given_addresses \cup reached
                                ELSE given_addresses
    /\ UNCHANGED <<connections, bans>>

\* Mutant: no look at the address on which the peer listens.
Promotion_unchecked(change) ==
    /\ LET promoted == {c \in conn_candidates : c.token = change.token}
       IN  /\ conn_candidates' = conn_candidates \ promoted
           /\ connections' = connections \cup promoted
    /\ UNCHANGED <<next_token, given_addresses, bans, soft_bans>>

\* The candidate becomes a peer, unless there is a connection to it already.
Promotion(change) ==
    /\ LET promoted == {c \in conn_candidates : c.token = change.token}
       IN  /\ conn_candidates' = conn_candidates \ promoted
           /\ connections' = connections \cup {c \in promoted : ~is_connected(external_addr(c))}
    /\ UNCHANGED <<next_token, given_addresses, bans, soft_bans>>

\* Stops as soon as there are enough peers; candidates do not count.
NewPeers(change) ==
    /\ LET count == Cardinality(get_peer_stats("Node"))
       IN  \E tried \in SUBSET change.addrs : \E reached \in SUBSET tried : \E failed \in SUBSET tried :
              /\ tried # {} => count + Cardinality(reached) <= DesiredNodes /\ count < DesiredNodes
              /\ tried # change.addrs => count + Cardinality(reached) >= DesiredNodes
              /\ ConnectTo(tried, "Node", TRUE, reached, failed)
    /\ UNCHANGED <<connections, given_addresses, bans>>

Expulsion(change) ==
    /\ remove_connections({change.token})
    /\ soft_bans' = soft_bans \cup {c.addr.ip : c \in {d \in All : d.token = change.token}}
    /\ UNCHANGED <<next_token, given_addresses, bans>>

Removal(tokens) ==
    /\ remove_connections(tokens)
    /\ UNCHANGED <<next_token, given_addresses, bans, soft_bans>>

process_conn_change(change) ==
    \/ change.kind = "NewConn" /\ NewConn(change)
    \/ change.kind = "Promotion" /\ Promotion(change)
    \/ change.kind = "NewPeers" /\ NewPeers(change)
    \/ change.kind = "Expulsion" /\ Expulsion(change)
    \/ change.kind = "Removal" /\ Removal({change.token})
    \/ change.kind = "RemoveAll" /\ Removal(change.tokens)

PollChange ==
    /\ at = "changes"
    /\ changes # <<>>
    /\ process_conn_change(Head(changes))
    /\ changes' = Tail(changes)
    /\ UNCHANGED <<at, started, requests>>

Goto(from, to) ==
    /\ at = from
    /\ at' = to
    /\ UNCHANGED <<started, requests>>

\* No more connections are waiting, or enough were accepted in this round.
PollAcceptDone == Goto("accept", "changes") /\ UNCHANGED <<lists, changes>>

PollChangesDone == changes = <<>> /\ Goto("changes", "events") /\ UNCHANGED <<lists, changes>>

PollEventsDone == Goto("events", "accept") /\ UNCHANGED <<lists, changes>>

-----------------------------------------------------------------------------
(* process_network_events: what a read from a connection does to it, and   *)
(* the change that it registers.                                           *)

Event(c) ==
    /\ at = "events"
    /\ c \in All
    /\ ~c.closed
    /\ UNCHANGED <<next_token, given_addresses, bans, soft_bans, at, started, requests>>

Update(c, d) ==
    /\ conn_candidates' = {IF e = c THEN d ELSE e : e \in conn_candidates}
    /\ connections' = {IF e = c THEN d ELSE e : e \in connections}

\* A valid handshake arrives; the peer tells the port on which it listens.
promote_to_post_handshake(c, port) ==
    /\ ~c.self_id
    /\ <<c.addr.port, port>> \in Tells
    /\ Event(c)
    /\ Update(c, [c EXCEPT !.self_id = TRUE, !.external_port = port])
    /\ register_conn_change([kind |-> "Promotion", token |-> c.token])

PeerList(c, addrs) ==
    /\ c.self_id
    /\ Event(c)
    /\ register_conn_change([kind |-> "NewPeers", addrs |-> addrs])
    /\ UNCHANGED <<conn_candidates, connections>>

\* The end of the stream, or an I/O error; reported once.
Closed(c) ==
    /\ Event(c)
    /\ Update(c, [c EXCEPT !.closed = TRUE])
    /\ register_conn_change([kind |-> "Removal", token |-> c.token])

\* A message that cannot be decrypted, parsed or accepted.
ProtocolError(c) ==
    /\ Event(c)
    /\ register_conn_change([kind |-> "Expulsion", token |-> c.token])
    /\ UNCHANGED <<conn_candidates, connections>>

-----------------------------------------------------------------------------
(* connection_housekeeping, at least ten rounds and the housekeeping       *)
(* interval after the last time, and check_peers after it.                 *)

\* Mutant: only candidates without a handshake are dropped.
HousekeepingDrop_handshake(expired) ==
    /\ Goto("events", "reconnect")
    /\ conn_candidates' = {c \in conn_candidates : c.token \notin expired \/ c.self_id}
    /\ connections' = {c \in connections : c.token \notin expired}
    /\ UNCHANGED <<next_token, given_addresses, bans, soft_bans, changes>>

\* The candidates made too long ago, and the peers not seen for too long or
\* with too high a latency, are dropped.  If there are still too many peers, so
\* is a random choice of the connections that are not given.  Then the soft
\* bans that are over are lifted.
HousekeepingDrop(expired) ==
    /\ Goto("events", "reconnect")
    /\ conn_candidates' = {c \in conn_candidates : c.token \notin expired}
    /\ LET kept == {c \in connections : c.token \notin expired}
           excess == Cardinality({c \in kept : c.peer_type = "Node"}) - MaxAllowedNodes
           others == {c \in kept : ~is_given_connection(c)}
       IN  \E dropped \in SUBSET others :
              /\ Cardinality(dropped) = IF excess <= 0 THEN 0 ELSE Min({excess, Cardinality(others)})
              /\ connections' = kept \ dropped
    /\ soft_bans' \in SUBSET soft_bans
    /\ UNCHANGED <<next_token, given_addresses, bans, changes>>

\* One change for each bootstrapper, as far as they fit in the queue.
attempt_bootstrap ==
    \E order \in SetToSeqs(BootstrapNodes) :
        LET calls == [i \in DOMAIN order |->
                         [kind |-> "NewConn", addr |-> order[i], peer_type |-> "Bootstrapper",
                          given |-> FALSE]]
            room == MaxChanges - Len(changes)
        IN  changes' = changes \o (IF room < Len(calls) THEN SubSeq(calls, 1, room) ELSE calls)

\* Calls the given peers.  The bootstrappers are called too if the interval
\* for it is over, or check_peers finds no peers.
HousekeepingReconnect ==
    /\ Goto("reconnect", "accept")
    /\ \E reached \in SUBSET unconnected_given_addresses :
          \E failed \in SUBSET unconnected_given_addresses :
             ConnectTo(unconnected_given_addresses, "Node", FALSE, reached, failed)
    /\ attempt_bootstrap \/ (connections # {} /\ UNCHANGED changes)
    /\ UNCHANGED <<connections, given_addresses, bans>>

PollStep ==
    \/ PollAcceptDone \/ PollChange \/ PollChangesDone \/ PollEventsDone
    \/ \E expired \in SUBSET {c.token : c \in All} : HousekeepingDrop(expired)
    \/ HousekeepingReconnect

-----------------------------------------------------------------------------
(* Requests of other threads: the RPC servers, the thread for inbound      *)
(* consensus messages, and the main thread when the node starts.           *)

Request ==
    /\ requests < MaxRequests
    /\ requests' = requests + 1
    /\ UNCHANGED <<next_token, conn_candidates, connections, soft_bans, at, started>>

peer_connect(addr) ==
    /\ Request
    /\ register_conn_change(
          [kind |-> "NewConn", addr |-> addr, peer_type |-> "Node", given |-> TRUE])
    /\ UNCHANGED <<given_addresses, bans>>

drop_addr(addr) ==
    /\ given_addresses' = given_addresses \ {addr}
    /\ IF find_conn_to(addr) = {} THEN UNCHANGED changes
       ELSE \E token \in find_conn_to(addr) :
               register_conn_change([kind |-> "Removal", token |-> token])

peer_disconnect(addr) == Request /\ drop_addr(addr) /\ UNCHANGED bans

drop_by_ip_and_ban(ip) ==
    /\ bans' = bans \cup {ip}
    /\ given_addresses' = {a \in given_addresses : a.ip # ip}
    /\ register_conn_change([kind |-> "RemoveAll", tokens |-> find_conn_tokens_by_ip(ip)])

ban_node(ip) == Request /\ drop_by_ip_and_ban(ip)

\* A peer sent a message that consensus finds invalid; the token may belong
\* to a connection that is gone.
ConsensusExpulsion(token) ==
    /\ Request
    /\ token < next_token
    /\ register_conn_change([kind |-> "Expulsion", token |-> token])
    /\ UNCHANGED <<given_addresses, bans>>

unban_node(ip) == bans' = bans \ {ip}

unban_peer(ip) == Request /\ unban_node(ip) /\ UNCHANGED <<given_addresses, changes>>

\* connect_to_config_nodes, then attempt_bootstrap.
establish_connections ==
    /\ ~started
    /\ started' = TRUE
    /\ \E reached \in SUBSET given_addresses : \E failed \in SUBSET given_addresses :
          ConnectTo(given_addresses, "Node", FALSE, reached, failed)
    /\ attempt_bootstrap
    /\ UNCHANGED <<connections, given_addresses, bans, at, requests>>

-----------------------------------------------------------------------------
Next ==
    \/ PollStep
    \/ \E addr \in [ip : Ip, port : OutPort] : accept(addr)
    \/ \E c \in All :
          \/ \E port \in ListenPort : promote_to_post_handshake(c, port)
          \/ \E addrs \in PeerLists : PeerList(c, addrs)
          \/ Closed(c)
          \/ ProtocolError(c)
    \/ \E token \in Token : ConsensusExpulsion(token)
    \/ \E addr \in NodeAddr :
          peer_connect(addr) \/ peer_disconnect(addr)
    \/ \E ip \in Ip : ban_node(ip) \/ unban_peer(ip)
    \/ establish_connections

Spec == Init /\ [][Next]_vars

\* A connection that is not expected to send anything: a candidate, whose
\* time counts from its creation, or a peer that has closed the connection.
Unsettled(token) ==
    \E c \in All : c.token = token /\ (c \in conn_candidates \/ c.closed)

\* The poll loop keeps running and does its housekeeping again and again; the
\* time of a connection that nothing postpones runs out.
FairSpec ==
    /\ Spec
    /\ WF_vars(PollStep)
    /\ \A token \in Token : SF_vars(
          /\ Unsettled(token)
          /\ \E expired \in SUBSET {c.token : c \in All} :
                token \in expired /\ HousekeepingDrop(expired))

-----------------------------------------------------------------------------
TypeOK ==
    /\ next_token \in 1..(MaxToken + 1)
    /\ conn_candidates \subseteq Connection
    /\ connections \subseteq Connection
    /\ given_addresses \subseteq NodeAddr
    /\ bans \subseteq Ip
    /\ soft_bans \subseteq Ip \cup NodeAddr
    /\ changes \in Seq(Change) /\ Len(changes) <= MaxChanges
    /\ at \in {"accept", "changes", "events", "reconnect"}

\* "We assume at most one such exists" (find_conn_to): two connections, be
\* they candidates or peers, never have the same remote address, whatever the
\* order in which accept, connect and the main thread's connect run.
AtMostOneTo ==
    \A c \in All, d \in All : c.addr = d.addr => c.token = d.token

\* Promotion admits one connection per peer: no two peers, whether the node
\* called them or they called the node, listen at the same address.
OneConnectionPerPeer ==
    \A c \in connections, d \in connections :
        external_addr(c) = external_addr(d) => c = d

\* "safe - always available post-handshake" (get_peer_stats unwraps self_id):
\* every peer's identity is known, although the promotion is queued when the
\* handshake is done and processed at a later round.
SelfIdKnown == \A c \in connections : c.self_id

\* A candidate does not stay one for ever and a closed connection is removed,
\* even when the change that asks for it is lost because the queue is full.
Settled == \A token \in Token : Unsettled(token) ~> ~Unsettled(token)
=============================================================================
