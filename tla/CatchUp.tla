------------------------------- MODULE CatchUp -------------------------------
(***************************************************************************)
(* The node's bookkeeping of which peers it has to catch up with, shared   *)
(* by three threads: the poll loop (connection changes, the peer list, the *)
(* choice of the peer to catch up with), the inbound consensus thread      *)
(* (what a peer's messages say about it) and RPC threads that ask for a    *)
(* connection to be dropped.  An action is a section under the lock of the *)
(* peer list or of the connections; between two sections of the poll loop, *)
(* which uses values it has read before, any other thread may run.         *)
(*                                                                         *)
(* A peer is a RemotePeerId: one connection, never used again.             *)
(***************************************************************************)
EXTENDS ConsensusFfi, Naturals, Sequences, FiniteSets, SequencesExt

CONSTANTS
    Peer,
    NoPeer,
    MaxChanges,     \* the capacity of the queue of connection changes
    MaxInbox,       \* bound: messages of one peer waiting in the inbound queues
    MaxQueue        \* bound: no message is handled while pending_queue is longer

ASSUME NoPeerAssumption == NoPeer \notin Peer

VARIABLES
    conn,           \* each peer's connection: new, candidate, open or gone
    peers,          \* the PeerList; a peer without a state is "Absent"
    expired,        \* now > catch_up_stamp + MAX_CATCH_UP_TIME, set while it matters
    trigger,        \* regenesis_arc.trigger_catchup
    changes,        \* the queue conn_changes
    inbox,          \* messages of each peer waiting for the inbound thread
    fresh,          \* last_peer_update > last_peer_list_update
    thisMs,         \* last_peer_update is the current millisecond
    poll            \* where the poll loop is and what it has read

vars == <<conn, peers, expired, trigger, changes, inbox, fresh, thisMs, poll>>

ConnState == {"new", "candidate", "open", "gone"}

Status == PeerStatus \cup {"Absent"}

PeerList ==
    [peer_states : [Peer -> Status], catch_up_peer : Peer \cup {NoPeer},
     pending_queue : Seq(Peer)]

Change == [kind : {"Promotion", "Expulsion", "Removal"}, peer : Peer]

PollState ==
    [at : {"changes", "insert", "mark", "read", "check", "events"},
     ids : SUBSET Peer, seen : Peer \cup {NoPeer}, late : BOOLEAN]

Init ==
    /\ conn = [p \in Peer |-> "new"]
    /\ peers = [peer_states |-> [p \in Peer |-> "Absent"], catch_up_peer |-> NoPeer,
                pending_queue |-> <<>>]
    /\ expired = FALSE
    /\ trigger = FALSE
    /\ changes = <<>>
    /\ inbox = [p \in Peer |-> 0]
    /\ fresh = FALSE
    /\ thisMs = FALSE
    /\ poll = [at |-> "changes", ids |-> {}, seen |-> NoPeer, late |-> FALSE]

-----------------------------------------------------------------------------
(* The peer list.                                                          *)

Open == {p \in Peer : conn[p] = "open"}

In(pl, status) == {p \in Peer : pl.peer_states[p] = status}

SetState(pl, p, status) == [pl EXCEPT !.peer_states[p] = status]

PushPending(pl, p) ==
    [SetState(pl, p, "Pending") EXCEPT !.pending_queue = Append(@, p)]

ClearCatchUp(pl, p) ==
    IF pl.catch_up_peer = p THEN [pl EXCEPT !.catch_up_peer = NoPeer] ELSE pl

\* The first peer of the queue that is really pending becomes the one to catch
\* up with; what is before it in the queue is discarded.
next_pending(pl) ==
    LET queue == pl.pending_queue
        pending == {i \in 1..Len(queue) : pl.peer_states[queue[i]] = "Pending"}
    IN  IF pending = {}
        THEN [pl EXCEPT !.pending_queue = <<>>, !.catch_up_peer = NoPeer]
        ELSE LET i == Min(pending)
             IN  [SetState(pl, queue[i], "CatchingUp")
                    EXCEPT !.pending_queue = SubSeq(queue, i + 1, Len(queue)),
                           !.catch_up_peer = queue[i]]

\* order: the up-to-date peers in the order of the hash map
mark_all_pending(pl, order) ==
    [pl EXCEPT !.peer_states = [p \in Peer |-> IF @[p] = "UpToDate" THEN "Pending" ELSE @[p]],
               !.pending_queue = @ \o order]

\* Mutant: the peer to catch up with stays although it is gone.
update_peer_list_keep(pl, ids, order) ==
    LET kept == [p \in Peer |-> IF p \in ids THEN pl.peer_states[p] ELSE "Absent"]
    IN  [peer_states |-> [p \in Peer |->
            IF p \in ids /\ kept[p] = "Absent" THEN "Pending" ELSE kept[p]],
         catch_up_peer |-> pl.catch_up_peer,
         pending_queue |-> SelectSeq(pl.pending_queue, LAMBDA p : p \in ids) \o order]

\* ids: the peers read before the lock was taken; order: the new ones among
\* them, in the order in which they were read
update_peer_list(pl, ids, order) ==
    LET kept == [p \in Peer |-> IF p \in ids THEN pl.peer_states[p] ELSE "Absent"]
    IN  [peer_states |-> [p \in Peer |->
            IF p \in ids /\ kept[p] = "Absent" THEN "Pending" ELSE kept[p]],
         catch_up_peer |->
            IF pl.catch_up_peer # NoPeer /\ kept[pl.catch_up_peer] = "Absent"
            THEN NoPeer ELSE pl.catch_up_peer,
         pending_queue |-> SelectSeq(pl.pending_queue, LAMBDA p : p \in ids) \o order]

\* Ask the next pending peer for its status; a peer to which nothing can be
\* sent is forgotten.
try_catch_up(pl) ==
    LET next == next_pending(pl)
    IN  /\ peers' = IF next.catch_up_peer # NoPeer /\ next.catch_up_peer \notin Open
                    THEN [SetState(next, next.catch_up_peer, "Absent")
                            EXCEPT !.catch_up_peer = NoPeer]
                    ELSE next
        /\ expired' = (expired /\ next.catch_up_peer = NoPeer)

-----------------------------------------------------------------------------
(* Connections.                                                            *)

\* A change that finds the queue full is lost.
register_conn_change(kind, p) ==
    changes' = IF Len(changes) < MaxChanges
               THEN Append(changes, [kind |-> kind, peer |-> p]) ELSE changes

\* The stamp of a second update in the same millisecond is not a new one.
bump_last_peer_update ==
    /\ fresh' = (fresh \/ ~thisMs)
    /\ thisMs' = TRUE

remove_connection(p) ==
    /\ conn' = [conn EXCEPT ![p] = "gone"]
    /\ IF conn[p] = "open" THEN bump_last_peer_update ELSE UNCHANGED <<fresh, thisMs>>

process_conn_change(change) ==
    LET p == change.peer
    IN  IF change.kind = "Promotion"
        THEN IF conn[p] = "candidate"
             THEN conn' = [conn EXCEPT ![p] = "open"] /\ bump_last_peer_update
             ELSE UNCHANGED <<conn, fresh, thisMs>>
        ELSE remove_connection(p)

-----------------------------------------------------------------------------
(* The poll loop.                                                          *)

Goto(at) == poll' = [poll EXCEPT !.at = at]

PollChange ==
    /\ poll.at = "changes"
    /\ changes # <<>>
    /\ process_conn_change(Head(changes))
    /\ changes' = Tail(changes)
    /\ UNCHANGED <<peers, expired, trigger, inbox, poll>>

\* All changes are processed.  last_peer_list_update becomes the stamp that is
\* read.
PollReadPeers ==
    /\ poll.at = "changes"
    /\ changes = <<>>
    /\ IF fresh THEN poll' = [poll EXCEPT !.at = "insert", !.ids = Open] ELSE Goto("mark")
    /\ fresh' = FALSE
    /\ UNCHANGED <<conn, peers, expired, trigger, changes, inbox, thisMs>>

PollUpdatePeers ==
    /\ poll.at = "insert"
    /\ \E order \in SetToSeqs(poll.ids \cap In(peers, "Absent")) :
          peers' = update_peer_list(peers, poll.ids, order)
    /\ poll' = [poll EXCEPT !.at = "mark", !.ids = {}]
    /\ UNCHANGED <<conn, expired, trigger, changes, inbox, fresh, thisMs>>

\* check_peer_states, in three sections: the flag of a protocol update ...
PollMarkPending ==
    /\ poll.at = "mark"
    /\ IF trigger
       THEN \E order \in SetToSeqs(In(peers, "UpToDate")) :
               peers' = mark_all_pending(peers, order)
       ELSE UNCHANGED peers
    /\ trigger' = FALSE
    /\ Goto("read")
    /\ UNCHANGED <<conn, expired, changes, inbox, fresh, thisMs>>

\* ... the peer we are catching up with ...
PollReadCatchUp ==
    /\ poll.at = "read"
    /\ poll' = [poll EXCEPT !.at = "check", !.seen = peers.catch_up_peer, !.late = expired]
    /\ UNCHANGED <<conn, peers, expired, trigger, changes, inbox, fresh, thisMs>>

\* Mutant: the time is not looked at.
PollCheckPeer_patient ==
    /\ poll.at = "check"
    /\ \/ /\ poll.seen \in Open
          /\ UNCHANGED <<peers, expired>>
       \/ /\ poll.seen \in Peer \ Open
          /\ try_catch_up([SetState(peers, poll.seen, "Absent") EXCEPT !.catch_up_peer = NoPeer])
       \/ /\ poll.seen = NoPeer
          /\ try_catch_up(peers)
    /\ poll' = [poll EXCEPT !.at = "events", !.seen = NoPeer, !.late = FALSE]
    /\ UNCHANGED <<conn, trigger, changes, inbox, fresh, thisMs>>

\* Mutant: a peer is chosen only in the place of one that is gone.
PollCheckPeer_replace ==
    /\ poll.at = "check"
    /\ \/ /\ poll.seen \in Open
          /\ IF poll.late THEN register_conn_change("Removal", poll.seen)
                          ELSE UNCHANGED changes
          /\ UNCHANGED <<peers, expired>>
       \/ /\ poll.seen \in Peer \ Open
          /\ try_catch_up([SetState(peers, poll.seen, "Absent") EXCEPT !.catch_up_peer = NoPeer])
          /\ UNCHANGED changes
       \/ /\ poll.seen = NoPeer
          /\ UNCHANGED <<changes, peers, expired>>
    /\ poll' = [poll EXCEPT !.at = "events", !.seen = NoPeer, !.late = FALSE]
    /\ UNCHANGED <<conn, trigger, inbox, fresh, thisMs>>

\* ... and what follows from it.
PollCheckPeer ==
    /\ poll.at = "check"
    /\ \/ /\ poll.seen \in Open
          /\ IF poll.late THEN register_conn_change("Removal", poll.seen)
                          ELSE UNCHANGED changes
          /\ UNCHANGED <<peers, expired>>
       \/ /\ poll.seen \in Peer \ Open
          /\ try_catch_up([SetState(peers, poll.seen, "Absent") EXCEPT !.catch_up_peer = NoPeer])
          /\ UNCHANGED changes
       \/ /\ poll.seen = NoPeer
          /\ try_catch_up(peers)
          /\ UNCHANGED changes
    /\ poll' = [poll EXCEPT !.at = "events", !.seen = NoPeer, !.late = FALSE]
    /\ UNCHANGED <<conn, trigger, inbox, fresh, thisMs>>

\* process_network_events: a handshake is completed ...
Handshake(p) ==
    /\ poll.at = "events"
    /\ conn[p] = "new"
    /\ conn' = [conn EXCEPT ![p] = "candidate"]
    /\ register_conn_change("Promotion", p)
    /\ UNCHANGED <<peers, expired, trigger, inbox, fresh, thisMs, poll>>

\* ... a message arrives ...
Receive(p) ==
    /\ poll.at = "events"
    /\ conn[p] = "open"
    /\ inbox[p] < MaxInbox
    /\ inbox' = [inbox EXCEPT ![p] = @ + 1]
    /\ UNCHANGED <<conn, peers, expired, trigger, changes, fresh, thisMs, poll>>

\* ... or the peer closes the connection.
Closed(p) ==
    /\ poll.at = "events"
    /\ conn[p] = "open"
    /\ register_conn_change("Removal", p)
    /\ UNCHANGED <<conn, peers, expired, trigger, inbox, fresh, thisMs, poll>>

PollNext ==
    /\ poll.at = "events"
    /\ Goto("changes")
    /\ UNCHANGED <<conn, peers, expired, trigger, changes, inbox, fresh, thisMs>>

PollStep ==
    PollChange \/ PollReadPeers \/ PollUpdatePeers \/ PollMarkPending
        \/ PollReadCatchUp \/ PollCheckPeer \/ PollNext

-----------------------------------------------------------------------------
(* The inbound consensus thread: update_peer_states for a message of p to  *)
(* which the consensus library has answered r.                             *)

\* Behind a peer that we took to be up to date.
NowPending(p) ==
    peers' = IF peers.peer_states[p] = "UpToDate" THEN PushPending(peers, p) ELSE peers

CatchUpResponse ==
    {"Success", "PendingBlock", "PendingFinalization", "ContinueCatchUp", "InvalidResult",
     "DeserializationError"}

\* Mutant: only the peer that we are catching up with is queued again.
HandleCatchUpStatus_queue(p, r) ==
    \/ /\ r = "Success"
       /\ peers' = ClearCatchUp(SetState(peers, p, "UpToDate"), p)
       /\ UNCHANGED changes
    \/ /\ r \in {"PendingBlock", "PendingFinalization"}
       /\ peers' = ClearCatchUp(IF peers.catch_up_peer = p THEN PushPending(peers, p)
                                ELSE SetState(peers, p, "Pending"), p)
       /\ UNCHANGED changes
    \/ /\ r = "ContinueCatchUp"
       /\ NowPending(p)
       /\ UNCHANGED changes
    \/ /\ r \in {"InvalidResult", "DeserializationError"}
       /\ register_conn_change("Expulsion", p)
       /\ UNCHANGED peers

HandleCatchUpStatus(p, r) ==
    \/ /\ r = "Success"
       /\ peers' = ClearCatchUp(SetState(peers, p, "UpToDate"), p)
       /\ UNCHANGED changes
    \/ /\ r \in {"PendingBlock", "PendingFinalization"}
       /\ peers' = ClearCatchUp(IF peers.peer_states[p] = "Pending" THEN peers
                                ELSE PushPending(peers, p), p)
       /\ UNCHANGED changes
    \/ /\ r = "ContinueCatchUp"
       /\ NowPending(p)
       /\ UNCHANGED changes
    \/ /\ r \in {"InvalidResult", "DeserializationError"}
       /\ register_conn_change("Expulsion", p)
       /\ UNCHANGED peers

\* A block or a finalization record; relaying it leaves the peer list alone.
HandleBlock(p, mode, r) ==
    /\ IF mode = "Broadcast" /\ is_pending(r) THEN NowPending(p) ELSE UNCHANGED peers
    /\ UNCHANGED changes

Inbound(p) ==
    /\ inbox[p] > 0
    /\ Len(peers.pending_queue) <= MaxQueue
    /\ inbox' = [inbox EXCEPT ![p] = @ - 1]
    /\ \/ \E r \in CatchUpResponse : HandleCatchUpStatus(p, r)
       \/ \E mode \in DistributionMode, r \in {"Success", "PendingBlock", "InvalidGenesisIndex"} :
             HandleBlock(p, mode, r)
    /\ UNCHANGED <<conn, expired, trigger, fresh, thisMs, poll>>

-----------------------------------------------------------------------------
(* RPC threads, the consensus library and time.                            *)

\* peer_disconnect and ban_node ask the poll loop to remove a connection.
RpcDisconnect(p) ==
    /\ conn[p] = "open"
    /\ register_conn_change("Removal", p)
    /\ UNCHANGED <<conn, peers, expired, trigger, inbox, fresh, thisMs, poll>>

regenesis_callback ==
    /\ trigger' = TRUE
    /\ UNCHANGED <<conn, peers, expired, changes, inbox, fresh, thisMs, poll>>

Millisecond ==
    /\ thisMs' = FALSE
    /\ UNCHANGED <<conn, peers, expired, trigger, changes, inbox, fresh, poll>>

CatchUpTimeout ==
    /\ peers.catch_up_peer # NoPeer
    /\ expired' = TRUE
    /\ UNCHANGED <<conn, peers, trigger, changes, inbox, fresh, thisMs, poll>>

Next ==
    \/ PollStep
    \/ \E p \in Peer : Handshake(p) \/ Receive(p) \/ Closed(p) \/ Inbound(p) \/ RpcDisconnect(p)
    \/ regenesis_callback
    \/ Millisecond
    \/ CatchUpTimeout

Spec == Init /\ [][Next]_vars

\* The poll loop never waits for longer than its interval, and time passes.
FairSpec ==
    Spec /\ WF_vars(PollStep) /\ WF_vars(Millisecond) /\ WF_vars(CatchUpTimeout)

-----------------------------------------------------------------------------
TypeOK ==
    /\ conn \in [Peer -> ConnState]
    /\ peers \in PeerList
    /\ expired \in BOOLEAN
    /\ trigger \in BOOLEAN
    /\ changes \in Seq(Change)
    /\ inbox \in [Peer -> Nat]
    /\ fresh \in BOOLEAN
    /\ thisMs \in BOOLEAN
    /\ poll \in PollState

\* The peer list's two records of the catch-up in progress agree: the peer in
\* catch_up_peer, and no other, is in state CatchingUp, although the poll loop
\* decides on a value that the inbound thread may have changed since it was read.
CatchUpPeerExact ==
    \A p \in Peer : peers.catch_up_peer = p <=> peers.peer_states[p] = "CatchingUp"

\* A pending peer is in the queue from which next_pending takes the next peer:
\* no sequence of messages, timeouts, protocol updates and reconnections makes
\* a peer pending without queueing it.
PendingQueued ==
    \A p \in Peer : peers.peer_states[p] = "Pending" =>
        \E i \in DOMAIN peers.pending_queue : peers.pending_queue[i] = p

\* Every catch-up ends, by an answer or because the peer that takes longer than
\* MAX_CATCH_UP_TIME is removed, although a removal that finds the queue of
\* connection changes full is lost.
CatchUpEnds ==
    \A p \in Peer : peers.catch_up_peer = p ~> peers.catch_up_peer # p

\* A connected peer that is pending gets its turn (or stops being pending):
\* it is not overtaken for ever by peers that become pending again.
PendingServed ==
    \A p \in Peer : p \in Open /\ peers.peer_states[p] = "Pending"
                        ~> ~(p \in Open /\ peers.peer_states[p] = "Pending")
=============================================================================
