---------------------------- MODULE CatchUpProofs ----------------------------
(***************************************************************************)
(* The peer list's two records of the catch-up in progress always agree,   *)
(* for any set of peers and whatever the queues hold.                      *)
(*                                                                         *)
(* CatchUpPeerExact is not inductive.  The poll loop reads catch_up_peer,  *)
(* lets go of the lock and acts on what it has read: it overwrites the     *)
(* field, and so must know that nobody has put another peer there.  SeenInv *)
(* says why: the other threads only ever clear the field.                  *)
(***************************************************************************)
EXTENDS CatchUp, TLAPS

\* What the proof needs of the shape of the peer list.
ListOK(pl) ==
    /\ pl = [peer_states |-> pl.peer_states, catch_up_peer |-> pl.catch_up_peer,
             pending_queue |-> pl.pending_queue]
    /\ pl.peer_states \in [Peer -> Status]

Exact(pl) == \A p \in Peer : pl.catch_up_peer = p <=> pl.peer_states[p] = "CatchingUp"

\* Between the two sections of check_peer_states the peer that was read is still
\* the one to catch up with, or there is none.
SeenInv == poll.at = "check" => peers.catch_up_peer \in {poll.seen, NoPeer}

\* The poll loop's record.
PollOK == poll = [at |-> poll.at, ids |-> poll.ids, seen |-> poll.seen, late |-> poll.late]

Inv == ListOK(peers) /\ Exact(peers) /\ SeenInv /\ PollOK

-----------------------------------------------------------------------------
(* The operations of the peer list keep it in shape and exact.             *)

LEMMA SetStateOK ==
    ASSUME NEW pl, ListOK(pl), NEW p \in Peer, NEW s \in Status
    PROVE  /\ ListOK(SetState(pl, p, s))
           /\ SetState(pl, p, s).peer_states = [pl.peer_states EXCEPT ![p] = s]
           /\ SetState(pl, p, s).catch_up_peer = pl.catch_up_peer
BY DEF ListOK, SetState

\* A peer that is not the one to catch up with becomes pending.
LEMMA PushPendingOK ==
    ASSUME NEW pl, ListOK(pl), NEW p \in Peer
    PROVE  /\ ListOK(PushPending(pl, p))
           /\ PushPending(pl, p).peer_states = [pl.peer_states EXCEPT ![p] = "Pending"]
           /\ PushPending(pl, p).catch_up_peer = pl.catch_up_peer
<1> DEFINE mid == SetState(pl, p, "Pending")
<1>3. "Pending" \in Status
  BY DEF Status, PeerStatus
<1>1. /\ ListOK(mid) /\ mid.peer_states = [pl.peer_states EXCEPT ![p] = "Pending"]
      /\ mid.catch_up_peer = pl.catch_up_peer
  BY <1>3, SetStateOK
<1>2. PushPending(pl, p) = [mid EXCEPT !.pending_queue = Append(@, p)]
  BY DEF PushPending
<1> HIDE DEF mid
<1> QED
  BY <1>1, <1>2 DEF ListOK

\* If the peer has got another state, the field is cleared along with it.
LEMMA ClearCatchUpOK ==
    ASSUME NEW pl, ListOK(pl), NEW p \in Peer, pl.peer_states[p] # "CatchingUp",
           \A q \in Peer \ {p} : pl.catch_up_peer = q <=> pl.peer_states[q] = "CatchingUp"
    PROVE  /\ ListOK(ClearCatchUp(pl, p)) /\ Exact(ClearCatchUp(pl, p))
           /\ ClearCatchUp(pl, p).catch_up_peer \in {pl.catch_up_peer, NoPeer}
BY NoPeerAssumption DEF ListOK, Exact, ClearCatchUp

LEMMA NextPendingOK ==
    ASSUME NEW pl, ListOK(pl), \A p \in Peer : pl.peer_states[p] # "CatchingUp"
    PROVE  ListOK(next_pending(pl)) /\ Exact(next_pending(pl))
<1> DEFINE queue == pl.pending_queue
           pending == {i \in 1..Len(queue) : pl.peer_states[queue[i]] = "Pending"}
           i == Min(pending)
<1>1. CASE pending = {}
  BY <1>1, NoPeerAssumption DEF next_pending, ListOK, Exact
<1>2. CASE pending # {}
  <2> DEFINE next == [SetState(pl, queue[i], "CatchingUp")
                        EXCEPT !.pending_queue = SubSeq(queue, i + 1, Len(queue)),
                               !.catch_up_peer = queue[i]]
  <2>1. next_pending(pl) = next
    BY <1>2 DEF next_pending
  <2> HIDE DEF i
  <2> DEFINE mid == SetState(pl, queue[i], "CatchingUp")
  <2>4. /\ mid = [peer_states |-> mid.peer_states, catch_up_peer |-> mid.catch_up_peer,
                  pending_queue |-> mid.pending_queue]
        /\ mid.peer_states = [pl.peer_states EXCEPT ![queue[i]] = "CatchingUp"]
    BY DEF ListOK, SetState
  <2>5. mid.peer_states \in [Peer -> Status]
    BY <2>4 DEF ListOK, Status, PeerStatus
  <2>6. next = [mid EXCEPT !.pending_queue = SubSeq(queue, i + 1, Len(queue)),
                           !.catch_up_peer = queue[i]]
    OBVIOUS
  <2> HIDE DEF mid, next
  <2>2. /\ ListOK(next)
        /\ next.peer_states = [pl.peer_states EXCEPT ![queue[i]] = "CatchingUp"]
        /\ next.catch_up_peer = queue[i]
    BY <2>4, <2>5, <2>6 DEF ListOK
  <2>3. Exact(next)
    BY <2>2 DEF Exact, ListOK
  <2> QED
    BY <2>1, <2>2, <2>3
<1> QED
  BY <1>1, <1>2

LEMMA UpdatePeerListOK ==
    ASSUME NEW pl, ListOK(pl), Exact(pl), NEW ids, NEW order
    PROVE  LET new == update_peer_list(pl, ids, order)
           IN  /\ ListOK(new) /\ Exact(new)
               /\ new.catch_up_peer \in {pl.catch_up_peer, NoPeer}
<1> DEFINE kept == [p \in Peer |-> IF p \in ids THEN pl.peer_states[p] ELSE "Absent"]
           states == [p \in Peer |-> IF p \in ids /\ kept[p] = "Absent" THEN "Pending" ELSE kept[p]]
           cup == IF pl.catch_up_peer # NoPeer /\ kept[pl.catch_up_peer] = "Absent"
                  THEN NoPeer ELSE pl.catch_up_peer
           new == update_peer_list(pl, ids, order)
<1>1. /\ new.peer_states = states /\ new.catch_up_peer = cup
      /\ new = [peer_states |-> new.peer_states, catch_up_peer |-> new.catch_up_peer,
                pending_queue |-> new.pending_queue]
  BY DEF update_peer_list
<1>2. states \in [Peer -> Status]
  BY DEF ListOK, Status, PeerStatus
<1>3. \A p \in Peer : cup = p <=> states[p] = "CatchingUp"
  BY NoPeerAssumption DEF ListOK, Exact, Status, PeerStatus
<1> QED
  BY <1>1, <1>2, <1>3 DEF ListOK, Exact

LEMMA MarkAllPendingOK ==
    ASSUME NEW pl, ListOK(pl), Exact(pl), NEW order
    PROVE  LET new == mark_all_pending(pl, order)
           IN  ListOK(new) /\ Exact(new) /\ new.catch_up_peer = pl.catch_up_peer
<1> DEFINE new == mark_all_pending(pl, order)
           states == [p \in Peer |-> IF pl.peer_states[p] = "UpToDate" THEN "Pending"
                                     ELSE pl.peer_states[p]]
           tail == pl.pending_queue \o order
<1>2. states \in [Peer -> Status]
  BY DEF ListOK, Status, PeerStatus
<1>3. new = [pl EXCEPT !.peer_states = states, !.pending_queue = tail]
  BY DEF mark_all_pending
<1>4. \A p \in Peer : states[p] = "CatchingUp" <=> pl.peer_states[p] = "CatchingUp"
  OBVIOUS
<1> HIDE DEF states, tail
<1>1. /\ new.peer_states = states /\ new.catch_up_peer = pl.catch_up_peer
      /\ new = [peer_states |-> new.peer_states, catch_up_peer |-> new.catch_up_peer,
                pending_queue |-> new.pending_queue]
  BY <1>3 DEF ListOK
<1> QED
  BY <1>1, <1>2, <1>4 DEF ListOK, Exact

-----------------------------------------------------------------------------
(* The actions.                                                            *)

LEMMA InitInv == Init => Inv
BY NoPeerAssumption DEF Init, Inv, ListOK, Exact, SeenInv, PollOK, Status, PeerStatus

\* A catch-up is tried only when no other one is in progress.
LEMMA TryCatchUpInv ==
    ASSUME NEW pl, ListOK(pl), \A p \in Peer : pl.peer_states[p] # "CatchingUp", try_catch_up(pl)
    PROVE  ListOK(peers') /\ Exact(peers')
<1> DEFINE next == next_pending(pl)
           c == next.catch_up_peer
<1>1. ListOK(next) /\ Exact(next)
  BY NextPendingOK
<1>2. peers' = IF c # NoPeer /\ c \notin Open
              THEN [SetState(next, c, "Absent") EXCEPT !.catch_up_peer = NoPeer] ELSE next
  BY DEF try_catch_up
<1> HIDE DEF next
<1>3. CASE ~(c # NoPeer /\ c \notin Open)
  BY <1>1, <1>2, <1>3
<1>4. CASE c # NoPeer /\ c \notin Open
  <2> DEFINE mid == SetState(next, c, "Absent")
  <2>1. /\ mid = [peer_states |-> mid.peer_states, catch_up_peer |-> mid.catch_up_peer,
                  pending_queue |-> mid.pending_queue]
        /\ mid.peer_states = [next.peer_states EXCEPT ![c] = "Absent"]
    BY <1>1 DEF ListOK, SetState
  <2>2. mid.peer_states \in [Peer -> Status]
    BY <1>1, <2>1 DEF ListOK, Status, PeerStatus
  <2>3. \A p \in Peer : mid.peer_states[p] # "CatchingUp"
    BY <1>1, <2>1 DEF ListOK, Exact
  <2>4. peers' = [mid EXCEPT !.catch_up_peer = NoPeer]
    BY <1>2, <1>4
  <2> HIDE DEF mid
  <2> QED
    BY <2>1, <2>2, <2>3, <2>4, NoPeerAssumption DEF ListOK, Exact
<1> QED
  BY <1>3, <1>4

\* Only the second section of check_peer_states overwrites the field, and by
\* SeenInv nothing is lost by it.
LEMMA PollCheckPeerInv ==
    ASSUME Inv, PollCheckPeer
    PROVE  Inv'
<1>1. ListOK(peers) /\ Exact(peers) /\ peers.catch_up_peer \in {poll.seen, NoPeer}
  BY DEF Inv, SeenInv, PollCheckPeer
<1>2. ListOK(peers') /\ Exact(peers')
  <2>1. CASE poll.seen \in Open /\ UNCHANGED peers
    BY <1>1, <2>1 DEF ListOK, Exact
  <2>2. CASE /\ poll.seen \in Peer \ Open
             /\ try_catch_up([SetState(peers, poll.seen, "Absent") EXCEPT !.catch_up_peer = NoPeer])
    <3> DEFINE mid == SetState(peers, poll.seen, "Absent")
               pl == [mid EXCEPT !.catch_up_peer = NoPeer]
    <3>1. "Absent" \in Status
      BY DEF Status
    <3>2. /\ ListOK(mid)
          /\ mid.peer_states = [peers.peer_states EXCEPT ![poll.seen] = "Absent"]
      BY <1>1, <2>2, <3>1, SetStateOK
    <3>3. \A p \in Peer : mid.peer_states[p] # "CatchingUp"
      BY <1>1, <2>2, <3>2, NoPeerAssumption DEF ListOK, Exact
    <3> HIDE DEF mid
    <3>4. ListOK(pl) /\ pl.peer_states = mid.peer_states
      BY <3>2 DEF ListOK
    <3>5. try_catch_up(pl)
      BY <2>2 DEF mid
    <3> HIDE DEF pl
    <3> QED
      BY <3>3, <3>4, <3>5, TryCatchUpInv
  <2>3. CASE poll.seen = NoPeer /\ try_catch_up(peers)
    <3>1. \A p \in Peer : peers.peer_states[p] # "CatchingUp"
      BY <1>1, <2>3, NoPeerAssumption DEF Exact
    <3> QED
      BY <1>1, <2>3, <3>1, TryCatchUpInv
  <2> QED
    BY <2>1, <2>2, <2>3 DEF PollCheckPeer
<1>3. SeenInv' /\ PollOK'
  BY DEF Inv, PollOK, SeenInv, PollCheckPeer
<1> QED
  BY <1>2, <1>3 DEF Inv, ListOK, Exact

\* The inbound thread gives a peer another state, and clears the field with it.
LEMMA InboundInv ==
    ASSUME Inv, NEW p \in Peer, Inbound(p)
    PROVE  Inv'
<1>1. ListOK(peers) /\ Exact(peers)
  BY DEF Inv
<1>2. /\ ListOK(peers') /\ Exact(peers')
      /\ peers'.catch_up_peer \in {peers.catch_up_peer, NoPeer}
  <2>1. CASE UNCHANGED peers
    BY <1>1, <2>1 DEF ListOK, Exact
  <2>2. CASE NowPending(p)
    <3>1. CASE peers.peer_states[p] = "UpToDate" /\ peers' = PushPending(peers, p)
      <4>1. /\ ListOK(peers')
            /\ peers'.peer_states = [peers.peer_states EXCEPT ![p] = "Pending"]
            /\ peers'.catch_up_peer = peers.catch_up_peer
        BY <1>1, <3>1, PushPendingOK
      <4> QED
        BY <1>1, <3>1, <4>1 DEF Exact, ListOK
    <3> QED
      BY <2>1, <2>2, <3>1 DEF NowPending
  <2>3. CASE peers' = ClearCatchUp(SetState(peers, p, "UpToDate"), p)
    <3> DEFINE mid == SetState(peers, p, "UpToDate")
    <3>1. "UpToDate" \in Status
      BY DEF Status, PeerStatus
    <3>2. /\ ListOK(mid) /\ mid.peer_states = [peers.peer_states EXCEPT ![p] = "UpToDate"]
          /\ mid.catch_up_peer = peers.catch_up_peer
      BY <1>1, <3>1, SetStateOK
    <3> HIDE DEF mid
    <3>3. /\ mid.peer_states[p] # "CatchingUp"
          /\ \A q \in Peer \ {p} : mid.catch_up_peer = q <=> mid.peer_states[q] = "CatchingUp"
      BY <1>1, <3>2 DEF ListOK, Exact
    <3>4. peers' = ClearCatchUp(mid, p)
      BY <2>3 DEF mid
    <3> QED
      BY <3>2, <3>3, <3>4, ClearCatchUpOK
  <2>4. CASE peers' = ClearCatchUp(IF peers.peer_states[p] = "Pending" THEN peers
                                   ELSE PushPending(peers, p), p)
    <3> DEFINE mid == IF peers.peer_states[p] = "Pending" THEN peers ELSE PushPending(peers, p)
    <3>1. /\ ListOK(mid) /\ mid.peer_states = [peers.peer_states EXCEPT ![p] = "Pending"]
          /\ mid.catch_up_peer = peers.catch_up_peer
      <4>1. CASE peers.peer_states[p] = "Pending"
        BY <1>1, <4>1 DEF ListOK
      <4>2. CASE peers.peer_states[p] # "Pending"
        BY <1>1, <4>2, PushPendingOK
      <4> QED
        BY <4>1, <4>2
    <3> HIDE DEF mid
    <3>3. /\ mid.peer_states[p] # "CatchingUp"
          /\ \A q \in Peer \ {p} : mid.catch_up_peer = q <=> mid.peer_states[q] = "CatchingUp"
      BY <1>1, <3>1 DEF ListOK, Exact
    <3>4. peers' = ClearCatchUp(mid, p)
      BY <2>4 DEF mid
    <3> QED
      BY <3>1, <3>3, <3>4, ClearCatchUpOK
  <2> QED
    BY <2>1, <2>2, <2>3, <2>4 DEF Inbound, HandleCatchUpStatus, HandleBlock
<1>3. SeenInv' /\ PollOK'
  BY <1>2 DEF Inv, PollOK, SeenInv, Inbound
<1> QED
  BY <1>2, <1>3 DEF Inv, ListOK, Exact

LEMMA PollUpdatePeersInv ==
    ASSUME Inv, PollUpdatePeers
    PROVE  Inv'
<1>1. PICK order : peers' = update_peer_list(peers, poll.ids, order)
  BY DEF PollUpdatePeers
<1>2. ListOK(peers') /\ Exact(peers')
  BY <1>1, UpdatePeerListOK DEF Inv
<1>3. SeenInv' /\ PollOK'
  BY DEF Inv, PollOK, SeenInv, PollUpdatePeers
<1> QED
  BY <1>2, <1>3 DEF Inv, ListOK, Exact

LEMMA PollMarkPendingInv ==
    ASSUME Inv, PollMarkPending
    PROVE  Inv'
<1>1. ListOK(peers') /\ Exact(peers')
  <2>1. CASE UNCHANGED peers
    BY <2>1 DEF Inv, ListOK, Exact
  <2>2. CASE \E order : peers' = mark_all_pending(peers, order)
    BY <2>2, MarkAllPendingOK DEF Inv
  <2> QED
    BY <2>1, <2>2 DEF PollMarkPending
<1>2. SeenInv' /\ PollOK'
  BY DEF Inv, PollOK, SeenInv, PollMarkPending, Goto
<1> QED
  BY <1>1, <1>2 DEF Inv, ListOK, Exact

LEMMA NextInv == Inv /\ [Next]_vars => Inv'
<1> SUFFICES ASSUME Inv, [Next]_vars PROVE Inv'
  OBVIOUS
<1>1. ASSUME UNCHANGED <<peers, poll>> PROVE Inv'
  BY <1>1 DEF Inv, ListOK, Exact, SeenInv, PollOK
<1>2. CASE PollReadPeers \/ PollNext
  <2>1. SeenInv' /\ PollOK' /\ UNCHANGED peers
    BY <1>2 DEF Inv, PollOK, SeenInv, PollReadPeers, PollNext, Goto
  <2> QED
    BY <2>1 DEF Inv, ListOK, Exact
<1>3. CASE PollReadCatchUp
  <2>1. SeenInv' /\ PollOK' /\ UNCHANGED peers
    BY <1>3 DEF Inv, PollOK, SeenInv, PollReadCatchUp
  <2> QED
    BY <2>1 DEF Inv, ListOK, Exact
<1>4. ASSUME NEW p \in Peer, Handshake(p) \/ Receive(p) \/ Closed(p) \/ RpcDisconnect(p)
      PROVE  UNCHANGED <<peers, poll>>
  BY <1>4 DEF Handshake, Receive, Closed, RpcDisconnect
<1>5. CASE PollChange \/ regenesis_callback \/ Millisecond \/ CatchUpTimeout \/ UNCHANGED vars
  <2>1. UNCHANGED <<peers, poll>>
    BY <1>5 DEF PollChange, regenesis_callback, Millisecond, CatchUpTimeout, vars
  <2> QED
    BY <1>1, <2>1
<1> QED
  BY <1>1, <1>2, <1>3, <1>4, <1>5, PollCheckPeerInv, InboundInv, PollUpdatePeersInv,
     PollMarkPendingInv DEF Next, PollStep

\* update_peer_states, update_peer_list and check_peer_states keep the two records of
\* the catch-up in progress in agreement: a peer is in state CatchingUp if and only
\* if it is the catch_up_peer, for every set of peers and every interleaving.
THEOREM CatchUpExact == Spec => []CatchUpPeerExact
<1>1. Inv => CatchUpPeerExact
  BY DEF Inv, Exact, CatchUpPeerExact
<1> QED
  BY <1>1, InitInv, NextInv, PTL DEF Spec
=============================================================================
