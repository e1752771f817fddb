---------------------------- MODULE P2PNodeProofs ----------------------------
(***************************************************************************)
(* No two connections to one address, one peer per listening address and   *)
(* only peers whose identity is known, for any sets of addresses, limits   *)
(* and configuration.                                                      *)
(*                                                                         *)
(* None of the three is inductive.  A promotion is processed rounds after  *)
(* the handshake that asked for it, and names a connection by its token:   *)
(* QueueInv says that whatever has this token now has done its handshake,  *)
(* which needs tokens that are never used again (SetsInv).  SelfIdKnown in *)
(* turn is needed for one peer per address: a peer that could still do a   *)
(* handshake could change the port on which it says that it listens.       *)
(***************************************************************************)
EXTENDS P2PNode, FiniteSetTheorems, TLAPS

SetsInv ==
    /\ next_token \in Nat
    /\ All \subseteq Connection
    /\ \A c \in All : c.token < next_token
    /\ \A c, d \in All : c.token = d.token \/ c.addr = d.addr => c = d
    /\ SelfIdKnown
    /\ OneConnectionPerPeer

\* The token is taken, and what still has it has done its handshake.
Known(t) ==
    /\ t \in Nat
    /\ t < next_token
    /\ \A c \in All : c.token = t => c.self_id

QueueInv ==
    /\ changes \in Seq(Change)
    /\ \A i \in 1..Len(changes) : changes[i].kind = "Promotion" => Known(changes[i].token)

Inv == SetsInv /\ QueueInv /\ given_addresses \subseteq NodeAddr

\* What a step must leave of the promotions that are waiting.
KnownKept == \A t \in Nat : Known(t) => Known(t)'

-----------------------------------------------------------------------------
(* The queue of connection changes.                                        *)

LEMMA ChangeType ==
    ASSUME NEW ch \in Change
    PROVE  /\ ch.kind \in {"Promotion", "Expulsion", "Removal"} => ch.token \in Nat
           /\ ch.kind = "NewConn" => ch.addr \in NodeAddr /\ ch.peer_type \in PeerType
           /\ ch.kind = "NewPeers" => ch.addrs \subseteq NodeAddr
BY DEF Change

LEMMA QueueKept ==
    ASSUME QueueInv, KnownKept, UNCHANGED changes
    PROVE  QueueInv'
BY DEF QueueInv, KnownKept, Known

LEMMA QueueTaken ==
    ASSUME QueueInv, KnownKept, changes # <<>>, changes' = Tail(changes)
    PROVE  QueueInv'
BY DEF QueueInv, KnownKept, Known

LEMMA QueueAdded ==
    ASSUME QueueInv, KnownKept, NEW ch \in Change,
           ch.kind = "Promotion" => Known(ch.token)', register_conn_change(ch)
    PROVE  QueueInv'
<1>1. CASE UNCHANGED changes
  BY <1>1, QueueKept
<1>2. CASE changes' = Append(changes, ch)
  <2>1. /\ changes' \in Seq(Change) /\ Len(changes') = Len(changes) + 1
        /\ \A i \in 1..Len(changes) : changes'[i] = changes[i]
        /\ changes'[Len(changes) + 1] = ch
    BY <1>2 DEF QueueInv
  <2>2. ASSUME NEW i \in 1..Len(changes'), changes'[i].kind = "Promotion"
        PROVE  Known(changes[i].token)'
    <3>1. CASE i \in 1..Len(changes)
      BY <2>1, <2>2, <3>1 DEF QueueInv, KnownKept, Known
    <3>2. CASE i = Len(changes) + 1
      BY <2>1, <2>2, <3>2 DEF Known
    <3> QED
      BY <2>1, <3>1, <3>2 DEF QueueInv
  <2> QED
    BY <2>1, <2>2 DEF QueueInv
<1> QED
  BY <1>1, <1>2 DEF register_conn_change

\* The calls of the bootstrappers are not promotions.
LEMMA QueueBootstrap ==
    ASSUME QueueInv, KnownKept, attempt_bootstrap
    PROVE  QueueInv'
<1>1. PICK order \in SetToSeqs(BootstrapNodes) :
        LET calls == [i \in DOMAIN order |->
                         [kind |-> "NewConn", addr |-> order[i], peer_type |-> "Bootstrapper",
                          given |-> FALSE]]
            room == MaxChanges - Len(changes)
        IN  changes' = changes \o (IF room < Len(calls) THEN SubSeq(calls, 1, room) ELSE calls)
  BY DEF attempt_bootstrap
<1> DEFINE call(a) == [kind |-> "NewConn", addr |-> a, peer_type |-> "Bootstrapper",
                       given |-> FALSE]
           calls == [i \in DOMAIN order |-> call(order[i])]
           NewCall == {ch \in Change : ch.kind = "NewConn"}
           room == MaxChanges - Len(changes)
           new == IF room < Len(calls) THEN SubSeq(calls, 1, room) ELSE calls
<1>2. PICK n \in Nat : order \in [1..n -> BootstrapNodes]
  <2>1. IsFiniteSet(BootstrapNodes)
    BY ConfigAssumption, FS_Subset
  <2> QED
    BY <2>1, FS_CardinalityType DEF SetToSeqs
<1>3. \A a \in BootstrapNodes : call(a) \in NewCall
  BY ConfigAssumption DEF Change, PeerType
<1>4. changes' = changes \o new
  BY <1>1
<1>5. calls \in [1..n -> NewCall]
  <2> HIDE DEF call, NewCall
  <2> QED
    BY <1>2, <1>3
<1> HIDE DEF calls, NewCall
<1>6. calls \in Seq(NewCall)
  BY <1>5
<1>7. new \in Seq(NewCall)
  <2>1. room \in Int /\ Len(calls) \in Nat
    BY <1>6, ConfigAssumption DEF QueueInv
  <2> QED
    BY <1>6, <2>1
<1> HIDE DEF new
<1>8. /\ changes' \in Seq(Change) /\ Len(changes') = Len(changes) + Len(new)
      /\ \A i \in 1..Len(changes) : changes'[i] = changes[i]
      /\ \A i \in 1..Len(changes') : i > Len(changes) => changes'[i] = new[i - Len(changes)]
  <2>1. new \in Seq(Change)
    BY <1>7 DEF NewCall
  <2> QED
    BY <1>4, <2>1 DEF QueueInv
<1>9. ASSUME NEW i \in 1..Len(changes'), changes'[i].kind = "Promotion"
      PROVE  Known(changes[i].token)'
  <2>1. CASE i <= Len(changes)
    <3>1. i \in 1..Len(changes) /\ changes'[i] = changes[i]
      BY <1>8, <2>1 DEF QueueInv
    <3>2. PICK t \in Nat : t = changes[i].token /\ Known(t)
      BY <1>9, <3>1 DEF QueueInv, Known
    <3>3. t = changes'[i].token /\ Known(t)'
      BY <3>1, <3>2 DEF KnownKept
    <3> QED
      BY <3>3 DEF Known
  <2>2. CASE i > Len(changes)
    <3>1. i - Len(changes) \in 1..Len(new) /\ changes'[i] = new[i - Len(changes)]
      BY <1>7, <1>8, <2>2 DEF QueueInv
    <3>2. changes'[i] \in NewCall
      BY <1>7, <3>1
    <3> QED
      BY <1>9, <3>2 DEF NewCall
  <2> QED
    BY <2>1, <2>2 DEF QueueInv
<1> QED
  BY <1>8, <1>9 DEF QueueInv

-----------------------------------------------------------------------------
(* The connections.                                                        *)

\* Connections are only dropped.
LEMMA SetsFewer ==
    ASSUME SetsInv, UNCHANGED next_token,
           conn_candidates' \subseteq conn_candidates, connections' \subseteq connections
    PROVE  SetsInv' /\ KnownKept
BY DEF SetsInv, KnownKept, Known, All, SelfIdKnown, OneConnectionPerPeer, external_addr

\* Connections are made to addresses to which there is none.
LEMMA SetsMore ==
    ASSUME SetsInv, UNCHANGED connections, next_token' \in Nat, next_token <= next_token',
           NEW new \in SUBSET Connection, conn_candidates' = conn_candidates \cup new,
           \A c \in new : next_token <= c.token /\ c.token < next_token',
           \A c \in new, d \in new : c.token = d.token \/ c.addr = d.addr => c = d,
           \A c \in new, d \in All : c.addr # d.addr
    PROVE  SetsInv' /\ KnownKept
<1>1. All' = All \cup new
  BY DEF All
<1>2. \A c \in All : c.token \in Nat /\ c.token < next_token
  BY DEF SetsInv, Connection
<1>3. \A c \in new : c.token \in Nat
  BY DEF Connection
<1>4. \A c, d \in All' : c.token = d.token \/ c.addr = d.addr => c = d
  BY <1>1, <1>2, <1>3 DEF SetsInv
<1>5. \A c \in All' : c.token < next_token'
  BY <1>1, <1>2 DEF SetsInv
<1>6. SelfIdKnown' /\ OneConnectionPerPeer'
  BY DEF SetsInv, SelfIdKnown, OneConnectionPerPeer, external_addr
<1>7. KnownKept
  BY <1>1, <1>2, <1>3 DEF SetsInv, KnownKept, Known
<1> QED
  BY <1>1, <1>4, <1>5, <1>6, <1>7 DEF SetsInv

LEMMA NewConnectionType ==
    ASSUME NEW t \in Nat, NEW a \in Addr, NEW type \in PeerType
    PROVE  NewConnection(t, a, type) \in Connection
BY DEF NewConnection, Connection, Addr

LEMMA SetsAccept ==
    ASSUME SetsInv, NEW addr \in Addr, accept(addr)
    PROVE  SetsInv' /\ KnownKept
<1> DEFINE c == NewConnection(next_token, addr, "Node")
<1>1. "Node" \in PeerType
  BY DEF PeerType
<1>2. c \in Connection /\ c.token = next_token /\ c.addr = addr
  <2>1. c \in Connection
    BY <1>1, NewConnectionType DEF SetsInv
  <2> QED
    BY <2>1 DEF NewConnection
<1>3. /\ conn_candidates' = conn_candidates \cup {c}
      /\ next_token' = next_token + 1
      /\ UNCHANGED connections
      /\ \A d \in All : d.addr # addr
  BY DEF accept, Acceptable
<1> HIDE DEF c
<1> DEFINE new == {c}
<1>4. new \in SUBSET Connection
  BY <1>2
<1>5. \A d \in new : d = c
  OBVIOUS
<1>6. conn_candidates' = conn_candidates \cup new
  BY <1>3
<1> HIDE DEF new
<1>7. next_token' \in Nat /\ next_token <= next_token' /\ next_token < next_token'
  BY <1>3 DEF SetsInv
<1> QED
  BY <1>2, <1>3, <1>4, <1>5, <1>6, <1>7, SetsMore DEF SetsInv

LEMMA SetsConnect ==
    ASSUME SetsInv, NEW addrs \in SUBSET NodeAddr, NEW type \in PeerType, NEW respect,
           NEW reached, NEW failed, ConnectTo(addrs, type, respect, reached, failed),
           UNCHANGED connections
    PROVE  SetsInv' /\ KnownKept /\ reached \subseteq addrs
<1>1. /\ reached \subseteq addrs
      /\ \A a \in reached : MayConnect(a, type, respect)
  BY DEF ConnectTo
<1>2. \A a \in reached, d \in All : d.addr # a
  BY <1>1 DEF MayConnect
<1>3. Cardinality(reached) \in Nat
  BY <1>1, ConfigAssumption, FS_Subset, FS_CardinalityType
<1>4. next_token' \in Nat /\ next_token <= next_token'
  BY <1>3 DEF ConnectTo, SetsInv
<1>5. PICK tokens \in [reached -> Token] :
        /\ \A a \in reached : next_token <= tokens[a] /\ tokens[a] < next_token'
        /\ \A a, b \in reached : tokens[a] = tokens[b] => a = b
        /\ conn_candidates' = conn_candidates
              \cup {NewConnection(tokens[a], a, type) : a \in reached}
  BY DEF ConnectTo
<1> DEFINE new == {NewConnection(tokens[a], a, type) : a \in reached}
<1>6. ASSUME NEW c \in new
      PROVE  \E a \in reached : c = NewConnection(tokens[a], a, type) /\ c \in Connection
                                /\ c.token = tokens[a] /\ c.addr = a
  <2>1. PICK a \in reached : c = NewConnection(tokens[a], a, type)
    OBVIOUS
  <2>2. a \in Addr
    BY <1>1 DEF NodeAddr, Addr, Port
  <2>3. tokens[a] \in Nat
    BY <1>5, ConfigAssumption DEF Token
  <2>4. c \in Connection
    BY <2>1, <2>2, <2>3, NewConnectionType
  <2>5. c.token = tokens[a] /\ c.addr = a
    BY <2>1 DEF NewConnection
  <2> QED
    BY <2>1, <2>4, <2>5
<1>7. conn_candidates' = conn_candidates \cup new
  BY <1>5
<1> HIDE DEF new
<1>8. new \in SUBSET Connection
  BY <1>6
<1>9. /\ \A c \in new : next_token <= c.token /\ c.token < next_token'
      /\ \A c \in new, d \in new : c.token = d.token \/ c.addr = d.addr => c = d
      /\ \A c \in new, d \in All : c.addr # d.addr
  BY <1>2, <1>5, <1>6
<1> QED
  BY <1>1, <1>4, <1>7, <1>8, <1>9, SetsMore

LEMMA SetsPromotion ==
    ASSUME SetsInv, NEW ch, Known(ch.token), Promotion(ch)
    PROVE  SetsInv' /\ KnownKept
<1> DEFINE promoted == {c \in conn_candidates : c.token = ch.token}
<1>1. /\ conn_candidates' = conn_candidates \ promoted
      /\ connections' = connections \cup {c \in promoted : ~is_connected(external_addr(c))}
      /\ UNCHANGED next_token
  BY DEF Promotion
<1>2. All' \subseteq All
  BY <1>1 DEF All
<1>3. ASSUME NEW c \in connections'
      PROVE  /\ c \in All
             /\ \/ c \in connections
                \/ c.token = ch.token /\ ~is_connected(external_addr(c))
  BY <1>1, <1>3 DEF All
<1> HIDE DEF promoted
<1>4. SelfIdKnown'
  BY <1>3 DEF SetsInv, SelfIdKnown, Known
<1>5. ASSUME NEW c \in connections', NEW d \in connections', external_addr(c) = external_addr(d)
      PROVE  c = d
  <2>1. CASE c \in connections /\ d \in connections
    BY <1>5, <2>1 DEF SetsInv, OneConnectionPerPeer
  <2>2. CASE c \notin connections /\ d \in connections
    BY <1>3, <1>5, <2>2 DEF is_connected
  <2>3. CASE c \in connections /\ d \notin connections
    BY <1>3, <1>5, <2>3 DEF is_connected
  <2>4. CASE c \notin connections /\ d \notin connections
    BY <1>3, <2>4 DEF SetsInv
  <2> QED
    BY <2>1, <2>2, <2>3, <2>4
<1>6. OneConnectionPerPeer'
  BY <1>5 DEF OneConnectionPerPeer, external_addr
<1> QED
  BY <1>1, <1>2, <1>4, <1>6 DEF SetsInv, KnownKept, Known

\* One connection changes; if its identity is known, not in what tells peers apart.
LEMMA SetsUpdate ==
    ASSUME SetsInv, UNCHANGED next_token, NEW c \in All, NEW d \in Connection, Update(c, d),
           d.token = c.token, d.addr = c.addr,
           c.self_id => d.self_id /\ d.external_port = c.external_port
    PROVE  SetsInv' /\ KnownKept
<1> DEFINE f(e) == IF e = c THEN d ELSE e
<1>1. /\ \A x \in All' : \E e \in All : x = f(e)
      /\ \A x \in connections' : \E e \in connections : x = f(e)
  BY DEF Update, All
<1>2. \A e \in All : /\ f(e) \in Connection /\ f(e).token = e.token /\ f(e).addr = e.addr
                     /\ e.self_id => f(e).self_id /\ f(e).external_port = e.external_port
  BY DEF SetsInv
<1> HIDE DEF f
<1>3. /\ All' \subseteq Connection
      /\ \A x \in All' : x.token < next_token'
      /\ \A x, y \in All' : x.token = y.token \/ x.addr = y.addr => x = y
  BY <1>1, <1>2 DEF SetsInv
<1>4. connections \subseteq All
  BY DEF All
<1>5. SelfIdKnown'
  BY <1>1, <1>2, <1>4 DEF SetsInv, SelfIdKnown
<1>6. \A e \in connections : external_addr(f(e)) = external_addr(e)
  BY <1>2, <1>4 DEF SetsInv, SelfIdKnown, external_addr
<1>7. \A x \in connections', y \in connections' : external_addr(x) = external_addr(y) => x = y
  BY <1>1, <1>6 DEF SetsInv, OneConnectionPerPeer
<1>8. OneConnectionPerPeer'
  BY <1>7 DEF OneConnectionPerPeer, external_addr
<1>9. KnownKept
  BY <1>1, <1>2 DEF KnownKept, Known
<1> QED
  BY <1>3, <1>5, <1>8, <1>9 DEF SetsInv

-----------------------------------------------------------------------------
(* The steps.                                                              *)

LEMMA InitInv == Init => Inv
<1> SUFFICES ASSUME Init PROVE Inv
  OBVIOUS
<1>1. SetsInv
  BY DEF Init, SetsInv, All, SelfIdKnown, OneConnectionPerPeer
<1>2. QueueInv
  BY DEF Init, QueueInv
<1> QED
  BY <1>1, <1>2, ConfigAssumption DEF Init, Inv

LEMMA PollChangeInv ==
    ASSUME Inv, PollChange
    PROVE  Inv'
<1> DEFINE ch == Head(changes)
<1>1. SetsInv /\ QueueInv /\ given_addresses \subseteq NodeAddr /\ changes # <<>>
  BY DEF Inv, PollChange
<1>2. ch \in Change /\ (ch.kind = "Promotion" => Known(ch.token))
  <2>1. ch = changes[1] /\ 1 \in 1..Len(changes) /\ ch \in Change
    BY <1>1 DEF QueueInv
  <2> QED
    BY <1>1, <2>1 DEF QueueInv
<1>3. process_conn_change(ch)
  BY DEF PollChange
<1> HIDE DEF ch
<1>4. SetsInv' /\ KnownKept /\ given_addresses' \subseteq NodeAddr
  <2>1. CASE ch.kind = "NewConn" /\ NewConn(ch)
    <3>1. PICK reached \in SUBSET {ch.addr} : \E failed \in SUBSET {ch.addr} :
            /\ ConnectTo({ch.addr}, ch.peer_type, ~ch.given, reached, failed)
            /\ given_addresses' = IF ch.given THEN given_addresses \cup reached
                                  ELSE given_addresses
      BY <2>1 DEF NewConn
    <3>2. PICK failed \in SUBSET {ch.addr} :
            ConnectTo({ch.addr}, ch.peer_type, ~ch.given, reached, failed)
      BY <3>1
    <3>3. {ch.addr} \in SUBSET NodeAddr /\ ch.peer_type \in PeerType
      BY <1>2, <2>1, ChangeType
    <3>4. UNCHANGED connections
      BY <2>1 DEF NewConn
    <3>5. SetsInv' /\ KnownKept
      BY <1>1, <3>2, <3>3, <3>4, SetsConnect
    <3> QED
      BY <1>1, <3>1, <3>3, <3>5
  <2>2. CASE ch.kind = "Promotion" /\ Promotion(ch)
    BY <1>1, <1>2, <2>2, SetsPromotion DEF Promotion
  <2>3. CASE ch.kind = "NewPeers" /\ NewPeers(ch)
    <3>1. PICK tried \in SUBSET ch.addrs : \E reached \in SUBSET tried : \E failed \in SUBSET tried :
            ConnectTo(tried, "Node", TRUE, reached, failed)
      BY <2>3 DEF NewPeers
    <3>2. PICK reached \in SUBSET tried, failed \in SUBSET tried :
            ConnectTo(tried, "Node", TRUE, reached, failed)
      BY <3>1
    <3>3. tried \in SUBSET NodeAddr
      BY <1>2, <2>3, ChangeType
    <3>4. "Node" \in PeerType
      BY DEF PeerType
    <3>5. UNCHANGED <<connections, given_addresses>>
      BY <2>3 DEF NewPeers
    <3>6. UNCHANGED connections
      BY <3>5
    <3>7. SetsInv' /\ KnownKept
      BY <1>1, <3>2, <3>3, <3>4, <3>6, SetsConnect
    <3> QED
      BY <1>1, <3>5, <3>7
  <2>4. CASE Expulsion(ch) \/ Removal({ch.token}) \/ Removal(ch.tokens)
    <3>1. /\ conn_candidates' \subseteq conn_candidates /\ connections' \subseteq connections
          /\ UNCHANGED <<next_token, given_addresses>>
      BY <2>4 DEF Expulsion, Removal, remove_connections
    <3> QED
      BY <1>1, <3>1, SetsFewer
  <2> QED
    BY <1>3, <2>1, <2>2, <2>3, <2>4 DEF process_conn_change
<1>5. QueueInv'
  BY <1>1, <1>4, QueueTaken DEF PollChange
<1> QED
  BY <1>4, <1>5 DEF Inv

LEMMA EventInv ==
    ASSUME Inv, NEW c \in All, Event(c),
           \/ \E port \in ListenPort : promote_to_post_handshake(c, port)
           \/ \E addrs \in PeerLists : PeerList(c, addrs)
           \/ Closed(c)
           \/ ProtocolError(c)
    PROVE  Inv'
<1>1. /\ SetsInv /\ QueueInv /\ given_addresses' \subseteq NodeAddr /\ UNCHANGED next_token
      /\ c \in Connection /\ c.token \in Nat /\ c.token < next_token
  BY DEF Inv, Event, SetsInv, Connection
<1>2. ASSUME UNCHANGED <<conn_candidates, connections>>
      PROVE  SetsInv' /\ KnownKept
  BY <1>1, <1>2, SetsFewer
<1>3. ASSUME NEW port \in ListenPort, promote_to_post_handshake(c, port)
      PROVE  SetsInv' /\ QueueInv'
  <2> DEFINE d == [c EXCEPT !.self_id = TRUE, !.external_port = port]
             ch == [kind |-> "Promotion", token |-> c.token]
  <2>1. /\ d \in Connection /\ d.token = c.token /\ d.addr = c.addr /\ d.self_id
        /\ d # c
    BY <1>1, <1>3 DEF Connection, Port, promote_to_post_handshake
  <2>2. Update(c, d) /\ ~c.self_id /\ register_conn_change(ch)
    BY <1>3 DEF promote_to_post_handshake
  <2>3. ch \in Change /\ ch.token = c.token
    BY <1>1 DEF Change
  <2> HIDE DEF ch, d
  <2>4. SetsInv' /\ KnownKept
    BY <1>1, <2>1, <2>2, SetsUpdate
  <2>5. Known(c.token)'
    <3>1. d \in All'
      BY <2>2 DEF Update, All
    <3>2. \A x \in All' : x.token = c.token => x = d
      BY <2>1, <2>4, <3>1 DEF SetsInv
    <3> QED
      BY <1>1, <2>1, <3>2 DEF Known
  <2>6. ch.kind = "Promotion" => Known(ch.token)'
    BY <2>3, <2>5
  <2> QED
    BY <1>1, <2>2, <2>3, <2>4, <2>6, QueueAdded
<1>4. ASSUME NEW addrs \in PeerLists, PeerList(c, addrs)
      PROVE  SetsInv' /\ QueueInv'
  <2> DEFINE ch == [kind |-> "NewPeers", addrs |-> addrs]
  <2>1. ch \in Change /\ ch.kind # "Promotion"
    BY ConfigAssumption DEF Change
  <2>2. register_conn_change(ch) /\ UNCHANGED <<conn_candidates, connections>>
    BY <1>4 DEF PeerList
  <2> HIDE DEF ch
  <2> QED
    BY <1>1, <1>2, <2>1, <2>2, QueueAdded
<1>5. CASE Closed(c)
  <2> DEFINE d == [c EXCEPT !.closed = TRUE]
             ch == [kind |-> "Removal", token |-> c.token]
  <2>1. /\ d \in Connection /\ d.token = c.token /\ d.addr = c.addr
        /\ d.self_id = c.self_id /\ d.external_port = c.external_port
    BY <1>1 DEF Connection
  <2>2. Update(c, d) /\ register_conn_change(ch)
    BY <1>5 DEF Closed
  <2>3. ch \in Change /\ ch.kind # "Promotion"
    BY <1>1 DEF Change
  <2> HIDE DEF ch, d
  <2>4. SetsInv' /\ KnownKept
    BY <1>1, <2>1, <2>2, SetsUpdate
  <2>5. QueueInv'
    BY <1>1, <2>2, <2>3, <2>4, QueueAdded
  <2> QED
    BY <1>1, <2>4, <2>5 DEF Inv
<1>6. CASE ProtocolError(c)
  <2> DEFINE ch == [kind |-> "Expulsion", token |-> c.token]
  <2>1. ch \in Change /\ ch.kind # "Promotion"
    BY <1>1 DEF Change
  <2>2. register_conn_change(ch) /\ UNCHANGED <<conn_candidates, connections>>
    BY <1>6 DEF ProtocolError
  <2> HIDE DEF ch
  <2>3. SetsInv' /\ QueueInv'
    BY <1>1, <1>2, <2>1, <2>2, QueueAdded
  <2> QED
    BY <1>1, <2>3 DEF Inv
<1> QED
  BY <1>1, <1>3, <1>4, <1>5, <1>6 DEF Inv

\* The poll loop's and the main thread's calls of the given peers.
LEMMA CallsInv ==
    ASSUME Inv, HousekeepingReconnect \/ establish_connections
    PROVE  Inv'
<1>1. /\ SetsInv /\ QueueInv /\ given_addresses' \subseteq NodeAddr /\ UNCHANGED connections
      /\ unconnected_given_addresses \in SUBSET NodeAddr
      /\ given_addresses \in SUBSET NodeAddr
  BY DEF Inv, HousekeepingReconnect, establish_connections, unconnected_given_addresses
<1>2. "Node" \in PeerType
  BY DEF PeerType
<1>3. SetsInv' /\ KnownKept
  <2>1. PICK addrs \in SUBSET NodeAddr : \E reached, failed :
          ConnectTo(addrs, "Node", FALSE, reached, failed)
    <3>1. CASE HousekeepingReconnect
      BY <1>1, <3>1 DEF HousekeepingReconnect
    <3>2. CASE establish_connections
      BY <1>1, <3>2 DEF establish_connections
    <3> QED
      BY <3>1, <3>2
  <2>2. PICK reached, failed : ConnectTo(addrs, "Node", FALSE, reached, failed)
    BY <2>1
  <2> QED
    BY <1>1, <1>2, <2>2, SetsConnect
<1>4. attempt_bootstrap \/ UNCHANGED changes
  BY DEF HousekeepingReconnect, establish_connections
<1>5. QueueInv'
  BY <1>1, <1>3, <1>4, QueueBootstrap, QueueKept
<1> QED
  BY <1>1, <1>3, <1>5 DEF Inv

LEMMA RequestInv ==
    ASSUME Inv, Request,
           \/ \E token \in Token : ConsensusExpulsion(token)
           \/ \E addr \in NodeAddr : peer_connect(addr) \/ peer_disconnect(addr)
           \/ \E ip \in Ip : ban_node(ip) \/ unban_peer(ip)
    PROVE  Inv'
<1>1. SetsInv' /\ KnownKept /\ QueueInv
  <2>1. SetsInv /\ UNCHANGED next_token /\ UNCHANGED conn_candidates /\ UNCHANGED connections
    BY DEF Inv, Request
  <2> QED
    BY <2>1, SetsFewer DEF Inv
<1>2. \A c \in All : c.token \in Nat
  BY DEF Inv, SetsInv, Connection
<1>3. given_addresses' \subseteq NodeAddr
  BY DEF Inv, ConsensusExpulsion, peer_connect, peer_disconnect, drop_addr, ban_node,
         drop_by_ip_and_ban, unban_peer
<1>4. \/ UNCHANGED changes
      \/ \E ch \in Change : ch.kind # "Promotion" /\ register_conn_change(ch)
  <2>1. \A t \in Nat, kind \in {"Expulsion", "Removal"} :
          LET ch == [kind |-> kind, token |-> t] IN ch \in Change /\ ch.kind # "Promotion"
    BY DEF Change
  <2>2. ASSUME NEW token \in Token, ConsensusExpulsion(token)
        PROVE  \E ch \in Change : ch.kind # "Promotion" /\ register_conn_change(ch)
    <3>1. token \in Nat
      BY ConfigAssumption DEF Token
    <3> QED
      BY <2>1, <2>2, <3>1 DEF ConsensusExpulsion
  <2>3. ASSUME NEW addr \in NodeAddr, peer_connect(addr)
        PROVE  \E ch \in Change : ch.kind # "Promotion" /\ register_conn_change(ch)
    <3> DEFINE ch == [kind |-> "NewConn", addr |-> addr, peer_type |-> "Node", given |-> TRUE]
    <3>1. ch \in Change /\ ch.kind # "Promotion"
      BY DEF Change, PeerType
    <3>2. register_conn_change(ch)
      BY <2>3 DEF peer_connect
    <3> QED
      BY <3>1, <3>2
  <2>4. ASSUME NEW addr \in NodeAddr, peer_disconnect(addr), changes' # changes
        PROVE  \E ch \in Change : ch.kind # "Promotion" /\ register_conn_change(ch)
    <3>1. PICK token \in find_conn_to(addr) :
            register_conn_change([kind |-> "Removal", token |-> token])
      BY <2>4 DEF peer_disconnect, drop_addr
    <3>2. token \in Nat
      BY <1>2 DEF find_conn_to
    <3> QED
      BY <2>1, <3>1, <3>2
  <2>5. ASSUME NEW ip \in Ip, ban_node(ip)
        PROVE  \E ch \in Change : ch.kind # "Promotion" /\ register_conn_change(ch)
    <3> DEFINE ch == [kind |-> "RemoveAll", tokens |-> find_conn_tokens_by_ip(ip)]
    <3>1. find_conn_tokens_by_ip(ip) \in SUBSET Nat
      BY <1>2 DEF find_conn_tokens_by_ip
    <3>2. ch \in Change /\ ch.kind # "Promotion"
      BY <3>1 DEF Change
    <3>3. register_conn_change(ch)
      BY <2>5 DEF ban_node, drop_by_ip_and_ban
    <3> QED
      BY <3>2, <3>3
  <2> QED
    BY <2>2, <2>3, <2>4, <2>5 DEF unban_peer
<1>5. QueueInv'
  BY <1>1, <1>4, QueueKept, QueueAdded
<1> QED
  BY <1>1, <1>3, <1>5 DEF Inv

LEMMA NextInv == Inv /\ [Next]_vars => Inv'
<1> SUFFICES ASSUME Inv, [Next]_vars PROVE Inv'
  OBVIOUS
<1>1. ASSUME SetsInv' /\ KnownKept, UNCHANGED given_addresses, UNCHANGED changes
      PROVE  Inv'
  BY <1>1, QueueKept DEF Inv
<1>2. CASE \/ PollAcceptDone \/ PollChangesDone \/ PollEventsDone \/ UNCHANGED vars
          \/ \E expired \in SUBSET {c.token : c \in All} : HousekeepingDrop(expired)
  <2>1. /\ conn_candidates' \subseteq conn_candidates /\ connections' \subseteq connections
        /\ UNCHANGED next_token /\ UNCHANGED given_addresses /\ UNCHANGED changes
    BY <1>2 DEF PollAcceptDone, PollChangesDone, PollEventsDone, HousekeepingDrop, vars, lists
  <2> QED
    BY <1>1, <2>1, SetsFewer DEF Inv
<1>3. ASSUME NEW addr \in [ip : Ip, port : OutPort], accept(addr)
      PROVE  Inv'
  <2>1. addr \in Addr
    BY DEF Addr, Port
  <2>2. UNCHANGED given_addresses /\ UNCHANGED changes
    BY <1>3 DEF accept
  <2> QED
    BY <1>1, <1>3, <2>1, <2>2, SetsAccept DEF Inv
<1>4. ASSUME NEW c \in All,
             \/ \E port \in ListenPort : promote_to_post_handshake(c, port)
             \/ \E addrs \in PeerLists : PeerList(c, addrs)
             \/ Closed(c)
             \/ ProtocolError(c)
      PROVE  Inv'
  <2>1. Event(c)
    BY <1>4 DEF promote_to_post_handshake, PeerList, Closed, ProtocolError
  <2> QED
    BY <1>4, <2>1, EventInv
<1>5. CASE \/ \E token \in Token : ConsensusExpulsion(token)
           \/ \E addr \in NodeAddr : peer_connect(addr) \/ peer_disconnect(addr)
           \/ \E ip \in Ip : ban_node(ip) \/ unban_peer(ip)
  <2>1. Request
    BY <1>5 DEF ConsensusExpulsion, peer_connect, peer_disconnect, ban_node, unban_peer
  <2> QED
    BY <1>5, <2>1, RequestInv
<1> QED
  BY <1>2, <1>3, <1>4, <1>5, PollChangeInv, CallsInv DEF Next, PollStep

LEMMA InvHolds == Spec => []Inv
BY InitInv, NextInv, PTL DEF Spec

\* connect and accept never leave two connections with one remote address: what
\* find_conn_to assumes.
THEOREM AtMostOneToHolds == Spec => []AtMostOneTo
<1>1. Inv => AtMostOneTo
  BY DEF Inv, SetsInv, AtMostOneTo
<1> QED
  BY <1>1, InvHolds, PTL

\* process_conn_change never promotes a second connection to a peer that the node
\* is connected to already, whichever of the two nodes called the other.
THEOREM OneConnectionPerPeerHolds == Spec => []OneConnectionPerPeer
<1>1. Inv => OneConnectionPerPeer
  BY DEF Inv, SetsInv
<1> QED
  BY <1>1, InvHolds, PTL

\* The unwrap of self_id in get_peer_stats never fails.
THEOREM SelfIdKnownHolds == Spec => []SelfIdKnown
<1>1. Inv => SelfIdKnown
  BY DEF Inv, SetsInv
<1> QED
  BY <1>1, InvHolds, PTL
=============================================================================
