----------------------------- MODULE Connection ------------------------------
(***************************************************************************)
(* The two ends of one connection: the noise handshake, the framing and    *)
(* encryption of messages, partial reads and writes on non-blocking        *)
(* sockets, and readiness events that are reported only once.  Each end is *)
(* one pass of its poll loop over the connection after the other: take     *)
(* the events, write, read.                                                *)
(*                                                                         *)
(* A stream is a sequence of units (bytes, coarsened): a length of         *)
(* PAYLOAD_SIZE units, then the message.  A handshake message is one unit  *)
(* after its length.                                                       *)
(***************************************************************************)
EXTENDS Integers, Sequences, FiniteSets, SequencesExt

CONSTANTS
    Msg,                    \* the messages besides pings and pongs
    MsgOf,                  \* the end that sends a message
    MsgLen,                 \* its length
    MsgPriority,            \* "Normal" or "High"
    MaxPings,               \* bound: pings sent
    NOISE_MAX_PAYLOAD_LEN,
    MAC_LENGTH,
    READ_SIZE,              \* socket_read_size
    WRITE_SIZE,             \* socket_write_size
    SOCKET_SIZE,            \* what the sockets hold between the ends
    Coalesce                \* may C and a later message be read at once?

ASSUME HandshakeFits == {READ_SIZE, WRITE_SIZE, SOCKET_SIZE} \subseteq {n \in Nat : n >= 3}

End == {"initiator", "responder"}

PAYLOAD_SIZE == 2

NOISE_MAX_MESSAGE_LEN == NOISE_MAX_PAYLOAD_LEN + MAC_LENGTH

VARIABLES
    end,        \* the state of each end: Connection and ConnectionLowLevel
    net,        \* the stream on its way to each end
    events,     \* the events reported to each end's poll loop
    sent,       \* what each end has encrypted, in order
    got         \* what each end has received, in order

vars == <<end, net, events, sent, got>>

Smaller(a, b) == IF a < b THEN a ELSE b

Drop(units, n) == SubSeq(units, n + 1, Len(units))

Other(e) == IF e = "initiator" THEN "responder" ELSE "initiator"

Message == Msg \cup {"ping", "pong"}

Length(m) == IF m \in Msg THEN MsgLen[m] ELSE 1

\* A unit of a length field, of a handshake message, of an encrypted chunk
\* (its nonce, place and length; last: the end of the message), or rubbish.
LengthUnit(i, value) == [kind |-> "length", place |-> i, value |-> value]

HandshakeUnit(letter) == [kind |-> "handshake", letter |-> letter]

ChunkUnit(m, nonce, i, size, last) ==
    [kind |-> "chunk", msg |-> m, nonce |-> nonce, place |-> i, size |-> size, last |-> last]

Rubbish == [kind |-> "rubbish"]

Prefixed(length, units) == <<LengthUnit(1, length), LengthUnit(2, length)>> \o units

HandshakeMessage(letter) == Prefixed(1, <<HandshakeUnit(letter)>>)

Init ==
    /\ end = [e \in End |->
         [at |-> "wait", reading |-> FALSE, failed |-> FALSE,
          count |-> IF e = "initiator" THEN 1 ELSE 0, \* messages of the noise session
          peer |-> FALSE,                           \* the network handshake is done
          low |-> <<>>, high |-> <<>>, todo |-> {m \in Msg : MsgOf[m] = e},
          pings |-> 0, pending_pongs |-> 0,
          output_queue |-> IF e = "initiator" THEN HandshakeMessage("A") ELSE <<>>,
          is_writable |-> FALSE,
          buf |-> <<>>, size_bytes |-> <<>>, pending_bytes |-> 0, message |-> <<>>,
          send_nonce |-> 0, recv_nonce |-> 0]]
    /\ net = [e \in End |-> <<>>]
    /\ events = [e \in End |-> {"writable"}]
    /\ sent = [e \in End |-> <<>>]
    /\ got = [e \in End |-> <<>>]

is_post_handshake(e, s) == s.count > (IF e = "initiator" THEN 1 ELSE 2)

-----------------------------------------------------------------------------
(* Sending.                                                                *)

enqueue(s, m) ==
    IF m \in Msg /\ MsgPriority[m] = "Normal"
    THEN [s EXCEPT !.low = Append(@, m)] ELSE [s EXCEPT !.high = Append(@, m)]

\* The high priority queue goes first.
dequeue(s) ==
    IF s.high # <<>> THEN [s EXCEPT !.high = Tail(@)] ELSE [s EXCEPT !.low = Tail(@)]

NextMessage(s) == IF s.high # <<>> THEN Head(s.high) ELSE Head(s.low)

\* Another part of the node sends a message to the peer.
async_send(e, m) ==
    /\ end[e].peer
    /\ m \in end[e].todo
    /\ end' = [end EXCEPT ![e] = [enqueue(@, m) EXCEPT !.todo = @ \ {m}]]
    /\ UNCHANGED <<net, events, sent, got>>

send_ping(e) ==
    /\ end[e].peer
    /\ end[e].pings < MaxPings
    /\ end' = [end EXCEPT ![e] = [enqueue(@, "ping") EXCEPT !.pings = @ + 1,
                                                            !.pending_pongs = @ + 1]]
    /\ UNCHANGED <<net, events, sent, got>>

\* Mutant: the last chunk is counted even if it is full.
full_msg_len_tail(length) ==
    (length \div NOISE_MAX_PAYLOAD_LEN) * NOISE_MAX_MESSAGE_LEN
        + (length % NOISE_MAX_PAYLOAD_LEN) + MAC_LENGTH

\* The length of the message once it is encrypted.
full_msg_len(length) ==
    LET rem == length % NOISE_MAX_PAYLOAD_LEN
    IN  (length \div NOISE_MAX_PAYLOAD_LEN) * NOISE_MAX_MESSAGE_LEN
            + (IF rem # 0 THEN rem + MAC_LENGTH ELSE 0)

\* Chunk k (from 0) of the message, as one noise message.
encrypt_chunk(m, nonce, k) ==
    LET remaining == Length(m) - k * NOISE_MAX_PAYLOAD_LEN
        chunk_size == IF remaining < NOISE_MAX_PAYLOAD_LEN THEN remaining
                      ELSE NOISE_MAX_PAYLOAD_LEN
        size == chunk_size + MAC_LENGTH
    IN  [i \in 1..size |->
            ChunkUnit(m, nonce + k, i, size, i = size /\ remaining = chunk_size)]

NumChunks(m) == (Length(m) + NOISE_MAX_PAYLOAD_LEN - 1) \div NOISE_MAX_PAYLOAD_LEN

encrypt_and_enqueue(s, m) ==
    [s EXCEPT !.output_queue = @ \o Prefixed(full_msg_len(Length(m)),
                  FlattenSeq([k \in 1..NumChunks(m) |-> encrypt_chunk(m, s.send_nonce, k - 1)])),
              !.send_nonce = @ + NumChunks(m)]

\* Mutant: what was to be written counts as written.
flush_socket_once_all(e, then) ==
    LET s == end[e]
        o == Other(e)
        write_size == IF is_post_handshake(e, s) THEN Smaller(WRITE_SIZE, Len(s.output_queue))
                      ELSE Len(s.output_queue)
        written == Smaller(write_size, SOCKET_SIZE - Len(net[o]))
        overwritten == [s EXCEPT !.buf = [i \in 1..Len(@) |-> Rubbish], !.at = then]
    IN  IF written = 0
        THEN /\ end' = [end EXCEPT ![e] = [overwritten EXCEPT !.is_writable = FALSE]]
             /\ UNCHANGED <<net, events>>
        ELSE /\ end' = [end EXCEPT ![e] = [overwritten EXCEPT !.output_queue = Drop(@, write_size)]]
             /\ net' = [net EXCEPT ![o] = @ \o SubSeq(s.output_queue, 1, written)]
             /\ events' = [events EXCEPT ![o] = @ \cup {"readable"}]

\* Writes what fits; the buffer that reads use is overwritten.
flush_socket_once(e, then) ==
    LET s == end[e]
        o == Other(e)
        write_size == IF is_post_handshake(e, s) THEN Smaller(WRITE_SIZE, Len(s.output_queue))
                      ELSE Len(s.output_queue)
        written == Smaller(write_size, SOCKET_SIZE - Len(net[o]))
        overwritten == [s EXCEPT !.buf = [i \in 1..Len(@) |-> Rubbish], !.at = then]
    IN  IF written = 0
        THEN /\ end' = [end EXCEPT ![e] = [overwritten EXCEPT !.is_writable = FALSE]]
             /\ UNCHANGED <<net, events>>
        ELSE /\ end' = [end EXCEPT ![e] = [overwritten EXCEPT !.output_queue = Drop(@, written)]]
             /\ net' = [net EXCEPT ![o] = @ \o SubSeq(s.output_queue, 1, written)]
             /\ events' = [events EXCEPT ![o] = @ \cup {"readable"}]

\* A pass over the connection starts with the events since the last one.
Poll(e) ==
    /\ end[e].at = "wait"
    /\ events[e] # {} \/ end[e].low \o end[e].high # <<>>
    /\ end' = [end EXCEPT ![e] = [@ EXCEPT !.at = "write",
                                           !.is_writable = @ \/ "writable" \in events[e],
                                           !.reading = "readable" \in events[e]]]
    /\ events' = [events EXCEPT ![e] = {}]
    /\ UNCHANGED <<net, sent, got>>

\* send_pending_messages
SendMessage(e) ==
    /\ end[e].at = "write"
    /\ end[e].low \o end[e].high # <<>>
    /\ LET m == NextMessage(end[e])
           s == encrypt_and_enqueue(dequeue(end[e]), m)
       IN  /\ end' = [end EXCEPT ![e] = [s EXCEPT !.at =
                        IF Len(s.output_queue) >= WRITE_SIZE THEN "squeeze" ELSE "write"]]
           /\ sent' = [sent EXCEPT ![e] = Append(@, m)]
    /\ UNCHANGED <<net, events, got>>

\* Enough is collected to write it at once, whether the socket is known to be
\* writable or not.
Squeeze(e) ==
    /\ end[e].at = "squeeze"
    /\ flush_socket_once(e, "write")
    /\ UNCHANGED <<sent, got>>

\* flush_socket, at the end of the output and after a handshake message
Flush(e) ==
    /\ \/ end[e].at = "write" /\ end[e].low \o end[e].high = <<>>
       \/ end[e].at = "answer"
    /\ IF end[e].is_writable /\ end[e].output_queue # <<>>
       THEN flush_socket_once(e, end[e].at)
       ELSE /\ end' = [end EXCEPT ![e].at = IF end[e].at = "answer" \/ end[e].reading THEN "read"
                                            ELSE "wait"]
            /\ UNCHANGED <<net, events>>
    /\ UNCHANGED <<sent, got>>

-----------------------------------------------------------------------------
(* Receiving.                                                              *)

Fail(s) == [s EXCEPT !.failed = TRUE]

attempt_to_read_length(s) ==
    LET k == Smaller(Len(s.buf), PAYLOAD_SIZE - Len(s.size_bytes))
        size == s.size_bytes \o SubSeq(s.buf, 1, k)
        shifted == [s EXCEPT !.buf = Drop(@, k), !.size_bytes = size]
    IN  IF Len(size) < PAYLOAD_SIZE THEN shifted
        ELSE IF size[1].kind = "length" /\ size = Prefixed(size[1].value, <<>>)
        THEN [shifted EXCEPT !.size_bytes = <<>>, !.pending_bytes = size[1].value]
        ELSE Fail(shifted)

\* process_msg_a, process_msg_b and process_msg_c: the next message of the noise
\* handshake, and the answer to it.  Whatever else is in the buffer is dropped.
ProcessHandshake(e, s) ==
    LET expected == CASE s.count = 0 -> "A" [] s.count = 1 -> "B" [] s.count = 2 -> "C"
        done == [s EXCEPT !.buf = <<>>, !.message = <<>>]
    IN  IF s.message # <<HandshakeUnit(expected)>> THEN Fail(s)
        ELSE CASE expected = "A" ->
                    [done EXCEPT !.count = 2, !.at = "answer",
                                 !.output_queue = @ \o HandshakeMessage("B")]
               [] expected = "B" ->
                    [done EXCEPT !.count = 3, !.at = "answer", !.peer = TRUE,
                                 !.output_queue = @ \o HandshakeMessage("C")]
               [] expected = "C" -> [done EXCEPT !.count = 3, !.peer = TRUE]

\* Chunk k (from 0) of an encrypted message, cut out by its length alone.
ChunkOf(units, k) ==
    SubSeq(units, k * NOISE_MAX_MESSAGE_LEN + 1,
           Smaller((k + 1) * NOISE_MAX_MESSAGE_LEN, Len(units)))

\* A chunk is accepted if it is complete and has the nonce that is due.
decrypt_chunk(chunk, nonce) ==
    \A i \in 1..Len(chunk) :
        /\ chunk[i].kind = "chunk"
        /\ chunk[i].nonce = nonce
        /\ chunk[i].place = i
        /\ chunk[i].size = Len(chunk)

send_pong(s) == enqueue(s, "pong")

\* A pong that nobody has asked for is an error.
notify_pong(s) ==
    IF s.pending_pongs <= 0 THEN Fail(s) ELSE [s EXCEPT !.pending_pongs = @ - 1]

\* handle_incoming_message, for what it does to this connection
handle_incoming_message(s, m) ==
    CASE m = "ping" -> send_pong(s)
      [] m = "pong" -> notify_pong(s)
      [] OTHER -> s

decrypt(s) ==
    LET len == Len(s.message)
        num_all_chunks == len \div NOISE_MAX_MESSAGE_LEN
                            + (IF len % NOISE_MAX_MESSAGE_LEN > 0 THEN 1 ELSE 0)
        intact == \A k \in 0..(num_all_chunks - 1) :
                     decrypt_chunk(ChunkOf(s.message, k), s.recv_nonce + k)
        m == s.message[1].msg
    IN  IF ~intact \/ len - num_all_chunks * MAC_LENGTH # Length(m)
        THEN [state |-> Fail(s), received |-> <<>>]
        ELSE [state |-> handle_incoming_message(
                            [s EXCEPT !.message = <<>>, !.recv_nonce = @ + num_all_chunks], m),
              received |-> <<m>>]

process_incoming_msg(e, s) ==
    LET to_read == Smaller(s.pending_bytes, Len(s.buf))
        post == is_post_handshake(e, s)
        read == [s EXCEPT !.message = @ \o SubSeq(s.buf, 1, to_read),
                          !.pending_bytes = @ - to_read,
                          !.buf = IF post THEN Drop(@, to_read) ELSE @]
    IN  IF read.pending_bytes # 0 THEN [state |-> read, received |-> <<>>]
        ELSE IF post THEN decrypt(read)
        ELSE [state |-> ProcessHandshake(e, read), received |-> <<>>]

\* What one read from the socket returns.
Available(e) ==
    IF ~Coalesce /\ ~is_post_handshake(e, end[e])
    THEN Smaller(PAYLOAD_SIZE + 1, Len(net[e]))
    ELSE Smaller(READ_SIZE, Len(net[e]))

\* One round of read_stream's loop.
read_from_socket(e) ==
    /\ end[e].at = "read"
    /\ end[e].buf # <<>> \/ net[e] # <<>>
    /\ LET num_bytes == IF end[e].buf = <<>> THEN Available(e) ELSE 0
           s == [end[e] EXCEPT !.buf = @ \o SubSeq(net[e], 1, num_bytes)]
           t == IF s.pending_bytes = 0 THEN attempt_to_read_length(s) ELSE s
           r == IF t.pending_bytes # 0 THEN process_incoming_msg(e, t)
                ELSE [state |-> t, received |-> <<>>]
       IN  /\ end' = [end EXCEPT ![e] = r.state]
           /\ got' = [got EXCEPT ![e] = @ \o r.received]
           /\ net' = [net EXCEPT ![e] = Drop(@, num_bytes)]
           /\ events' = IF num_bytes > 0 /\ Len(net[e]) = SOCKET_SIZE
                        THEN [events EXCEPT ![Other(e)] = @ \cup {"writable"}] ELSE events
    /\ UNCHANGED sent

\* Mutant: the loop ends with the first message.
WouldBlock_message(e) ==
    /\ end[e].at = "read"
    /\ end[e].buf = <<>>
    /\ net[e] = <<>> \/ end[e].message \o end[e].size_bytes = <<>>
    /\ end' = [end EXCEPT ![e].at = "wait"]
    /\ UNCHANGED <<net, events, sent, got>>

\* Nothing to read any more: the pass is over.
WouldBlock(e) ==
    /\ end[e].at = "read"
    /\ end[e].buf = <<>> /\ net[e] = <<>>
    /\ end' = [end EXCEPT ![e].at = "wait"]
    /\ UNCHANGED <<net, events, sent, got>>

-----------------------------------------------------------------------------
PollStep(e) ==
    /\ ~end[e].failed
    /\ \/ Poll(e) \/ SendMessage(e) \/ Squeeze(e) \/ Flush(e) \/ read_from_socket(e)
       \/ WouldBlock(e)

Next ==
    \E e \in End :
        \/ PollStep(e)
        \/ send_ping(e)
        \/ \E m \in Msg : async_send(e, m)

Spec == Init /\ [][Next]_vars

-----------------------------------------------------------------------------
\* The messages that are on their way to e.
InFlight(e) ==
    LET stream == end[e].message \o end[e].buf \o net[e] \o end[Other(e)].output_queue
        ends == SelectSeq(stream, LAMBDA u : u.kind = "chunk" /\ u.last)
    IN  [i \in DOMAIN ends |-> ends[i].msg]

\* Whatever is cut into chunks, written in parts and read in parts: the messages
\* received, then those under way, are the messages sent, each once and in order.
Conserved == \A e \in End : got[e] \o InFlight(e) = sent[Other(e)]

\* Two nodes that follow the protocol never expel each other: lengths, nonces
\* and the count of pongs agree on both ends.
NeverFails == \A e \in End : ~end[e].failed

\* No readiness is lost, although the sockets report it only once: when neither
\* poll loop has a reason to look at the connection, the handshake is done,
\* nothing is left in a queue, a buffer or a socket, and no pong is due.
NothingStuck ==
    (\A e \in End : end[e].at = "wait" /\ events[e] = {} /\ end[e].low \o end[e].high = <<>>) =>
        \A e \in End :
            /\ end[e].peer
            /\ net[e] \o end[e].output_queue \o end[e].buf \o end[e].message = <<>>
            /\ got[e] = sent[Other(e)]
            /\ end[e].pending_pongs = 0

\* "if there's any carryover bytes to be read from the socket buffer, process
\* them before reading from the socket again" (read_from_socket): what is read
\* from the socket together with an earlier message is not dropped, so that no
\* message is lost and neither end is expelled for what follows.
CarryoverProcessed == Conserved /\ NeverFails
=============================================================================
