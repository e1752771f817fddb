------------------------------ MODULE Finalize ------------------------------
(***************************************************************************)
(* The rounds of finalization (Afgjort/Finalize.hs): how a node moves from *)
(* round to round and from finalization index to index, while messages of  *)
(* other rounds are stored and replayed, and records, blocks and catch-up  *)
(* messages arrive.  The handlers are operators on a node's state; they    *)
(* call each other recursively, as in the code.                            *)
(*                                                                         *)
(* A round is abstracted to what module WMVBA shows: its messages are      *)
(* WeAreDone and witness messages only; honest parties send WeAreDone for  *)
(* the same bit, and witnesses for the block that Freeze has decided on.   *)
(* A witness signature is valid for one round only, and so is the          *)
(* signature of a message in a catch-up message.                           *)
(***************************************************************************)
EXTENDS Committee, Sequences, SequencesExt

CONSTANTS
    MaxIndex,       \* the last finalization index
    MaxDelta,       \* the last round of every index has this delta
    GrowFactor,     \* finalizationDelayGrowFactor
    ShrinkDivisor,  \* 1 / finalizationDelayShrinkFactor
    Frozen,         \* the block that Freeze decides on, by index and delta
    Late,           \* the blocks that arrive late
    FaultyMsgs      \* the messages the faulty parties may send

Index == 1 .. MaxIndex
Delta == 1 .. MaxDelta

\* A block is identified by the index it may be finalized at and a name.
Block == UNION {{Frozen[i][d] : d \in Delta} : i \in Index}

Message ==
    [type : {"WeAreDone"}, index : Index, delta : Delta, src : Party, val : BOOLEAN]
        \cup [type : {"Witness"}, index : Index, delta : Delta, src : Party, val : Block]

ASSUME PartyOrderAssumption == Party \subseteq Nat
ASSUME FrozenAssumption ==
    \A i \in Index, d \in Delta : Frozen[i][d] \in {i} \X STRING
ASSUME LateAssumption == Late \subseteq Block
ASSUME FaultyMsgsAssumption == FaultyMsgs \subseteq {m \in Message : m.src \in Faulty}

VARIABLES
    fin,    \* the FinalizationState of every honest node
    sent,   \* the messages the honest parties have broadcast
    bit     \* ABBA's bit of every index and delta

vars == <<fin, sent, bit>>

nextDelta(d) == IF 1 + d > GrowFactor * d THEN 1 + d ELSE GrowFactor * d

nextFinalizationDelay(d) == IF d \div ShrinkDivisor > 1 THEN d \div ShrinkDivisor ELSE 1

initialFinalizationState(p) ==
    [me |-> p,
     index |-> 1,
     initialDelta |-> 1,
     delta |-> 1,
     pending |-> {},        \* _finsPendingMessages
     failedRounds |-> <<>>, \* the WeAreDone False messages of every failed round
     handled |-> {},        \* the messages the current round has handled
     done |-> {},           \* the WeAreDone messages of its ABBA instance
     outcome |-> {},        \* the outcome of that
     known |-> Block \ Late,
     queued |-> {},         \* the proof for a block that is not known
     records |-> <<>>,      \* the finalization records
     out |-> {},            \* the messages broadcast by the handler
     error |-> FALSE]       \* the error of notifyBlockFinalized
----------------------------------------------------------------------------
\* PendingMessage is ordered by party, then by kind of message.
before(m, n) ==
    \/ m.src < n.src
    \/ m.src = n.src /\ m.type = "WeAreDone" /\ n.type = "Witness"
    \/ m.src = n.src /\ m.type = "WeAreDone" /\ n.type = "WeAreDone" /\ ~m.val /\ n.val

doneBy(st, b) == {m.src : m \in {x \in st.done : x.val = b}}

\* The parties with a valid witness signature for v.
signersOf(st, v) ==
    {m.src : m \in {x \in st.handled : /\ x.type = "Witness" /\ x.val = v
                                       /\ x.index = st.index /\ x.delta = st.delta}}

RECURSIVE receiveFinalizationMessage(_, _), receiveWMVBAMessage(_, _), newRound(_, _)

\* trustedFinalize succeeds for a block that is alive: known and not finalized
\* or dead, which a block of an earlier index is.
trustedFinalize(st, v) == v \in st.known /\ v[1] >= st.index

\* The rounds after MaxIndex are not looked at.
notifyBlockFinalized(st, i, d, v) ==
    IF i # st.index THEN [st EXCEPT !.error = TRUE]
    ELSE newRound([st EXCEPT !.index = i + 1,
                             !.pending = {m \in @ : m.index # i},
                             !.initialDelta = nextFinalizationDelay(d),
                             !.failedRounds = <<>>,
                             !.queued = {},
                             !.records = Append(@, [val |-> v, delta |-> d])],
                  nextFinalizationDelay(d))

handleFinalizationProof(st, i, d, v) ==
    IF trustedFinalize(st, v) THEN notifyBlockFinalized(st, i, d, v)
    ELSE IF i = st.index THEN [st EXCEPT !.queued = {[index |-> i, delta |-> d, val |-> v]}]
    ELSE st

\* The failed round (i, d) is left, if it is still the current one.
nextRound(st, i, d) ==
    IF st.index # i \/ st.delta # d THEN st
    ELSE newRound([st EXCEPT !.failedRounds = Append(@, {m \in st.done : ~m.val})],
                  nextDelta(d))

\* p broadcasts its witness; it is looped back to it.
sendWitness(st) ==
    LET m == [type |-> "Witness", index |-> st.index, delta |-> st.delta,
              src |-> st.me, val |-> Frozen[st.index][st.delta]]
    IN IF st.index \notin Index \/ st.delta \notin Delta THEN st
       ELSE receiveFinalizationMessage([st EXCEPT !.out = @ \cup {m}], m)

\* ABBA handles the WeAreDone messages ms, unless it has completed.
receiveDone(st, ms) ==
    LET st1 == [st EXCEPT !.done = @ \cup ms]
    IN IF st.outcome # {} THEN st
       ELSE [st1 EXCEPT !.outcome = {b \in BOOLEAN : Quorum(doneBy(st1, b))}]

\* The events of a run of WMVBA that began in state st and ended in st1, in
\* which witnesses for v have been handled if v is in vs: ABBA's outcome comes
\* first.  Only the first completion of the round counts.
handleWMVBAOutputEvents(st, st1, vs) ==
    LET new == st1.outcome \ st.outcome
        proven == {v \in vs : HasHonest(signersOf(st1, v))}
        st2 == IF TRUE \in new THEN sendWitness(st1) ELSE st1
    IN IF FALSE \in new THEN nextRound(st1, st.index, st.delta)
       ELSE IF proven = {} THEN st2
       ELSE handleFinalizationProof(st2, st.index, st.delta, CHOOSE v \in proven : TRUE)

receiveWMVBAMessage(st, m) ==
    LET st1 == [st EXCEPT !.handled = @ \cup {m}]
    IN IF m.type = "WeAreDone"
       THEN handleWMVBAOutputEvents(st, receiveDone(st1, {m}), {})
       ELSE handleWMVBAOutputEvents(st, st1, {m.val})

\* Mutant: the messages that are waiting for the round are not replayed.
newRound_forgets(st, d) ==
    [st EXCEPT !.delta = d, !.handled = {}, !.done = {}, !.outcome = {}]

\* The messages waiting for the round are handled one after the other, in the
\* round that is current when their turn comes.
newRound(st, d) ==
    LET st1 == [st EXCEPT !.delta = d, !.handled = {}, !.done = {}, !.outcome = {}]
        pmsgs == {m \in st.pending : m.index = st.index /\ m.delta = d}
    IN FoldLeft(LAMBDA s, m : receiveWMVBAMessage(s, m), st1, SetToSortSeq(pmsgs, before))

\* Mutant: a message for another round of the index is handled in this one.
receiveFinalizationMessage_anyRound(st, m) ==
    LET st1 == [st EXCEPT !.pending = @ \cup {m}]
    IN IF m.index \notin {st.index, st.index + 1} \/ m \in st.pending THEN st
       ELSE IF m.index = st.index THEN receiveWMVBAMessage(st1, m)
       ELSE st1

\* An old message is for tryAddQueuedWitness, one of the next index is saved,
\* and one that is further ahead is dropped.
receiveFinalizationMessage(st, m) ==
    LET st1 == [st EXCEPT !.pending = @ \cup {m}]
    IN IF m.index \notin {st.index, st.index + 1} \/ m \in st.pending THEN st
       ELSE IF m.index = st.index /\ m.delta = st.delta THEN receiveWMVBAMessage(st1, m)
       ELSE st1

\* The messages dones and wits of a summary are handled in one run of WMVBA.
processWMVBASummary(st, dones, wits) ==
    LET st1 == [receiveDone(st, dones) EXCEPT !.handled = @ \cup dones \cup wits]
    IN handleWMVBAOutputEvents(st, st1, {m.val : m \in wits \ st.handled})

\* Mutant: the failed rounds of a summary are skipped.
processFinalizationSummary_current(st, cu) ==
    LET delta == st.initialDelta * 2^Len(cu.failedRounds)
        signed(ms) == {m \in ms : m.index = st.index /\ m.delta = delta}
    IN IF delta = st.delta
       THEN processWMVBASummary(st, signed(cu.done),
                                signed({m \in cu.handled : m.type = "Witness"}))
       ELSE st

\* The summary of a node in state cu: its failed rounds, and then the current
\* one.  The delta of a round is computed from the initial delta, whatever
\* nextRound does; signatures are checked for that round of the index at which
\* the handler began.
processFinalizationSummary(st, cu) ==
    LET deltaOf(k) == st.initialDelta * 2^(k - 1)
        signedFor(k, ms) == {m \in ms : m.index = st.index /\ m.delta = deltaOf(k)}
        failed(s, k) ==
            IF deltaOf(k) = s.delta
            THEN processWMVBASummary(s, signedFor(k, cu.failedRounds[k]), {}) ELSE s
        current == Len(cu.failedRounds) + 1
        wits == {m \in cu.handled : m.type = "Witness" /\ m.val = Frozen[cu.index][cu.delta]}
        st1 == FoldLeft(failed, st, [k \in DOMAIN cu.failedRounds |-> k])
    IN IF deltaOf(current) = st1.delta
       THEN processWMVBASummary(st1, signedFor(current, cu.done), signedFor(current, wits))
       ELSE st1
----------------------------------------------------------------------------
Init ==
    /\ fin = [p \in Honest |-> initialFinalizationState(p)]
    /\ sent = {}
    /\ bit \in {f \in [Index -> [Delta -> BOOLEAN]] : \A i \in Index : f[i][MaxDelta]}

\* p's handler ends in state st.
Handle(p, st) ==
    /\ fin' = [fin EXCEPT ![p] = [st EXCEPT !.out = {}]]
    /\ sent' = sent \cup st.out
    /\ UNCHANGED bit

\* ABBA closes down: CompletePhase sends WeAreDone.
SendWeAreDone(p) ==
    LET st == fin[p]
        m == [type |-> "WeAreDone", index |-> st.index, delta |-> st.delta,
              src |-> p, val |-> bit[st.index][st.delta]]
    IN /\ st.index \in Index /\ st.delta \in Delta
       /\ m \notin sent
       /\ Handle(p, receiveFinalizationMessage([st EXCEPT !.out = {m}], m))

Receive(p, m) == Handle(p, receiveFinalizationMessage(fin[p], m))

\* A finalization record that node q has is received, for the next index.
ReceiveFinalizationRecord(p, q) ==
    LET st == fin[p]
        r == fin[q].records[st.index]
    IN /\ st.index \in DOMAIN fin[q].records
       /\ trustedFinalize(st, r.val)
       /\ Handle(p, notifyBlockFinalized(st, st.index, r.delta, r.val))

\* A block arrives; a proof may have been waiting for it.
NotifyBlockArrival(p, b) ==
    LET st == [fin[p] EXCEPT !.known = @ \cup {b}]
        waiting == {r \in st.queued : r.val = b}
        r == CHOOSE r \in waiting : TRUE
    IN /\ b \notin fin[p].known
       /\ Handle(p, IF waiting # {} /\ trustedFinalize(st, b)
                    THEN notifyBlockFinalized(st, r.index, r.delta, b) ELSE st)

\* A catch-up message of q is received; old and future ones are dropped.
ReceiveCatchUp(p, q) ==
    /\ fin[p].index = fin[q].index /\ fin[p].index \in Index
    /\ Handle(p, processFinalizationSummary(fin[p], fin[q]))

Next ==
    \E p \in Honest :
        \/ SendWeAreDone(p)
        \/ \E m \in sent \cup FaultyMsgs : Receive(p, m)
        \/ \E q \in Honest \ {p} : ReceiveFinalizationRecord(p, q) \/ ReceiveCatchUp(p, q)
        \/ \E b \in Late : NotifyBlockArrival(p, b)

Spec == Init /\ [][Next]_vars
----------------------------------------------------------------------------
TypeOK ==
    /\ \A p \in Honest :
          LET st == fin[p]
          IN /\ st.index \in 1 .. MaxIndex + 1 /\ st.delta \in Delta
             /\ st.pending \in SUBSET Message
             /\ st.done \in SUBSET Message /\ st.handled \in SUBSET Message
             /\ st.outcome \in {{}, {TRUE}, {FALSE}}
             /\ st.out = {}
    /\ sent \in SUBSET Message
    /\ bit \in [Index -> [Delta -> BOOLEAN]]

\* All honest nodes finalize the same blocks in the same order, whichever of
\* their own proofs, received records and late blocks they are finalized by, and
\* index by index: a handler may still hold a proof for an index that has passed,
\* but the error "Non-sequential finalization" of notifyBlockFinalized is not raised.
FinalAgreement ==
    /\ \A p, q \in Honest :
          LET r == fin[p].records
              s == fin[q].records
          IN Len(r) <= Len(s) => \A i \in DOMAIN r : r[i].val = s[i].val
    /\ \A p \in Honest : ~fin[p].error /\ Len(fin[p].records) = fin[p].index - 1

\* Every saved message for the current round has been handled by it, whether
\* it came before the round began or after.
PendingHandled ==
    \A p \in Honest :
        LET st == fin[p]
        IN {m \in st.pending : m.index = st.index /\ m.delta = st.delta} \subseteq st.handled

\* No message, block, record or catch-up message of an honest node that p can
\* still send or receive changes its state.
Quiet(p) ==
    /\ fin[p].index \in Index =>
          \E m \in sent : /\ m.type = "WeAreDone" /\ m.src = p
                         /\ m.index = fin[p].index /\ m.delta = fin[p].delta
    /\ \A m \in sent : receiveFinalizationMessage(fin[p], m) = fin[p]
    /\ Late \subseteq fin[p].known
    /\ \A q \in Honest \ {p} :
          /\ fin[q].index <= fin[p].index
          /\ fin[q].index = fin[p].index /\ fin[p].index \in Index =>
                processFinalizationSummary(fin[p], fin[q]) = fin[p]

\* No order of deliveries gets finalization stuck: once the honest nodes have
\* had all messages, blocks and catch-up messages of each other, they have
\* finalized a block at every index.  A round that one node has left with the
\* help of a party that the others do not hear from is left by the others by
\* the failed rounds of its catch-up message.
NeverStuck ==
    (\A p \in Honest : Quiet(p)) => \A p \in Honest : Len(fin[p].records) = MaxIndex
============================================================================
