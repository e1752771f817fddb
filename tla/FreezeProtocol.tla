--------------------------- MODULE FreezeProtocol ---------------------------
(***************************************************************************)
(* One instance of Freeze, run by all parties of a committee over a        *)
(* network that delays, reorders and duplicates messages.                  *)
(*                                                                         *)
(* Honest parties run the handlers of module Freeze.  A handler that emits *)
(* a vote has it looped back before anything else happens:                 *)
(* handleWMVBAOutputEvents hands every message it broadcasts to            *)
(* receiveFinalizationMessage at once.  A faulty party may send any of     *)
(* FaultyMsgs at any time, to some parties and not to others; what one     *)
(* honest party has received is relayed to all of them.                    *)
(***************************************************************************)
EXTENDS Freeze

Message ==
    [type : {"Proposal"}, src : Party, val : Val]
        \cup [type : {"Vote"}, src : Party, val : MaybeVal]

CONSTANT FaultyMsgs     \* the messages the faulty parties may send

ASSUME FaultyMsgsAssumption ==
    FaultyMsgs \subseteq {m \in Message : m.src \in Faulty}

VARIABLES
    fs,     \* the FreezeState of every honest party
    sent    \* the messages broadcast, or relayed, so far

vars == <<fs, sent>>

Proposal(p, v) == [type |-> "Proposal", src |-> p, val |-> v]
Vote(p, v) == [type |-> "Vote", src |-> p, val |-> v]

Init ==
    /\ fs = [p \in Honest |-> initialFreezeState]
    /\ sent = {}

receiveFreezeMessage(st, me, m) ==
    IF m.type = "Proposal" THEN addProposal(st, me, m.src, m.val)
    ELSE addVote(st, m.src, m.val)

\* The party's own vote, if the handler emitted one, is received by it.
loopBack(st, me) ==
    IF st.outVote = NoEvent THEN st
    ELSE addVote([st EXCEPT !.outVote = NoEvent], me, st.outVote)

emitted(st, me) == IF st.outVote = NoEvent THEN {} ELSE {Vote(me, st.outVote)}

\* p's handler ends in state st; msgs is what was sent besides its vote.
Handle(p, st, msgs) ==
    /\ fs' = [fs EXCEPT ![p] = loopBack(st, p)]
    /\ sent' = sent \cup msgs \cup emitted(st, p)

\* Skov reports that a block is a possible input of the round.
JustifyCandidate(p, v) == Handle(p, justifyCandidate(fs[p], p, v), {})

\* tryNominateBlock: the round has no input yet, and the nominated block has
\* been justified, since it is an ancestor of a block at height + roundDelta.
Nominate(p, v) ==
    /\ \A w \in Val : Proposal(p, w) \notin sent
    /\ fs[p].proposals[v].cand
    /\ Handle(p, addProposal(fs[p], p, p, v), {Proposal(p, v)})

\* savePendingMessage: a message is handled once.  The messages that were are
\* the ones the FreezeState has recorded.
isDuplicate(st, m) ==
    IF m.type = "Proposal" THEN m.src \in st.proposals[m.val].parties
    ELSE m.src \in st.votes[m.val].parties

Receive(p, m) ==
    /\ ~isDuplicate(fs[p], m)
    /\ Handle(p, receiveFreezeMessage(fs[p], p, m), {m})

\* What an honest party does with the blocks and messages that are there.
Step(p) ==
    \/ \E v \in Val : JustifyCandidate(p, v)
    \/ \E v \in Val : Nominate(p, v)
    \/ \E m \in sent : Receive(p, m)

Next ==
    \E p \in Honest :
        \/ Step(p)
        \/ \E m \in FaultyMsgs : Receive(p, m)

Spec == Init /\ [][Next]_vars

\* A block or a message has not reached p, or p has not nominated a block:
\* this is when Step(p) can change something.
Pending(p) ==
    \/ \E v \in Val : ~fs[p].proposals[v].cand
    \/ \A v \in Val : Proposal(p, v) \notin sent
    \/ \E m \in sent : ~isDuplicate(fs[p], m)

\* Weak fairness of Step(p), with its enabling condition written out.  Blocks
\* and messages are relayed, and replayed by the catch-up of blocks and of
\* finalization messages, so they reach every honest party in the end; a party
\* nominates a block once the tree has grown enough.
Fairness ==
    \A p \in Honest : ([]<>~Pending(p)) \/ []<><<Step(p)>>_vars

FairSpec == Spec /\ Fairness
----------------------------------------------------------------------------
TypeOK ==
    /\ fs \in [Honest -> FreezeState]
    /\ sent \in SUBSET Message

\* Freeze's agreement: no two honest parties regard different blocks as
\* justified decisions (justifyDecision), however faulty parties propose and
\* vote, so that at most one block can be the output of the whole round.
Agreement ==
    \A p, q \in Honest :
        \A v \in fs[p].justifiedDecisions \cap Val,
           w \in fs[q].justifiedDecisions \cap Val : v = w

\* The sets cached by the handlers agree with the messages they summarise,
\* whatever the order of proposals, votes and candidates was: the justified
\* proposers and their count, the justified voters, and the decisions.
CachesExact ==
    \A p \in Honest :
        LET st == fs[p]
            live == {v \in Val : st.proposals[v].cand /\ st.proposals[v].parties # {}}
            just == {v \in MaybeVal : st.votes[v].just}
        IN /\ st.justifiedProposers = UNION {st.proposals[v].parties : v \in live}
           /\ st.distinctJustifiedProposals = Cardinality(live)
           /\ st.justifiedVoters = UNION {st.votes[v].parties : v \in just}
           /\ st.justifiedDecisions = {v \in just : HasHonest(st.votes[v].parties)}

\* A vote is justified as soon as the proposals justify it, and no earlier:
\* a vote for v by n-2t proposals of v, a vote for Nothing by two different
\* justified proposals of two parties (addProposal and justifyCandidate test
\* this in different orders).
VoteJustification ==
    \A p \in Honest :
        LET st == fs[p]
        IN /\ \A v \in Val :
                 st.votes[v].just <=>
                     /\ st.proposals[v].cand
                     /\ st.proposals[v].parties # {}
                     /\ Supported(st.proposals[v].parties)
           /\ st.votes[Nothing].just <=>
                 /\ st.distinctJustifiedProposals >= 2
                 /\ Cardinality(st.justifiedProposers) >= 2

\* A party finishes in the very handler in which a quorum of justified voters
\* and a justified decision are first both there: doFinish is never missed,
\* although it gives up when it is called before a decision is justified.
FinishNotMissed ==
    \A p \in Honest :
        fs[p].completed <=>
            /\ Quorum(fs[p].justifiedVoters)
            /\ fs[p].justifiedDecisions # {}

\* Every honest party's Freeze terminates with an output.
Termination == <>(\A p \in Honest : fs[p].outFrozen # NoEvent)
============================================================================
