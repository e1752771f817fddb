------------------------------- MODULE Freeze -------------------------------
(***************************************************************************)
(* The handlers of the Freeze protocol (Afgjort/Freeze.hs) as functions    *)
(* from one party's FreezeState to its next FreezeState.                   *)
(*                                                                         *)
(* A map entry that is absent in the code is (FALSE, {}) here: no handler  *)
(* stores an entry that is not justified and has no party.  Signatures are *)
(* left out.  The two events a handler can emit are fields of the state:   *)
(* outVote is the vote message emitted by the current handler, and         *)
(* outFrozen the output of the protocol.                                   *)
(***************************************************************************)
EXTENDS Committee

CONSTANT Val    \* block hashes, which the code orders

ASSUME ValAssumption == Val \subseteq Nat /\ IsFiniteSet(Val)

\* Maybe Val: Nothing is below every Just, as in the Ord instance of Maybe.
Nothing == -1
MaybeVal == Val \cup {Nothing}

NoEvent == -2

FreezeState ==
    [proposals : [Val -> [cand : BOOLEAN, parties : SUBSET Party]],
     justifiedProposers : SUBSET Party,
     distinctJustifiedProposals : Nat,
     votes : [MaybeVal -> [just : BOOLEAN, parties : SUBSET Party]],
     justifiedVoters : SUBSET Party,
     justifiedDecisions : SUBSET MaybeVal,
     completed : BOOLEAN,
     outVote : MaybeVal \cup {NoEvent},
     outFrozen : MaybeVal \cup {NoEvent}]

initialFreezeState ==
    [proposals |-> [v \in Val |-> [cand |-> FALSE, parties |-> {}]],
     justifiedProposers |-> {},
     distinctJustifiedProposals |-> 0,
     votes |-> [v \in MaybeVal |-> [just |-> FALSE, parties |-> {}]],
     justifiedVoters |-> {},
     justifiedDecisions |-> {},
     completed |-> FALSE,
     outVote |-> NoEvent,
     outFrozen |-> NoEvent]

Greatest(S) == CHOOSE x \in S : \A y \in S : y <= x
Least(S) == CHOOSE x \in S : \A y \in S : x <= y

\* Without a justified decision, completed is set and reset again.
doFinish(st) ==
    IF st.completed \/ st.justifiedDecisions = {} THEN st
    ELSE [st EXCEPT !.completed = TRUE,
                    !.outFrozen = Greatest(st.justifiedDecisions)]

\* Mutant: strictly more than the quorum.
finishIfQuorum_strict(st) ==
    IF Weight[st.justifiedVoters] > totalWeight - corruptWeight THEN doFinish(st) ELSE st

finishIfQuorum(st) == IF Quorum(st.justifiedVoters) THEN doFinish(st) ELSE st

\* The voters of a justified vote become justified voters, and the vote a
\* justified decision if one of its voters must be honest.
countVotes(st, vote, voters) ==
    finishIfQuorum(
        [st EXCEPT !.justifiedVoters = @ \cup voters,
                   !.justifiedDecisions =
                       IF HasHonest(st.votes[vote].parties)
                       THEN @ \cup {vote} ELSE @])

\* Mutant: the votes received before the vote is justified are not counted.
justifyVote_norecount(st, vote) == [st EXCEPT !.votes[vote].just = TRUE]

justifyVote(st, vote) ==
    LET entry == st.votes[vote]
        justified == [st EXCEPT !.votes[vote].just = TRUE]
    IN IF entry.just THEN st
       ELSE IF entry.parties = {} THEN justified
       ELSE countVotes(justified, vote, entry.parties)

addVote(st, party, vote) ==
    LET recorded == [st EXCEPT !.votes[vote].parties = @ \cup {party}]
    IN IF partyWeight(party) = 0 THEN st
       ELSE IF st.votes[vote].just THEN countVotes(recorded, vote, {party})
       ELSE recorded

\* Mutant: n-2t proposals are enough for a vote.
quorumValues_supported(st) ==
    {v \in Val : st.proposals[v].cand /\ Supported(st.proposals[v].parties)}

\* The values a party may vote for.
quorumValues(st) ==
    {v \in Val : st.proposals[v].cand /\ Quorum(st.proposals[v].parties)}

doVote(st, me) ==
    IF me \in st.justifiedVoters THEN st
    ELSE [st EXCEPT !.outVote = IF quorumValues(st) = {} THEN Nothing
                                ELSE Least(quorumValues(st))]

\* Mutant: two proposals of one party are enough.
justifyNothingVote_oneparty(st) ==
    IF st.distinctJustifiedProposals >= 2 THEN justifyVote(st, Nothing) ELSE st

justifyNothingVote(st) ==
    IF st.distinctJustifiedProposals >= 2 /\ Cardinality(st.justifiedProposers) >= 2
    THEN justifyVote(st, Nothing) ELSE st

justifyValueVote(st, value) ==
    IF Supported(st.proposals[value].parties) THEN justifyVote(st, value) ELSE st

\* Mutant: strictly more than the quorum.
voteIfQuorum_strict(st, me) ==
    IF Weight[st.justifiedProposers] > totalWeight - corruptWeight THEN doVote(st, me) ELSE st

voteIfQuorum(st, me) ==
    IF Quorum(st.justifiedProposers) THEN doVote(st, me) ELSE st

addProposal(st, me, party, value) ==
    LET entry == st.proposals[value]
        recorded == [st EXCEPT !.proposals[value].parties = @ \cup {party}]
        counted == [recorded EXCEPT
                       !.justifiedProposers = @ \cup {party},
                       !.distinctJustifiedProposals =
                           IF Weight[entry.parties] = 0 THEN @ + 1 ELSE @]
    IN IF partyWeight(party) = 0 \/ party \in entry.parties THEN st
       ELSE IF ~entry.cand THEN recorded
       ELSE voteIfQuorum(justifyValueVote(justifyNothingVote(counted), value), me)

justifyCandidate(st, me, value) ==
    LET entry == st.proposals[value]
        justified == [st EXCEPT !.proposals[value].cand = TRUE]
        counted == [justified EXCEPT
                       !.justifiedProposers = @ \cup entry.parties,
                       !.distinctJustifiedProposals = @ + 1]
    IN IF entry.cand THEN st
       ELSE IF Weight[entry.parties] = 0 THEN justified
       ELSE voteIfQuorum(justifyNothingVote(justifyValueVote(counted, value)), me)
============================================================================
