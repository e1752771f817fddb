---------------------------- MODULE FreezeProofs ----------------------------
(***************************************************************************)
(* Theorems about FreezeProtocol for every committee, every finite set of  *)
(* blocks and every behaviour of the faulty parties: type correctness and  *)
(* agreement.                                                              *)
(***************************************************************************)
EXTENDS FreezeProtocol, CommitteeProofs, FiniteSetTheorems, WellFoundedInduction

\* A non-empty finite set of integers has a greatest element: the up-set of the
\* greatest element is minimal among the up-sets, ordered by inclusion.
LEMMA GreatestMember ==
    ASSUME NEW S \in SUBSET Int, IsFiniteSet(S), S # {}
    PROVE  Greatest(S) \in S /\ \A y \in S : y <= Greatest(S)
  <1> DEFINE up(x) == {y \in S : x <= y}
             T == {up(x) : x \in S}
  <1>1. IsWellFoundedOn(StrictSubsetOrdering(S), SUBSET S)
    BY FS_StrictSubsetOrderingWellFounded, FS_FiniteSubsetsOfFinite
  <1>2. T \subseteq SUBSET S /\ T # {}
    OBVIOUS
  <1> HIDE DEF T
  <1>3. PICK X \in T : \A Y \in T : ~(<<Y, X>> \in StrictSubsetOrdering(S))
    BY <1>1, <1>2, WFMin
  <1> USE DEF T
  <1>4. PICK x \in S : X = up(x)
    BY <1>3
  <1>5. \A y \in S : y <= x
    <2> SUFFICES ASSUME NEW y \in S, ~(y <= x)
                 PROVE  FALSE
      OBVIOUS
    <2>1. \A z \in S : y <= z => x <= z
      OBVIOUS
    <2>2. up(y) \subseteq up(x) /\ x \in up(x) /\ x \notin up(y)
      <3>1. up(y) \subseteq up(x)
        BY <2>1
      <3>2. x \in up(x)
        OBVIOUS
      <3>3. x \notin up(y)
        OBVIOUS
      <3> QED
        BY <3>1, <3>2, <3>3
    <2>3. <<up(y), up(x)>> \in StrictSubsetOrdering(S)
      BY <2>2 DEF StrictSubsetOrdering
    <2>4. up(y) \in T
      OBVIOUS
    <2> QED
      BY <1>3, <1>4, <2>3, <2>4
  <1> QED
    BY <1>5 DEF Greatest

\* The same for the least element.
LEMMA LeastMember ==
    ASSUME NEW S \in SUBSET Int, IsFiniteSet(S), S # {}
    PROVE  Least(S) \in S /\ \A y \in S : Least(S) <= y
  <1> DEFINE down(x) == {y \in S : y <= x}
             T == {down(x) : x \in S}
  <1>1. IsWellFoundedOn(StrictSubsetOrdering(S), SUBSET S)
    BY FS_StrictSubsetOrderingWellFounded, FS_FiniteSubsetsOfFinite
  <1>2. T \subseteq SUBSET S /\ T # {}
    OBVIOUS
  <1> HIDE DEF T
  <1>3. PICK X \in T : \A Y \in T : ~(<<Y, X>> \in StrictSubsetOrdering(S))
    BY <1>1, <1>2, WFMin
  <1> USE DEF T
  <1>4. PICK x \in S : X = down(x)
    BY <1>3
  <1>5. \A y \in S : x <= y
    <2> SUFFICES ASSUME NEW y \in S, ~(x <= y)
                 PROVE  FALSE
      OBVIOUS
    <2>1. \A z \in S : z <= y => z <= x
      OBVIOUS
    <2>2. down(y) \subseteq down(x) /\ x \in down(x) /\ x \notin down(y)
      <3>1. down(y) \subseteq down(x)
        BY <2>1
      <3>2. x \in down(x)
        OBVIOUS
      <3>3. x \notin down(y)
        OBVIOUS
      <3> QED
        BY <3>1, <3>2, <3>3
    <2>3. <<down(y), down(x)>> \in StrictSubsetOrdering(S)
      BY <2>2 DEF StrictSubsetOrdering
    <2>4. down(y) \in T
      OBVIOUS
    <2> QED
      BY <1>3, <1>4, <2>3, <2>4
  <1> QED
    BY <1>5 DEF Least
----------------------------------------------------------------------------
\* Maybe Val is a finite set of integers.
LEMMA MaybeValFinite ==
    /\ MaybeVal \subseteq Int
    /\ \A S \in SUBSET MaybeVal : IsFiniteSet(S)
    /\ Nothing \in MaybeVal /\ NoEvent \notin MaybeVal /\ Nothing \notin Val
  <1>1. MaybeVal \subseteq Int /\ NoEvent \notin MaybeVal /\ Nothing \notin Val
    BY ValAssumption DEF MaybeVal, Nothing, NoEvent
  <1>2. IsFiniteSet(MaybeVal)
    BY ValAssumption, FS_AddElement DEF MaybeVal
  <1> QED
    BY <1>1, <1>2, FS_Subset DEF MaybeVal

\* Every justified decision of a state has enough votes for one of its voters
\* to be honest.
DecisionsBacked(st) == \A v \in st.justifiedDecisions : HasHonest(st.votes[v].parties)

\* A handler on votes leaves the proposals, the parties that voted and the
\* vote to be emitted alone.
SameMessages(st, r) ==
    /\ r.proposals = st.proposals
    /\ \A v \in MaybeVal : r.votes[v].parties = st.votes[v].parties
    /\ r.outVote = st.outVote

\* finishIfQuorum only changes completed and the output.
LEMMA FinishLemma ==
    ASSUME NEW st \in FreezeState
    PROVE  /\ finishIfQuorum(st) \in FreezeState
           /\ finishIfQuorum(st).proposals = st.proposals
           /\ finishIfQuorum(st).votes = st.votes
           /\ finishIfQuorum(st).outVote = st.outVote
           /\ finishIfQuorum(st).justifiedDecisions = st.justifiedDecisions
  <1> DEFINE D == st.justifiedDecisions
  <1>1. D \in SUBSET MaybeVal
    BY DEF FreezeState
  <1>2. D # {} => Greatest(D) \in MaybeVal
    BY <1>1, GreatestMember, MaybeValFinite
  <1>3. CASE finishIfQuorum(st) = st
    BY <1>3
  <1>4. CASE /\ D # {}
             /\ finishIfQuorum(st) = [st EXCEPT !.completed = TRUE, !.outFrozen = Greatest(D)]
    BY <1>2, <1>4 DEF FreezeState
  <1> QED
    BY <1>3, <1>4 DEF finishIfQuorum, doFinish

\* countVotes counts voters and decides a vote that has enough of them.
LEMMA CountLemma ==
    ASSUME NEW st \in FreezeState, NEW vote \in MaybeVal, NEW voters \in SUBSET Party
    PROVE  /\ countVotes(st, vote, voters) \in FreezeState
           /\ SameMessages(st, countVotes(st, vote, voters))
           /\ DecisionsBacked(st) => DecisionsBacked(countVotes(st, vote, voters))
  <1> DEFINE s1 == [st EXCEPT !.justifiedVoters = @ \cup voters,
                              !.justifiedDecisions =
                                  IF HasHonest(st.votes[vote].parties)
                                  THEN @ \cup {vote} ELSE @]
  <1>1. s1 \in FreezeState
    BY DEF FreezeState
  <1>2. /\ s1.proposals = st.proposals /\ s1.votes = st.votes /\ s1.outVote = st.outVote
        /\ \A v \in s1.justifiedDecisions :
              v \in st.justifiedDecisions \/ (v = vote /\ HasHonest(st.votes[vote].parties))
    BY DEF FreezeState
  <1>3. countVotes(st, vote, voters) = finishIfQuorum(s1)
    BY DEF countVotes
  <1> HIDE DEF s1
  <1> QED
    BY <1>1, <1>2, <1>3, FinishLemma DEF SameMessages, DecisionsBacked

\* justifyVote changes no recorded message.
LEMMA JustifyVoteLemma ==
    ASSUME NEW st \in FreezeState, NEW vote \in MaybeVal
    PROVE  /\ justifyVote(st, vote) \in FreezeState
           /\ SameMessages(st, justifyVote(st, vote))
           /\ DecisionsBacked(st) => DecisionsBacked(justifyVote(st, vote))
  <1> DEFINE entry == st.votes[vote]
             s1 == [st EXCEPT !.votes[vote].just = TRUE]
  <1>1. entry.parties \in SUBSET Party
    BY DEF FreezeState
  <1>2. s1 \in FreezeState
    BY ZenonT(30) DEF FreezeState
  <1>3. SameMessages(st, s1) /\ s1.justifiedDecisions = st.justifiedDecisions
    BY DEF FreezeState, SameMessages
  <1>4. DecisionsBacked(st) => DecisionsBacked(s1)
    BY <1>3 DEF DecisionsBacked, SameMessages, FreezeState
  <1>5. CASE justifyVote(st, vote) = st
    BY <1>5 DEF SameMessages
  <1>6. CASE justifyVote(st, vote) = s1
    BY <1>2, <1>3, <1>4, <1>6
  <1>7. CASE justifyVote(st, vote) = countVotes(s1, vote, entry.parties)
    <2> HIDE DEF s1, entry
    <2> QED
      BY <1>1, <1>2, <1>3, <1>4, <1>7, CountLemma DEF SameMessages
  <1> QED
    BY <1>5, <1>6, <1>7 DEF justifyVote

\* addVote records the vote of one party and changes no other message.
LEMMA AddVoteLemma ==
    ASSUME NEW st \in FreezeState, NEW party \in Party, NEW vote \in MaybeVal
    PROVE  /\ addVote(st, party, vote) \in FreezeState
           /\ addVote(st, party, vote).proposals = st.proposals
           /\ addVote(st, party, vote).outVote = st.outVote
           /\ \A v \in MaybeVal : \A q \in addVote(st, party, vote).votes[v].parties :
                 q \in st.votes[v].parties \/ (q = party /\ v = vote)
           /\ DecisionsBacked(st) => DecisionsBacked(addVote(st, party, vote))
  <1> DEFINE s1 == [st EXCEPT !.votes[vote].parties = @ \cup {party}]
  <1>1. s1 \in FreezeState
    BY ZenonT(30) DEF FreezeState
  <1>2. /\ s1.proposals = st.proposals /\ s1.outVote = st.outVote
        /\ s1.justifiedDecisions = st.justifiedDecisions
        /\ \A v \in MaybeVal : \A q \in s1.votes[v].parties :
              q \in st.votes[v].parties \/ (q = party /\ v = vote)
    BY DEF FreezeState
  <1>3. \A v \in MaybeVal : /\ st.votes[v].parties \subseteq s1.votes[v].parties
                            /\ s1.votes[v].parties \in SUBSET Party
    BY <1>1 DEF FreezeState
  <1>4. \A v \in MaybeVal : HasHonest(st.votes[v].parties) => HasHonest(s1.votes[v].parties)
    <2> HIDE DEF s1
    <2> TAKE v \in MaybeVal
    <2>1. Weight[st.votes[v].parties] <= Weight[s1.votes[v].parties]
      BY <1>3, WeightMonotone
    <2>2. Weight[st.votes[v].parties] \in Nat /\ Weight[s1.votes[v].parties] \in Nat
      BY <1>3, WeightType
    <2> QED
      BY <2>1, <2>2, CorruptWeight DEF HasHonest
  <1>5. st.justifiedDecisions \subseteq MaybeVal
    BY DEF FreezeState
  <1> HIDE DEF s1
  <1>6. DecisionsBacked(st) => DecisionsBacked(s1)
    BY <1>2, <1>4, <1>5 DEF DecisionsBacked
  <1>7. CASE addVote(st, party, vote) = st
    BY <1>7
  <1>8. CASE addVote(st, party, vote) = s1
    BY <1>1, <1>2, <1>6, <1>8
  <1>9. CASE addVote(st, party, vote) = countVotes(s1, vote, {party})
    BY <1>1, <1>2, <1>6, <1>9, CountLemma DEF SameMessages
  <1> QED
    BY <1>7, <1>8, <1>9 DEF addVote, s1

\* A vote for a value is emitted only for a quorum of proposals of the value.
EmittedBacked(st) ==
    st.outVote \in Val => Quorum(st.proposals[st.outVote].parties)

\* voteIfQuorum emits Nothing or a value with a quorum of proposals.
LEMMA VoteLemma ==
    ASSUME NEW st \in FreezeState, NEW me \in Party, st.outVote = NoEvent
    PROVE  /\ voteIfQuorum(st, me) \in FreezeState
           /\ voteIfQuorum(st, me).proposals = st.proposals
           /\ voteIfQuorum(st, me).votes = st.votes
           /\ voteIfQuorum(st, me).justifiedDecisions = st.justifiedDecisions
           /\ EmittedBacked(voteIfQuorum(st, me))
  <1> DEFINE V == quorumValues(st)
             out == IF V = {} THEN Nothing ELSE Least(V)
             s1 == [st EXCEPT !.outVote = out]
  <1>1. V \in SUBSET Val /\ \A v \in V : Quorum(st.proposals[v].parties)
    BY DEF quorumValues
  <1>2. V # {} => Least(V) \in V
    BY <1>1, LeastMember, MaybeValFinite DEF MaybeVal
  <1>3. out \in MaybeVal /\ (out \in Val => Quorum(st.proposals[out].parties))
    BY <1>1, <1>2, MaybeValFinite DEF MaybeVal
  <1>4. NoEvent \notin Val
    BY MaybeValFinite DEF MaybeVal
  <1> HIDE DEF out
  <1>5. s1 \in FreezeState
    BY <1>3 DEF FreezeState
  <1>6. /\ s1.proposals = st.proposals /\ s1.votes = st.votes /\ s1.outVote = out
        /\ s1.justifiedDecisions = st.justifiedDecisions
    BY DEF FreezeState
  <1>7. voteIfQuorum(st, me) = st \/ voteIfQuorum(st, me) = s1
    BY DEF voteIfQuorum, doVote, out
  <1> HIDE DEF s1
  <1>8. CASE voteIfQuorum(st, me) = st
    BY <1>4, <1>8 DEF EmittedBacked
  <1>9. CASE voteIfQuorum(st, me) = s1
    BY <1>3, <1>5, <1>6, <1>9 DEF EmittedBacked
  <1> QED
    BY <1>7, <1>8, <1>9

\* Justifying the votes that the proposals justify changes no message.
LEMMA JustifyVotesLemma ==
    ASSUME NEW st \in FreezeState, NEW value \in Val
    PROVE  /\ justifyNothingVote(st) \in FreezeState
           /\ SameMessages(st, justifyNothingVote(st))
           /\ DecisionsBacked(st) => DecisionsBacked(justifyNothingVote(st))
           /\ justifyValueVote(st, value) \in FreezeState
           /\ SameMessages(st, justifyValueVote(st, value))
           /\ DecisionsBacked(st) => DecisionsBacked(justifyValueVote(st, value))
  <1>1. value \in MaybeVal /\ Nothing \in MaybeVal
    BY DEF MaybeVal
  <1>2. SameMessages(st, st)
    BY DEF SameMessages
  <1> QED
    BY <1>1, <1>2, JustifyVoteLemma DEF justifyNothingVote, justifyValueVote

\* What addProposal and justifyCandidate have in common once the proposal is
\* counted: votes are justified, in either order, and then one may be cast.
\* The result keeps the messages of st, and what it emits is backed.
VotingResult(st, r) ==
    /\ r \in FreezeState
    /\ r.proposals = st.proposals
    /\ \A v \in MaybeVal : r.votes[v].parties = st.votes[v].parties
    /\ DecisionsBacked(st) => DecisionsBacked(r)
    /\ EmittedBacked(r)

\* Both orders in which the code justifies votes have a voting result.
LEMMA VotingLemma ==
    ASSUME NEW st \in FreezeState, NEW me \in Party, NEW value \in Val,
           st.outVote = NoEvent
    PROVE  /\ VotingResult(st, voteIfQuorum(justifyValueVote(justifyNothingVote(st), value), me))
           /\ VotingResult(st, voteIfQuorum(justifyNothingVote(justifyValueVote(st, value)), me))
  <1> DEFINE A1 == justifyNothingVote(st)
             A2 == justifyValueVote(A1, value)
             B1 == justifyValueVote(st, value)
             B2 == justifyNothingVote(B1)
  <1>1. /\ A1 \in FreezeState /\ SameMessages(st, A1)
        /\ DecisionsBacked(st) => DecisionsBacked(A1)
        /\ B1 \in FreezeState /\ SameMessages(st, B1)
        /\ DecisionsBacked(st) => DecisionsBacked(B1)
    BY JustifyVotesLemma
  <1> HIDE DEF A1, B1
  <1>2. /\ A2 \in FreezeState /\ SameMessages(A1, A2)
        /\ DecisionsBacked(A1) => DecisionsBacked(A2)
        /\ B2 \in FreezeState /\ SameMessages(B1, B2)
        /\ DecisionsBacked(B1) => DecisionsBacked(B2)
    BY <1>1, JustifyVotesLemma
  <1> HIDE DEF A2, B2
  <1>3. A2.outVote = NoEvent /\ B2.outVote = NoEvent
    BY <1>1, <1>2 DEF SameMessages
  <1>4. VotingResult(st, voteIfQuorum(A2, me))
    BY <1>1, <1>2, <1>3, VoteLemma DEF VotingResult, SameMessages, DecisionsBacked
  <1>5. VotingResult(st, voteIfQuorum(B2, me))
    BY <1>1, <1>2, <1>3, VoteLemma DEF VotingResult, SameMessages, DecisionsBacked
  <1> QED
    BY <1>4, <1>5 DEF A1, A2, B1, B2

\* The state after recording one proposal, or one candidate.
LEMMA ProposalsUpdate ==
    ASSUME NEW st \in FreezeState, NEW party \in Party, NEW value \in Val
    PROVE  /\ [st EXCEPT !.proposals[value].parties = @ \cup {party}] \in FreezeState
           /\ [st EXCEPT !.proposals[value].cand = TRUE] \in FreezeState
  <1> DEFINE P == [st.proposals EXCEPT ![value].parties = @ \cup {party}]
             C == [st.proposals EXCEPT ![value].cand = TRUE]
             E == [Val -> [cand : BOOLEAN, parties : SUBSET Party]]
  <1>1. st.proposals \in E
    BY DEF FreezeState
  <1>2. P \in E /\ C \in E
    BY <1>1
  <1>3. /\ [st EXCEPT !.proposals[value].parties = @ \cup {party}] = [st EXCEPT !.proposals = P]
        /\ [st EXCEPT !.proposals[value].cand = TRUE] = [st EXCEPT !.proposals = C]
    OBVIOUS
  <1> HIDE DEF P, C
  <1>4. [st EXCEPT !.proposals = P] \in FreezeState /\ [st EXCEPT !.proposals = C] \in FreezeState
    BY <1>2 DEF FreezeState
  <1> QED
    BY <1>3, <1>4

\* addProposal records the proposal of one party and changes no other message.
LEMMA AddProposalLemma ==
    ASSUME NEW st \in FreezeState, NEW me \in Party, NEW party \in Party,
           NEW value \in Val, st.outVote = NoEvent, DecisionsBacked(st),
           NEW r, r = addProposal(st, me, party, value)
    PROVE  /\ r \in FreezeState /\ EmittedBacked(r) /\ DecisionsBacked(r)
           /\ \A v \in Val : \A q \in r.proposals[v].parties :
                 q \in st.proposals[v].parties \/ (q = party /\ v = value)
           /\ \A v \in MaybeVal : r.votes[v].parties = st.votes[v].parties
  <1> DEFINE entry == st.proposals[value]
             s1 == [st EXCEPT !.proposals[value].parties = @ \cup {party}]
             n == IF Weight[entry.parties] = 0 THEN s1.distinctJustifiedProposals + 1
                  ELSE s1.distinctJustifiedProposals
             s2 == [s1 EXCEPT !.justifiedProposers = @ \cup {party},
                              !.distinctJustifiedProposals = n]
  <1>1. NoEvent \notin Val
    BY MaybeValFinite DEF MaybeVal
  <1>2. s1 \in FreezeState
    BY ProposalsUpdate
  <1>3. /\ \A v \in Val : \A q \in s1.proposals[v].parties :
              q \in st.proposals[v].parties \/ (q = party /\ v = value)
        /\ s1.votes = st.votes /\ s1.outVote = st.outVote
        /\ s1.justifiedDecisions = st.justifiedDecisions
    BY DEF FreezeState
  <1> HIDE DEF s1
  <1>4. n \in Nat
    BY <1>2 DEF FreezeState
  <1> HIDE DEF n
  <1>5. s2 \in FreezeState
    BY <1>2, <1>4 DEF FreezeState
  <1>6. /\ s2.proposals = s1.proposals /\ s2.votes = s1.votes /\ s2.outVote = s1.outVote
        /\ s2.justifiedDecisions = s1.justifiedDecisions
    BY <1>2 DEF FreezeState
  <1> DEFINE s3 == voteIfQuorum(justifyValueVote(justifyNothingVote(s2), value), me)
  <1> HIDE DEF s2
  <1>7. VotingResult(s2, s3)
    BY <1>3, <1>5, <1>6, VotingLemma
  <1>8. r = st \/ r = s1 \/ r = s3
    BY DEF addProposal, s1, s2, n
  <1> HIDE DEF s3
  <1>9. CASE r = st
    BY <1>1, <1>9 DEF EmittedBacked
  <1>10. CASE r = s1
    BY <1>1, <1>2, <1>3, <1>10 DEF EmittedBacked, DecisionsBacked
  <1>11. CASE r = s3
    BY <1>3, <1>6, <1>7, <1>11 DEF VotingResult, DecisionsBacked
  <1> QED
    BY <1>8, <1>9, <1>10, <1>11

\* justifyCandidate changes no recorded message.
LEMMA JustifyCandidateLemma ==
    ASSUME NEW st \in FreezeState, NEW me \in Party, NEW value \in Val,
           st.outVote = NoEvent, DecisionsBacked(st),
           NEW r, r = justifyCandidate(st, me, value)
    PROVE  /\ r \in FreezeState /\ EmittedBacked(r) /\ DecisionsBacked(r)
           /\ \A v \in Val : r.proposals[v].parties = st.proposals[v].parties
           /\ \A v \in MaybeVal : r.votes[v].parties = st.votes[v].parties
  <1> DEFINE entry == st.proposals[value]
             s1 == [st EXCEPT !.proposals[value].cand = TRUE]
             n == s1.distinctJustifiedProposals + 1
             s2 == [s1 EXCEPT !.justifiedProposers = @ \cup entry.parties,
                              !.distinctJustifiedProposals = n]
  <1>1. NoEvent \notin Val /\ entry.parties \in SUBSET Party
    BY MaybeValFinite DEF MaybeVal, FreezeState
  <1>2. s1 \in FreezeState
    BY ProposalsUpdate
  <1>3. /\ \A v \in Val : s1.proposals[v].parties = st.proposals[v].parties
        /\ s1.votes = st.votes /\ s1.outVote = st.outVote
        /\ s1.justifiedDecisions = st.justifiedDecisions
    BY DEF FreezeState
  <1> HIDE DEF s1
  <1>4. s2 \in FreezeState
    <2>1. n \in Nat
      BY <1>2 DEF FreezeState
    <2> HIDE DEF entry, n
    <2> QED
      BY <1>1, <1>2, <2>1 DEF FreezeState
  <1>5. /\ s2.proposals = s1.proposals /\ s2.votes = s1.votes /\ s2.outVote = s1.outVote
        /\ s2.justifiedDecisions = s1.justifiedDecisions
    BY <1>2 DEF FreezeState
  <1> DEFINE s3 == voteIfQuorum(justifyNothingVote(justifyValueVote(s2, value)), me)
  <1> HIDE DEF s2
  <1>6. VotingResult(s2, s3)
    BY <1>3, <1>4, <1>5, VotingLemma
  <1>7. r = st \/ r = s1 \/ r = s3
    BY DEF justifyCandidate, s1, s2
  <1> HIDE DEF s3
  <1>8. CASE r = st
    BY <1>1, <1>8 DEF EmittedBacked
  <1>9. CASE r = s1
    BY <1>1, <1>2, <1>3, <1>9 DEF EmittedBacked, DecisionsBacked
  <1>10. CASE r = s3
    BY <1>3, <1>5, <1>6, <1>10 DEF VotingResult, DecisionsBacked
  <1> QED
    BY <1>7, <1>8, <1>9, <1>10

\* loopBack records the party's own emitted vote and changes no other message.
LEMMA LoopBackLemma ==
    ASSUME NEW st \in FreezeState, NEW me \in Party, DecisionsBacked(st)
    PROVE  /\ loopBack(st, me) \in FreezeState
           /\ DecisionsBacked(loopBack(st, me))
           /\ loopBack(st, me).outVote = NoEvent
           /\ loopBack(st, me).proposals = st.proposals
           /\ \A v \in MaybeVal : \A q \in loopBack(st, me).votes[v].parties :
                 \/ q \in st.votes[v].parties
                 \/ q = me /\ v = st.outVote /\ st.outVote # NoEvent
  <1> DEFINE s1 == [st EXCEPT !.outVote = NoEvent]
  <1>1. s1 \in FreezeState
    BY DEF FreezeState
  <1>2. /\ s1.proposals = st.proposals /\ s1.votes = st.votes /\ s1.outVote = NoEvent
        /\ s1.justifiedDecisions = st.justifiedDecisions
    BY DEF FreezeState
  <1>3. DecisionsBacked(s1)
    BY <1>2 DEF DecisionsBacked
  <1>4. CASE st.outVote = NoEvent
    BY <1>4 DEF loopBack
  <1>5. CASE st.outVote # NoEvent
    <2>1. st.outVote \in MaybeVal
      BY <1>5 DEF FreezeState
    <2>2. loopBack(st, me) = addVote(s1, me, st.outVote)
      BY <1>5 DEF loopBack
    <2> HIDE DEF s1
    <2> QED
      BY <1>1, <1>2, <1>3, <1>5, <2>1, <2>2, AddVoteLemma
  <1> QED
    BY <1>4, <1>5

----------------------------------------------------------------------------
\* Recorded proposals and votes of honest parties were sent by them.
RecordedWasSent(F, S) ==
    \A p \in Honest : \A h \in Honest :
        /\ \A v \in Val : h \in F[p].proposals[v].parties => Proposal(h, v) \in S
        /\ \A v \in MaybeVal : h \in F[p].votes[v].parties => Vote(h, v) \in S

\* A vote of an honest party for a value is backed by a quorum whose honest
\* members have proposed the value.
VotesBacked(S) ==
    \A h \in Honest : \A v \in Val :
        Vote(h, v) \in S =>
            \E Q \in SUBSET Party :
                Quorum(Q) /\ \A g \in Honest : g \in Q => Proposal(g, v) \in S

\* An honest party proposes at most one value.
ProposeOnce(S) ==
    \A h \in Honest : \A v, w \in Val :
        Proposal(h, v) \in S /\ Proposal(h, w) \in S => v = w

\* The inductive invariant of agreement.
AgreementInv ==
    /\ TypeOK
    /\ \A p \in Honest : fs[p].outVote = NoEvent /\ DecisionsBacked(fs[p])
    /\ RecordedWasSent(fs, sent)
    /\ VotesBacked(sent)
    /\ ProposeOnce(sent)

\* A handler of p that ends in st preserves the invariant, when st only has
\* recorded messages that were sent or are among msgs.
LEMMA HandleLemma ==
    ASSUME AgreementInv,
           NEW p \in Honest, NEW st \in FreezeState, NEW msgs \in SUBSET Message,
           EmittedBacked(st), DecisionsBacked(st),
           \A h \in Honest :
               /\ \A v \in Val : h \in st.proposals[v].parties => Proposal(h, v) \in sent \cup msgs
               /\ \A v \in MaybeVal : h \in st.votes[v].parties => Vote(h, v) \in sent \cup msgs
               /\ \A v \in MaybeVal : Vote(h, v) \in msgs => Vote(h, v) \in sent,
           ProposeOnce(sent \cup msgs),
           Handle(p, st, msgs)
    PROVE  AgreementInv'
  <1> DEFINE r == loopBack(st, p)
  <1> USE DEF Honest
  <1>1. /\ r \in FreezeState /\ DecisionsBacked(r) /\ r.outVote = NoEvent
        /\ r.proposals = st.proposals
        /\ \A v \in MaybeVal : \A q \in r.votes[v].parties :
              \/ q \in st.votes[v].parties
              \/ q = p /\ v = st.outVote /\ st.outVote # NoEvent
    BY LoopBackLemma
  <1>2. fs \in [Honest -> FreezeState] /\ sent \in SUBSET Message
    BY DEF AgreementInv, TypeOK
  <1>3. fs' = [fs EXCEPT ![p] = r] /\ sent' = sent \cup msgs \cup emitted(st, p)
    BY DEF Handle
  <1>4. emitted(st, p) \in SUBSET Message
    BY DEF emitted, Message, Vote, FreezeState
  <1> HIDE DEF r
  <1>5. TypeOK'
    BY <1>1, <1>2, <1>3, <1>4 DEF TypeOK
  <1>6. \A q \in Honest : fs'[q].outVote = NoEvent /\ DecisionsBacked(fs'[q])
    BY <1>1, <1>2, <1>3 DEF AgreementInv
  <1>7. RecordedWasSent(fs', sent')
    <2> SUFFICES ASSUME NEW q \in Honest, NEW h \in Honest
                 PROVE  /\ \A v \in Val : h \in fs'[q].proposals[v].parties => Proposal(h, v) \in sent'
                        /\ \A v \in MaybeVal : h \in fs'[q].votes[v].parties => Vote(h, v) \in sent'
      BY DEF RecordedWasSent
    <2>1. CASE q # p
      BY <1>2, <1>3, <2>1 DEF AgreementInv, RecordedWasSent
    <2>2. CASE q = p
      <3>1. fs'[q] = r
        BY <1>2, <1>3, <2>2
      <3>2. st.outVote # NoEvent => Vote(p, st.outVote) \in sent'
        BY <1>3 DEF emitted
      <3> QED
        BY <1>1, <1>3, <3>1, <3>2
    <2> QED
      BY <2>1, <2>2
  <1>8. \A g \in Honest : \A v \in Val : Proposal(g, v) \in sent' => Proposal(g, v) \in sent \cup msgs
    BY <1>3 DEF emitted, Proposal, Vote
  <1>9. VotesBacked(sent')
    <2> SUFFICES ASSUME NEW h \in Honest, NEW v \in Val, Vote(h, v) \in sent'
                 PROVE  \E Q \in SUBSET Party :
                            Quorum(Q) /\ \A g \in Honest : g \in Q => Proposal(g, v) \in sent'
      BY DEF VotesBacked
    <2>1. v \in MaybeVal
      BY DEF MaybeVal
    <2>2. CASE Vote(h, v) \in sent
      <3>1. PICK Q \in SUBSET Party :
                 Quorum(Q) /\ \A g \in Honest : g \in Q => Proposal(g, v) \in sent
        BY <2>2 DEF AgreementInv, VotesBacked
      <3> QED
        BY <1>3, <3>1
    <2>3. CASE Vote(h, v) \in emitted(st, p)
      <3>1. v = st.outVote
        BY <2>3 DEF emitted, Vote
      <3>2. /\ Quorum(st.proposals[v].parties)
            /\ st.proposals[v].parties \in SUBSET Party
        BY <3>1 DEF EmittedBacked, FreezeState
      <3> QED
        BY <1>3, <3>2
    <2> QED
      BY <1>3, <2>1, <2>2, <2>3
  <1>10. ProposeOnce(sent')
    BY <1>8 DEF ProposeOnce
  <1> QED
    BY <1>5, <1>6, <1>7, <1>9, <1>10 DEF AgreementInv

\* No message has been handled in the initial states.
LEMMA InitInv == Init => AgreementInv
  <1> SUFFICES ASSUME Init
               PROVE  AgreementInv
    OBVIOUS
  <1>1. initialFreezeState \in FreezeState
    BY DEF initialFreezeState, FreezeState
  <1>2. /\ initialFreezeState.outVote = NoEvent
        /\ initialFreezeState.justifiedDecisions = {}
        /\ \A v \in Val : initialFreezeState.proposals[v].parties = {}
        /\ \A v \in MaybeVal : initialFreezeState.votes[v].parties = {}
    BY DEF initialFreezeState
  <1>3. \A p \in Honest : fs[p] = initialFreezeState
    BY DEF Init
  <1>4. TypeOK
    BY <1>1 DEF Init, TypeOK
  <1>5. RecordedWasSent(fs, sent) /\ VotesBacked(sent) /\ ProposeOnce(sent)
    BY <1>2, <1>3 DEF Init, RecordedWasSent, VotesBacked, ProposeOnce
  <1>6. \A p \in Honest : fs[p].outVote = NoEvent /\ DecisionsBacked(fs[p])
    BY <1>2, <1>3 DEF DecisionsBacked
  <1> QED
    BY <1>4, <1>5, <1>6 DEF AgreementInv

\* A new candidate brings no message of another party.
LEMMA CandidateInv ==
    ASSUME AgreementInv, NEW p \in Honest, NEW v \in Val, JustifyCandidate(p, v)
    PROVE  AgreementInv'
  <1> DEFINE r == justifyCandidate(fs[p], p, v)
  <1>1. /\ fs[p] \in FreezeState /\ p \in Party
        /\ fs[p].outVote = NoEvent /\ DecisionsBacked(fs[p])
        /\ RecordedWasSent(fs, sent) /\ ProposeOnce(sent)
    BY DEF AgreementInv, TypeOK, Honest
  <1>2. /\ r \in FreezeState /\ EmittedBacked(r) /\ DecisionsBacked(r)
        /\ \A w \in Val : r.proposals[w].parties = fs[p].proposals[w].parties
        /\ \A w \in MaybeVal : r.votes[w].parties = fs[p].votes[w].parties
    BY <1>1, JustifyCandidateLemma
  <1>3. Handle(p, r, {})
    BY DEF JustifyCandidate
  <1> HIDE DEF r
  <1>4. \A h \in Honest :
           /\ \A w \in Val : h \in r.proposals[w].parties => Proposal(h, w) \in sent \cup {}
           /\ \A w \in MaybeVal : h \in r.votes[w].parties => Vote(h, w) \in sent \cup {}
    BY <1>1, <1>2 DEF RecordedWasSent
  <1>5. ProposeOnce(sent \cup {})
    BY <1>1 DEF ProposeOnce
  <1> QED
    BY <1>2, <1>3, <1>4, <1>5, HandleLemma

\* A party that nominates a block has not proposed one before.
LEMMA NominateInv ==
    ASSUME AgreementInv, NEW p \in Honest, NEW v \in Val, Nominate(p, v)
    PROVE  AgreementInv'
  <1> DEFINE r == addProposal(fs[p], p, p, v)
             msgs == {Proposal(p, v)}
  <1>1. /\ fs[p] \in FreezeState /\ p \in Party
        /\ fs[p].outVote = NoEvent /\ DecisionsBacked(fs[p])
        /\ RecordedWasSent(fs, sent) /\ ProposeOnce(sent)
    BY DEF AgreementInv, TypeOK, Honest
  <1>2. /\ r \in FreezeState /\ EmittedBacked(r) /\ DecisionsBacked(r)
        /\ \A w \in Val : \A q \in r.proposals[w].parties :
              q \in fs[p].proposals[w].parties \/ (q = p /\ w = v)
        /\ \A w \in MaybeVal : r.votes[w].parties = fs[p].votes[w].parties
    BY <1>1, AddProposalLemma
  <1>3. Handle(p, r, msgs) /\ \A w \in Val : Proposal(p, w) \notin sent
    BY DEF Nominate
  <1>4. msgs \in SUBSET Message /\ \A h \in Honest : \A w \in MaybeVal : Vote(h, w) \notin msgs
    BY <1>1 DEF Message, Proposal, Vote
  <1>5. ProposeOnce(sent \cup msgs)
    BY <1>1, <1>3 DEF ProposeOnce, Proposal
  <1>6. Proposal(p, v) \in msgs
    OBVIOUS
  <1> HIDE DEF r, msgs
  <1>7. \A h \in Honest :
           /\ \A w \in Val : h \in r.proposals[w].parties => Proposal(h, w) \in sent \cup msgs
           /\ \A w \in MaybeVal : h \in r.votes[w].parties => Vote(h, w) \in sent \cup msgs
    BY <1>1, <1>2, <1>6 DEF RecordedWasSent
  <1> QED
    BY <1>2, <1>3, <1>4, <1>5, <1>7, HandleLemma

\* A message that is received was sent, or comes from a faulty party.
LEMMA ReceiveInv ==
    ASSUME AgreementInv, NEW p \in Honest, NEW m \in Message,
           m \in sent \/ m.src \in Faulty, Receive(p, m)
    PROVE  AgreementInv'
  <1> DEFINE r == receiveFreezeMessage(fs[p], p, m)
             msgs == {m}
  <1>1. /\ fs[p] \in FreezeState /\ p \in Party
        /\ fs[p].outVote = NoEvent /\ DecisionsBacked(fs[p])
        /\ RecordedWasSent(fs, sent) /\ ProposeOnce(sent)
    BY DEF AgreementInv, TypeOK, Honest
  <1>2. Handle(p, r, msgs)
    BY DEF Receive
  <1>3. \A h \in Honest : \A w \in MaybeVal :
           /\ Vote(h, w) \in msgs => Vote(h, w) \in sent
           /\ Proposal(h, w) \in msgs => Proposal(h, w) \in sent
    BY DEF Vote, Proposal, Honest
  <1>4. ProposeOnce(sent \cup msgs)
    <2> HIDE DEF msgs
    <2> QED
      BY <1>1, <1>3 DEF ProposeOnce, MaybeVal
  <1>5. /\ r \in FreezeState /\ EmittedBacked(r) /\ DecisionsBacked(r)
        /\ \A h \in Honest :
              /\ \A w \in Val : h \in r.proposals[w].parties => Proposal(h, w) \in sent \cup msgs
              /\ \A w \in MaybeVal : h \in r.votes[w].parties => Vote(h, w) \in sent \cup msgs
    <2>1. CASE m.type = "Proposal"
      <3>1. m.src \in Party /\ m.val \in Val /\ m = Proposal(m.src, m.val)
        BY <2>1 DEF Message, Proposal
      <3>2. r = addProposal(fs[p], p, m.src, m.val)
        BY <2>1 DEF receiveFreezeMessage
      <3>3. Proposal(m.src, m.val) \in msgs
        BY <3>1
      <3> HIDE DEF r, msgs
      <3>4. /\ r \in FreezeState /\ EmittedBacked(r) /\ DecisionsBacked(r)
            /\ \A w \in Val : \A q \in r.proposals[w].parties :
                  q \in fs[p].proposals[w].parties \/ (q = m.src /\ w = m.val)
            /\ \A w \in MaybeVal : r.votes[w].parties = fs[p].votes[w].parties
        BY <1>1, <3>1, <3>2, AddProposalLemma
      <3> QED
        BY <1>1, <3>3, <3>4 DEF RecordedWasSent
    <2>2. CASE m.type # "Proposal"
      <3>1. m.src \in Party /\ m.val \in MaybeVal /\ m = Vote(m.src, m.val)
        BY <2>2 DEF Message, Vote
      <3>2. r = addVote(fs[p], m.src, m.val)
        BY <2>2 DEF receiveFreezeMessage
      <3>3. Vote(m.src, m.val) \in msgs /\ NoEvent \notin Val
        BY <3>1, MaybeValFinite DEF MaybeVal
      <3> HIDE DEF r, msgs
      <3>4. /\ r \in FreezeState /\ DecisionsBacked(r)
            /\ r.proposals = fs[p].proposals /\ r.outVote = NoEvent
            /\ \A w \in MaybeVal : \A q \in r.votes[w].parties :
                  q \in fs[p].votes[w].parties \/ (q = m.src /\ w = m.val)
        <4>1. fs[p] \in FreezeState /\ DecisionsBacked(fs[p]) /\ fs[p].outVote = NoEvent
          BY <1>1
        <4>2. /\ addVote(fs[p], m.src, m.val) \in FreezeState
              /\ addVote(fs[p], m.src, m.val).proposals = fs[p].proposals
              /\ addVote(fs[p], m.src, m.val).outVote = fs[p].outVote
              /\ \A w \in MaybeVal : \A q \in addVote(fs[p], m.src, m.val).votes[w].parties :
                    q \in fs[p].votes[w].parties \/ (q = m.src /\ w = m.val)
              /\ DecisionsBacked(addVote(fs[p], m.src, m.val))
          BY <3>1, <4>1, AddVoteLemma
        <4> QED
          BY <3>2, <4>1, <4>2
      <3> QED
        BY <1>1, <3>3, <3>4 DEF RecordedWasSent, EmittedBacked
    <2> QED
      BY <2>1, <2>2
  <1>6. msgs \in SUBSET Message
    OBVIOUS
  <1> HIDE DEF r, msgs
  <1> QED
    BY <1>2, <1>3, <1>4, <1>5, <1>6, HandleLemma

\* Every step of the protocol preserves the invariant.
LEMMA NextInv == AgreementInv /\ [Next]_vars => AgreementInv'
  <1> SUFFICES ASSUME AgreementInv, [Next]_vars
               PROVE  AgreementInv'
    OBVIOUS
  <1>1. ASSUME NEW p \in Honest, NEW v \in Val, JustifyCandidate(p, v)
        PROVE  AgreementInv'
    BY <1>1, CandidateInv
  <1>2. ASSUME NEW p \in Honest, NEW v \in Val, Nominate(p, v)
        PROVE  AgreementInv'
    BY <1>2, NominateInv
  <1>3. ASSUME NEW p \in Honest, NEW m \in sent \cup FaultyMsgs, Receive(p, m)
        PROVE  AgreementInv'
    <2>1. m \in Message /\ (m \in sent \/ m.src \in Faulty)
      BY FaultyMsgsAssumption DEF AgreementInv, TypeOK
    <2> QED
      BY <1>3, <2>1, ReceiveInv
  <1>4. CASE UNCHANGED vars
    BY <1>4 DEF vars, AgreementInv, TypeOK, RecordedWasSent, VotesBacked, ProposeOnce
  <1> QED
    BY <1>1, <1>2, <1>3, <1>4 DEF Next, Step

\* AgreementInv holds in every reachable state.
THEOREM Invariance == Spec => []AgreementInv
  BY InitInv, NextInv, PTL DEF Spec

\* Every handler of Freeze.hs keeps the FreezeState well formed: votes and
\* outputs are values of the round, and only committee members are recorded.
THEOREM TypeCorrect == Spec => []TypeOK
  <1>1. AgreementInv => TypeOK
    BY DEF AgreementInv
  <1> QED
    BY <1>1, Invariance, PTL

\* Two justified decisions are both backed by an honest vote, hence by quorums
\* of proposals; an honest party in both quorums has proposed both values.
LEMMA InvAgreement == AgreementInv => Agreement
  <1> SUFFICES ASSUME AgreementInv, NEW p \in Honest, NEW q \in Honest,
                      NEW v \in fs[p].justifiedDecisions \cap Val,
                      NEW w \in fs[q].justifiedDecisions \cap Val
               PROVE  v = w
    BY DEF Agreement
  <1>1. /\ HasHonest(fs[p].votes[v].parties) /\ fs[p].votes[v].parties \in SUBSET Party
        /\ HasHonest(fs[q].votes[w].parties) /\ fs[q].votes[w].parties \in SUBSET Party
        /\ v \in MaybeVal /\ w \in MaybeVal
    BY DEF AgreementInv, TypeOK, DecisionsBacked, FreezeState, MaybeVal
  <1>2. PICK g \in Honest : g \in fs[p].votes[v].parties
    BY <1>1, HonestMember
  <1>3. PICK h \in Honest : h \in fs[q].votes[w].parties
    BY <1>1, HonestMember
  <1>4. Vote(g, v) \in sent /\ Vote(h, w) \in sent
    BY <1>1, <1>2, <1>3 DEF AgreementInv, RecordedWasSent
  <1>5. PICK Q \in SUBSET Party :
             Quorum(Q) /\ \A k \in Honest : k \in Q => Proposal(k, v) \in sent
    BY <1>4 DEF AgreementInv, VotesBacked
  <1>6. PICK R \in SUBSET Party :
             Quorum(R) /\ \A k \in Honest : k \in R => Proposal(k, w) \in sent
    BY <1>4 DEF AgreementInv, VotesBacked
  <1>7. PICK k \in Honest : k \in Q /\ k \in R
    BY <1>5, <1>6, QuorumIntersection
  <1> QED
    BY <1>5, <1>6, <1>7 DEF AgreementInv, ProposeOnce

\* Freeze's agreement for every committee, whatever at most corruptWeight of
\* faulty voting power does: no two honest parties regard different blocks as
\* justified decisions.
THEOREM FreezeAgreement == Spec => []Agreement
  BY Invariance, InvAgreement, PTL
============================================================================
