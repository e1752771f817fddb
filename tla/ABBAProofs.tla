----------------------------- MODULE ABBAProofs -----------------------------
(***************************************************************************)
(* ABBA's agreement and validity, in every committee whose corrupt weight  *)
(* is bounded and for any number of phases.                                *)
(*                                                                         *)
(* The argument: a party attains grade 2 for a bit only if the common core *)
(* of the phase is unanimous about it (NextOK), and then every other       *)
(* party's core set makes it enter the next phase with that bit.  A bit    *)
(* that an honest party takes along to the next phase was the input of an  *)
(* honest party, so later phases keep it (Locked).  Two unanimous common   *)
(* cores, of whatever phases, therefore agree, and so do the WeAreDone     *)
(* messages.                                                               *)
(***************************************************************************)
EXTENDS ABBA, CommitteeProofs

\* An honest party enters a phase with one bit.
SentOnce ==
    \A k \in Phase, q \in Honest : \A c, d \in Choice :
        <<k, q, c>> \in sent /\ <<k, q, d>> \in sent => c = d

\* It has sent its input of the next phase iff CompletePhase is pending.
SentPhase ==
    \A k \in Phase, q \in Honest, c \in Choice :
        <<k, q, c>> \in sent =>
            k <= currentPhase[q] \/ (k = currentPhase[q] + 1 /\ next[q] # {})

ReceivedSent ==
    \A p, q \in Honest : \A k \in Phase, c \in Choice :
        <<k, q, c>> \in received[p] => <<k, q, c>> \in sent

CommonOK ==
    \A k \in Phase : common[k] # {} =>
        /\ Quorum(nominators(common[k]))
        /\ \A q \in Honest, c \in Choice : <<q, c>> \in common[k] => <<k, q, c>> \in sent

CoreOK ==
    \A p \in Honest : core[p] # {} =>
        /\ common[currentPhase[p]] # {}
        /\ common[currentPhase[p]] \subseteq core[p]
        /\ \A q \in Honest, c \in Choice :
              <<q, c>> \in core[p] => <<currentPhase[p], q, c>> \in sent

\* A phase that a party has left has a common core.
PhaseCommon ==
    \A p \in Honest, i \in Phase : i < currentPhase[p] => common[i] # {}

SentCommon ==
    \A k, i \in Phase : \A q \in Honest, c \in Choice :
        <<k, q, c>> \in sent /\ i < k => common[i] # {}

Unanimous(k, b) == common[k] # {} /\ choosers(common[k], ~b) = {}

\* After a unanimous common core every honest party has its bit.
Locked ==
    \A k, j \in Phase : \A q \in Honest : \A b, c \in Choice :
        Unanimous(k, b) /\ j > k /\ <<j, q, c>> \in sent => c = b

NextOK ==
    \A p \in Honest : \A r \in next[p] :
        /\ core[p] # {}
        /\ currentPhase[p] < MaxPhase
        /\ r[2] = 2 => Unanimous(currentPhase[p], r[1])

DoneUnanimous ==
    \A q \in Honest, c \in Choice :
        <<q, c>> \in sentDone => \E k \in Phase : Unanimous(k, c)

DoneSent ==
    \A p, q \in Honest : \A c \in Choice :
        <<q, c>> \in weAreDone[p] => <<q, c>> \in sentDone

OutcomeQuorum ==
    \A p \in Honest : \A c \in outcome[p] : Quorum(choosers(weAreDone[p], c))

SentInv == SentOnce /\ SentPhase /\ ReceivedSent
CoreInv == CommonOK /\ CoreOK /\ PhaseCommon /\ SentCommon
DoneInv == DoneUnanimous /\ DoneSent /\ OutcomeQuorum

ABBAInv == TypeOK /\ SentInv /\ CoreInv /\ Locked /\ NextOK /\ DoneInv /\ Validity
----------------------------------------------------------------------------
\* Two sets weigh at least as much apart as together.
LEMMA Subadditive ==
    ASSUME NEW S \in SUBSET Party, NEW T \in SUBSET Party
    PROVE  Weight[S \cup T] <= Weight[S] + Weight[T]
  <1>1. S \cup T = S \cup (T \ S) /\ S \cap (T \ S) = {} /\ T \ S \in SUBSET Party
    OBVIOUS
  <1>2. Weight[S \cup T] = Weight[S] + Weight[T \ S]
    BY <1>1, WeightAssumption
  <1>3. Weight[T \ S] <= Weight[T]
    BY WeightMonotone
  <1>4. Weight[S] \in Nat /\ Weight[T] \in Nat /\ Weight[T \ S] \in Nat /\ Weight[S \cup T] \in Nat
    BY WeightType
  <1> QED
    BY <1>2, <1>3, <1>4

\* If a quorum splits in two and one part has no honest weight, the other has.
LEMMA OtherPart ==
    ASSUME NEW S \in SUBSET Party, NEW T \in SUBSET Party,
           Quorum(S \cup T), ~HasHonest(T)
    PROVE  HasHonest(S)
  <1>1. Weight[S \cup T] <= Weight[S] + Weight[T]
    BY Subadditive
  <1>2. Weight[S] \in Nat /\ Weight[T] \in Nat /\ Weight[S \cup T] \in Nat
    BY WeightType
  <1> QED
    BY <1>1, <1>2, CorruptWeight DEF Quorum, HasHonest

\* Nominators and choosers are parties, and a nominator chooses top or bottom.
LEMMA Choosers ==
    ASSUME NEW ns
    PROVE  /\ nominators(ns) \in SUBSET Party
           /\ \A c \in Choice : choosers(ns, c) \in SUBSET Party
           /\ nominators(ns) = choosers(ns, TRUE) \cup choosers(ns, FALSE)
  BY DEF nominators, choosers, Choice

\* Both components of the pairs that nextBits returns.
LEMMA PairOf ==
    ASSUME NEW b \in Choice, NEW g \in 0 .. 2, NEW r, r = <<b, g>>
    PROVE  r[1] = b /\ r[2] = g /\ r \in Choice \X (0 .. 2)
  OBVIOUS

\* The two choices and the three grades.
LEMMA Choices ==
    /\ (~TRUE) = FALSE /\ (~FALSE) = TRUE /\ TRUE \in Choice /\ FALSE \in Choice
    /\ 0 \in 0 .. 2 /\ 1 \in 0 .. 2 /\ 2 \in 0 .. 2 /\ 0 # 2 /\ 1 # 2
  BY DEF Choice

\* What handleCoreSet makes of a core set in which honest parties have one
\* choice each: the next bit was chosen by an honest party, and grade 2 means
\* that nobody chose the other one.
LEMMA NextBits ==
    ASSUME NEW ns, Quorum(nominators(ns)), NEW r \in nextBits(ns)
    PROVE  /\ r \in Choice \X (0 .. 2)
           /\ HasHonest(choosers(ns, r[1]))
           /\ r[2] = 2 => choosers(ns, ~r[1]) = {}
  <1> DEFINE top == choosers(ns, TRUE)
             bot == choosers(ns, FALSE)
  <1>1. top \in SUBSET Party /\ bot \in SUBSET Party /\ Quorum(top \cup bot)
    BY Choosers DEF Choice
  <1>2. /\ Quorum(top) => HasHonest(top)
        /\ Quorum(bot) => HasHonest(bot)
    BY <1>1, QuorumIsSupported
  <1>3. CASE bot = {}
    <2>1. r = <<TRUE, 2>>
      BY <1>3 DEF nextBits
    <2>2. r[1] = TRUE /\ r[2] = 2 /\ r \in Choice \X (0 .. 2)
      BY <2>1, PairOf, Choices
    <2>3. choosers(ns, r[1]) = top /\ choosers(ns, ~r[1]) = bot
      BY <2>2, Choices
    <2>4. HasHonest(top)
      <3>1. top \cup bot = top
        BY <1>3
      <3> QED
        BY <1>1, <1>2, <3>1
    <2> QED
      BY <1>3, <2>2, <2>3, Choices, <2>4
  <1>4. CASE bot # {} /\ top = {}
    <2>1. r = <<FALSE, 2>>
      BY <1>4 DEF nextBits
    <2>2. r[1] = FALSE /\ r[2] = 2 /\ r \in Choice \X (0 .. 2)
      BY <2>1, PairOf, Choices
    <2>3. choosers(ns, r[1]) = bot /\ choosers(ns, ~r[1]) = top
      BY <2>2, Choices
    <2>4. HasHonest(bot)
      <3>1. top \cup bot = bot
        BY <1>4
      <3> QED
        BY <1>1, <1>2, <3>1
    <2> QED
      BY <1>4, <2>2, <2>3, Choices, <2>4
  <1>5. CASE bot # {} /\ top # {} /\ Quorum(top)
    <2>1. r = <<TRUE, 1>>
      BY <1>5 DEF nextBits
    <2>2. r[1] = TRUE /\ r[2] = 1 /\ r \in Choice \X (0 .. 2)
      BY <2>1, PairOf, Choices
    <2>3. choosers(ns, r[1]) = top /\ choosers(ns, ~r[1]) = bot
      BY <2>2, Choices
    <2> QED
      BY <1>5, <2>2, <2>3, Choices, <1>2
  <1>6. CASE bot # {} /\ top # {} /\ ~Quorum(top) /\ Quorum(bot)
    <2>1. r = <<FALSE, 1>>
      BY <1>6 DEF nextBits
    <2>2. r[1] = FALSE /\ r[2] = 1 /\ r \in Choice \X (0 .. 2)
      BY <2>1, PairOf, Choices
    <2>3. choosers(ns, r[1]) = bot /\ choosers(ns, ~r[1]) = top
      BY <2>2, Choices
    <2> QED
      BY <1>6, <2>2, <2>3, Choices, <1>2
  <1>7. CASE bot # {} /\ top # {} /\ ~Quorum(top) /\ ~Quorum(bot) /\ ~HasHonest(bot)
    <2>1. r = <<TRUE, 0>>
      BY <1>7 DEF nextBits
    <2>2. r[1] = TRUE /\ r[2] = 0 /\ r \in Choice \X (0 .. 2)
      BY <2>1, PairOf, Choices
    <2>3. choosers(ns, r[1]) = top /\ choosers(ns, ~r[1]) = bot
      BY <2>2, Choices
    <2>4. HasHonest(top)
      BY <1>1, <1>7, OtherPart
    <2> QED
      BY <1>7, <2>2, <2>3, Choices, <2>4
  <1>8. CASE /\ bot # {} /\ top # {} /\ ~Quorum(top) /\ ~Quorum(bot)
             /\ HasHonest(bot) /\ ~HasHonest(top)
    <2>1. r = <<FALSE, 0>>
      BY <1>8 DEF nextBits
    <2>2. r[1] = FALSE /\ r[2] = 0 /\ r \in Choice \X (0 .. 2)
      BY <2>1, PairOf, Choices
    <2>3. choosers(ns, r[1]) = bot /\ choosers(ns, ~r[1]) = top
      BY <2>2, Choices
    <2> QED
      BY <1>8, <2>2, <2>3, Choices
  <1>9. CASE /\ bot # {} /\ top # {} /\ ~Quorum(top) /\ ~Quorum(bot)
             /\ HasHonest(bot) /\ HasHonest(top)
    <2>1. PICK q : r = <<csRes(ns, q), 0>>
      BY <1>9 DEF nextBits
    <2>2. csRes(ns, q) \in Choice
      BY DEF csRes, Choice
    <2>3. r[1] \in Choice /\ r[2] = 0 /\ r \in Choice \X (0 .. 2)
      BY <2>1, <2>2, PairOf, Choices
    <2>4. choosers(ns, r[1]) = top \/ choosers(ns, r[1]) = bot
      BY <2>3 DEF Choice
    <2> QED
      BY <1>9, <2>3, <2>4, Choices
  <1> QED
    BY <1>3, <1>4, <1>5, <1>6, <1>7, <1>8, <1>9

\* A core set that contains a quorum's nominations of b, and in which honest
\* parties have one choice each, leads to b.
LEMMA NextBitUnanimous ==
    ASSUME NEW ns, NEW m \in SUBSET ns, NEW b \in Choice,
           Quorum(nominators(m)), choosers(m, ~b) = {},
           \A q \in Honest : ~(<<q, TRUE>> \in ns /\ <<q, FALSE>> \in ns),
           NEW r \in nextBits(ns)
    PROVE  r[1] = b
  <1> DEFINE top == choosers(ns, TRUE)
             bot == choosers(ns, FALSE)
  <1>1. top \in SUBSET Party /\ bot \in SUBSET Party
    BY Choosers DEF Choice
  <1>2. choosers(m, TRUE) \in SUBSET top /\ choosers(m, FALSE) \in SUBSET bot
    BY DEF choosers
  <1>3. nominators(m) = choosers(m, TRUE) \cup choosers(m, FALSE)
    BY Choosers
  <1>4. ~(Quorum(top) /\ Quorum(bot))
    <2> SUFFICES ASSUME Quorum(top), Quorum(bot)
                 PROVE  FALSE
      OBVIOUS
    <2>1. \E h \in Honest : h \in top /\ h \in bot
      BY <1>1, QuorumIntersection
    <2> QED
      BY <2>1 DEF choosers
  <1>5. CASE b = TRUE
    <2>1. nominators(m) = choosers(m, TRUE)
      BY <1>3, <1>5
    <2>2. Quorum(top) /\ top # {}
      <3>1. Quorum(top)
        BY <1>1, <1>2, <2>1, QuorumMonotone
      <3>2. HasHonest(top)
        BY <3>1, <1>1, QuorumIsSupported
      <3> QED
        BY <3>1, <3>2, <1>1, QuorumIsSupported
    <2>3. r = <<TRUE, 2>> \/ r = <<TRUE, 1>>
      BY <2>2 DEF nextBits
    <2>4. r[1] = TRUE
      BY <2>3, PairOf, Choices
    <2> QED
      BY <2>4, <1>5
  <1>6. CASE b = FALSE
    <2>1. nominators(m) = choosers(m, FALSE)
      BY <1>3, <1>6
    <2>2. Quorum(bot) /\ bot # {}
      <3>1. Quorum(bot)
        BY <1>1, <1>2, <2>1, QuorumMonotone
      <3>2. HasHonest(bot)
        BY <3>1, <1>1, QuorumIsSupported
      <3> QED
        BY <3>1, <3>2, <1>1, QuorumIsSupported
    <2>3. r = <<FALSE, 2>> \/ r = <<FALSE, 1>>
      BY <1>4, <2>2, ZenonT(30) DEF nextBits
    <2>4. r[1] = FALSE
      BY <2>3, PairOf, Choices, ZenonT(30)
    <2> QED
      BY <2>4, <1>6
  <1> QED
    BY <1>5, <1>6 DEF Choice

----------------------------------------------------------------------------
\* The empty set of nominations has no quorum of nominators.
LEMMA NoQuorumInEmpty == ASSUME Quorum(nominators({})) PROVE FALSE
  <1>1. nominators({}) = {}
    BY DEF nominators
  <1>2. {} \in SUBSET Party
    OBVIOUS
  <1> QED
    BY <1>1, <1>2, QuorumIsSupported

\* Initially nothing has been sent.
LEMMA InitABBAInv == Init => ABBAInv
  <1> SUFFICES ASSUME Init
               PROVE  ABBAInv
    OBVIOUS
  <1>1. TypeOK
    BY MaxPhaseAssumption DEF Init, TypeOK, Phase
  <1>2. SentInv /\ CoreInv
    BY DEF Init, SentInv, SentOnce, SentPhase, ReceivedSent, CoreInv, CommonOK,
           CoreOK, PhaseCommon, SentCommon, Phase
  <1>3. Locked /\ NextOK /\ DoneInv /\ Validity
    BY DEF Init, Locked, NextOK, DoneInv, DoneUnanimous, DoneSent, OutcomeQuorum, Validity
  <1> QED
    BY <1>1, <1>2, <1>3 DEF ABBAInv

\* Changing only what is justified for phase 0, or nothing.
LEMMA StutterStep ==
    ASSUME ABBAInv, justifiedIn' \in [Honest -> SUBSET Choice],
           UNCHANGED <<currentPhase, currentGrade, received, core, next, weAreDone,
                       outcome, sent, sentDone, common>>
    PROVE  ABBAInv'
  <1>1. TypeOK'
    BY DEF ABBAInv, TypeOK
  <1>2. SentInv' /\ CoreInv'
    BY DEF ABBAInv, SentInv, SentOnce, SentPhase, ReceivedSent, CoreInv, CommonOK,
           CoreOK, PhaseCommon, SentCommon
  <1>3. Locked' /\ NextOK' /\ DoneInv' /\ Validity'
    BY DEF ABBAInv, Locked, NextOK, DoneInv, DoneUnanimous, DoneSent, OutcomeQuorum,
           Validity, Unanimous
  <1> QED
    BY <1>1, <1>2, <1>3 DEF ABBAInv

\* A Justified message is handled.
LEMMA ReceiveJustifiedStep ==
    ASSUME ABBAInv, NEW p \in Honest, NEW m \in sent \cup FaultyInputs, receiveJustified(p, m)
    PROVE  ABBAInv'
  <1>1. m \in Phase \X Party \X Choice
    BY FaultyMsgsAssumption, HonestParty DEF ABBAInv, TypeOK
  <1>2. TypeOK'
    BY <1>1 DEF ABBAInv, TypeOK, receiveJustified
  <1>3. ReceivedSent'
    <2>1. ASSUME NEW r \in Honest, NEW q \in Honest, NEW k \in Phase, NEW c \in Choice,
                 <<k, q, c>> \in received'[r]
          PROVE  <<k, q, c>> \in sent
      <3>1. <<k, q, c>> \notin FaultyInputs
        BY FaultyMsgsAssumption DEF Honest
      <3>2. <<k, q, c>> \in received[r] \/ <<k, q, c>> = m
        BY <2>1 DEF receiveJustified, ABBAInv, TypeOK
      <3> QED
        BY <3>1, <3>2 DEF ABBAInv, SentInv, ReceivedSent
    <2> QED
      BY <2>1 DEF ReceivedSent, receiveJustified
  <1>4. SentOnce' /\ SentPhase' /\ CoreInv'
    BY DEF ABBAInv, SentInv, SentOnce, SentPhase, CoreInv, CommonOK, CoreOK,
           PhaseCommon, SentCommon, receiveJustified
  <1>5. Locked' /\ NextOK' /\ DoneInv' /\ Validity'
    BY DEF ABBAInv, Locked, NextOK, DoneInv, DoneUnanimous, DoneSent, OutcomeQuorum,
           Validity, Unanimous, receiveJustified
  <1> QED
    BY <1>2, <1>3, <1>4, <1>5 DEF ABBAInv, SentInv

\* sendJustified adds one message to sent, and to what its sender has handled.
LEMMA SendJustified ==
    ASSUME TypeOK, ReceivedSent, NEW p \in Honest, NEW k \in Phase, NEW c \in Choice,
           sendJustified(p, <<k, p, c>>)
    PROVE  /\ sent' = sent \cup {<<k, p, c>>}
           /\ sent' \in SUBSET (Phase \X Honest \X Choice)
           /\ received' \in [Honest -> SUBSET (Phase \X Party \X Choice)]
           /\ ReceivedSent'
  <1>1. sent' = sent \cup {<<k, p, c>>}
    BY DEF sendJustified
  <1>2. sent' \in SUBSET (Phase \X Honest \X Choice)
    BY <1>1 DEF TypeOK
  <1>3. <<k, p, c>> \in Phase \X Party \X Choice
    BY HonestParty
  <1>4. received' \in [Honest -> SUBSET (Phase \X Party \X Choice)]
    BY <1>3 DEF TypeOK, sendJustified
  <1>5. \A r \in Honest : received'[r] \subseteq received[r] \cup {<<k, p, c>>}
    BY DEF TypeOK, sendJustified
  <1>6. ReceivedSent'
    BY <1>1, <1>5 DEF ReceivedSent
  <1> QED
    BY <1>1, <1>2, <1>4, <1>6

\* A party enters phase 0.
LEMMA BeginStep ==
    ASSUME ABBAInv, NEW p \in Honest, NEW c \in Choice, beginABBA(p, c)
    PROVE  ABBAInv'
  <1>1. 0 \in Phase
    BY MaxPhaseAssumption DEF Phase
  <1>2. /\ sent' = sent \cup {<<0, p, c>>}
        /\ sent' \in SUBSET (Phase \X Honest \X Choice)
        /\ received' \in [Honest -> SUBSET (Phase \X Party \X Choice)]
        /\ ReceivedSent'
    BY <1>1, SendJustified DEF ABBAInv, SentInv, beginABBA
  <1>3. TypeOK'
    BY <1>2 DEF ABBAInv, TypeOK, beginABBA
  <1>4. SentOnce'
    BY <1>2 DEF ABBAInv, SentInv, SentOnce, beginABBA
  <1>5. SentPhase'
    <2>1. \A q \in Honest : 0 <= currentPhase[q]
      BY MaxPhaseAssumption DEF ABBAInv, TypeOK, Phase
    <2> QED
      BY <1>2, <2>1 DEF ABBAInv, SentInv, SentPhase, beginABBA
  <1>6. CommonOK' /\ CoreOK' /\ PhaseCommon'
    BY <1>2 DEF ABBAInv, CoreInv, CommonOK, CoreOK, PhaseCommon, beginABBA
  <1>7. SentCommon' /\ Locked'
    <2>1. \A i \in Phase : ~(i < 0)
      BY MaxPhaseAssumption DEF Phase
    <2> QED
      BY <1>2, <2>1 DEF ABBAInv, CoreInv, SentCommon, Locked, Unanimous, beginABBA
  <1>8. NextOK' /\ DoneInv'
    BY DEF ABBAInv, NextOK, DoneInv, DoneUnanimous, DoneSent, OutcomeQuorum,
           Unanimous, beginABBA
  <1>9. Validity'
    <2>1. \A m \in sent : \E q \in Honest : <<0, q, m[3]>> \in sent
      BY DEF ABBAInv, Validity
    <2>2. <<0, p, c>>[3] = c
      OBVIOUS
    <2> QED
      BY <1>2, <2>1, <2>2 DEF Validity
  <1> QED
    BY <1>2, <1>3, <1>4, <1>5, <1>6, <1>7, <1>8, <1>9 DEF ABBAInv, SentInv, CoreInv

\* A core set is selected: the common core of the phase is there afterwards,
\* and no other common core changes.
LEMMA SelectStep ==
    ASSUME ABBAInv, NEW p \in Honest, selectCoreSet(p)
    PROVE  ABBAInv'
  <1> DEFINE k == currentPhase[p]
             ns == justifiedInputs(p, k)
  <1>1. k \in Phase
    BY DEF ABBAInv, TypeOK
  <1>2. ns \in SUBSET Nomination
    BY DEF justifiedInputs
  <1>3. \A q \in Honest, c \in Choice : <<q, c>> \in ns => <<k, q, c>> \in sent
    <2>1. ASSUME NEW q \in Honest, NEW c \in Choice, <<q, c>> \in ns
          PROVE  <<k, q, c>> \in received[p]
      BY <2>1 DEF justifiedInputs
    <2> QED
      BY <1>1, <2>1 DEF ABBAInv, SentInv, ReceivedSent
  <1>4. /\ common' \in [Phase -> SUBSET Nomination]
        /\ \A i \in Phase : common'[i] = common[i] \/ (common[i] = {} /\ i = k)
        /\ common'[k] # {} /\ common'[k] \subseteq ns /\ Quorum(nominators(common'[k]))
    <2>1. CASE common[k] # {} /\ common[k] \subseteq ns /\ UNCHANGED common
      BY <1>1, <2>1 DEF ABBAInv, TypeOK, CoreInv, CommonOK
    <2>2. ASSUME common[k] = {}, NEW m \in SUBSET ns, Quorum(nominators(m)),
                 common' = [common EXCEPT ![k] = m]
          PROVE  /\ common' \in [Phase -> SUBSET Nomination]
                 /\ \A i \in Phase : common'[i] = common[i] \/ (common[i] = {} /\ i = k)
                 /\ common'[k] # {} /\ common'[k] \subseteq ns /\ Quorum(nominators(common'[k]))
      <3>1. m # {}
        BY <2>2, NoQuorumInEmpty
      <3>2. common \in [Phase -> SUBSET Nomination]
        BY DEF ABBAInv, TypeOK
      <3> QED
        BY <1>1, <1>2, <2>2, <3>1, <3>2
    <2> QED
      BY <2>1, <2>2 DEF selectCoreSet
  <1>5. core' = [core EXCEPT ![p] = ns]
    BY DEF selectCoreSet
  <1>6. UNCHANGED <<currentPhase, currentGrade, justifiedIn, received, next, weAreDone,
                    outcome, sent, sentDone>>
    BY DEF selectCoreSet
  <1>7. core[p] = {}
    BY DEF selectCoreSet
  <1> HIDE DEF k, ns
  <1>8. TypeOK'
    BY <1>2, <1>4, <1>5, <1>6 DEF ABBAInv, TypeOK
  <1>9. SentInv'
    BY <1>6 DEF ABBAInv, SentInv, SentOnce, SentPhase, ReceivedSent
  <1>10. CommonOK'
    <2> SUFFICES ASSUME NEW i \in Phase, common'[i] # {}
                 PROVE  /\ Quorum(nominators(common'[i]))
                        /\ \A q \in Honest, c \in Choice :
                              <<q, c>> \in common'[i] => <<i, q, c>> \in sent
      BY <1>6 DEF CommonOK, Quorum, nominators
    <2>1. CASE i = k
      BY <1>3, <1>4, <2>1
    <2>2. CASE i # k
      BY <1>4, <2>2 DEF ABBAInv, CoreInv, CommonOK
    <2> QED
      BY <2>1, <2>2
  <1>11. CoreOK'
    <2> SUFFICES ASSUME NEW q \in Honest, core'[q] # {}
                 PROVE  /\ common'[currentPhase[q]] # {}
                        /\ common'[currentPhase[q]] \subseteq core'[q]
                        /\ \A r \in Honest, c \in Choice :
                              <<r, c>> \in core'[q] => <<currentPhase[q], r, c>> \in sent
      BY <1>6 DEF CoreOK
    <2>1. CASE q = p
      <3>1. core'[q] = ns /\ currentPhase[q] = k
        BY <1>5, <2>1 DEF ABBAInv, TypeOK, k
      <3> QED
        BY <1>3, <1>4, <3>1
    <2>2. CASE q # p
      <3>1. core'[q] = core[q] /\ currentPhase[q] \in Phase
        BY <1>5, <2>2 DEF ABBAInv, TypeOK
      <3>2. common[currentPhase[q]] # {}
        BY <3>1 DEF ABBAInv, CoreInv, CoreOK
      <3>3. common'[currentPhase[q]] = common[currentPhase[q]]
        BY <1>4, <3>1, <3>2
      <3> QED
        BY <3>1, <3>2, <3>3 DEF ABBAInv, CoreInv, CoreOK
    <2> QED
      BY <2>1, <2>2
  <1>12. PhaseCommon' /\ SentCommon'
    BY <1>4, <1>6 DEF ABBAInv, CoreInv, PhaseCommon, SentCommon
  <1>13. Locked'
    <2> SUFFICES ASSUME NEW i \in Phase, NEW j \in Phase, NEW q \in Honest,
                        NEW b \in Choice, NEW c \in Choice,
                        Unanimous(i, b)', j > i, <<j, q, c>> \in sent
                 PROVE  c = b
      BY <1>6 DEF Locked
    <2>1. common[i] # {}
      BY <1>1 DEF ABBAInv, CoreInv, SentCommon, Phase
    <2>2. common'[i] = common[i]
      BY <1>4, <2>1
    <2>3. Unanimous(i, b)
      BY <2>1, <2>2 DEF Unanimous, choosers
    <2> QED
      BY <2>3 DEF ABBAInv, Locked
  <1>14. \A i \in Phase, b \in Choice : Unanimous(i, b) => Unanimous(i, b)'
    BY <1>4 DEF Unanimous, choosers
  <1>15. NextOK'
    <2> SUFFICES ASSUME NEW q \in Honest, NEW r \in next[q]
                 PROVE  /\ core'[q] # {}
                        /\ currentPhase[q] < MaxPhase
                        /\ r[2] = 2 => Unanimous(currentPhase[q], r[1])'
      BY <1>6 DEF NextOK
    <2>1. q # p
      BY <1>7 DEF ABBAInv, NextOK
    <2>2. core'[q] = core[q] /\ currentPhase[q] \in Phase
      BY <1>5, <2>1 DEF ABBAInv, TypeOK
    <2>3. r[1] \in Choice
      BY DEF ABBAInv, TypeOK
    <2>4. r[2] = 2 => Unanimous(currentPhase[q], r[1])
      BY DEF ABBAInv, NextOK
    <2>5. r[2] = 2 => (common'[currentPhase[q]] # {} /\ choosers(common'[currentPhase[q]], ~r[1]) = {})
      BY <1>14, <2>2, <2>3, <2>4 DEF Unanimous, choosers
    <2> QED
      BY <1>6, <2>2, <2>5 DEF ABBAInv, NextOK, Unanimous, choosers
  <1>16. DoneInv'
    BY <1>6, <1>14 DEF ABBAInv, DoneInv, DoneUnanimous, DoneSent, OutcomeQuorum, choosers, Quorum
  <1>17. Validity'
    BY <1>6 DEF ABBAInv, Validity
  <1> QED
    BY <1>8, <1>9, <1>10, <1>11, <1>12, <1>13, <1>15, <1>16, <1>17 DEF ABBAInv, CoreInv

\* A core set is evaluated, and the input of the next phase is sent.
LEMMA HandleCoreStep ==
    ASSUME ABBAInv, NEW p \in Honest, handleCoreSet(p)
    PROVE  ABBAInv'
  <1> DEFINE k == currentPhase[p]
  <1>1. k \in Phase /\ k + 1 \in Phase /\ k \in Nat
    BY MaxPhaseAssumption DEF ABBAInv, TypeOK, Phase, handleCoreSet
  <1>2. PICK r \in nextBits(core[p]) :
           /\ next' = [next EXCEPT ![p] = {r}]
           /\ sendJustified(p, <<k + 1, p, r[1]>>)
    BY DEF handleCoreSet
  <1>3. /\ core[p] # {} /\ next[p] = {} /\ k < MaxPhase
        /\ UNCHANGED <<currentPhase, currentGrade, justifiedIn, core, weAreDone,
                       outcome, sentDone, common>>
    BY DEF handleCoreSet
  <1>4. /\ common[k] # {} /\ common[k] \in SUBSET core[p]
        /\ \A q \in Honest, c \in Choice : <<q, c>> \in core[p] => <<k, q, c>> \in sent
    BY <1>3 DEF ABBAInv, CoreInv, CoreOK
  <1>5. Quorum(nominators(common[k])) /\ Quorum(nominators(core[p]))
    <2>1. Quorum(nominators(common[k]))
      BY <1>1, <1>4 DEF ABBAInv, CoreInv, CommonOK
    <2>2. /\ nominators(common[k]) \in SUBSET nominators(core[p])
          /\ nominators(core[p]) \in SUBSET Party
      BY <1>4 DEF nominators
    <2> QED
      BY <2>1, <2>2, QuorumMonotone
  <1>6. /\ r \in Choice \X (0 .. 2)
        /\ HasHonest(choosers(core[p], r[1]))
        /\ r[2] = 2 => choosers(core[p], ~r[1]) = {}
    BY <1>2, <1>5, NextBits
  <1>7. r[1] \in Choice
    BY <1>6
  <1>8. PICK h \in Honest : <<k, h, r[1]>> \in sent
    <2>1. choosers(core[p], r[1]) \in SUBSET Party
      BY DEF choosers
    <2>2. PICK h \in Honest : h \in choosers(core[p], r[1])
      BY <1>6, <2>1, HonestMember
    <2> QED
      BY <1>4, <1>7, <2>2 DEF choosers
  <1>9. /\ sent' = sent \cup {<<k + 1, p, r[1]>>}
        /\ sent' \in SUBSET (Phase \X Honest \X Choice)
        /\ received' \in [Honest -> SUBSET (Phase \X Party \X Choice)]
        /\ ReceivedSent'
    BY <1>1, <1>2, <1>7, SendJustified DEF ABBAInv, SentInv
  <1>10. \A b \in Choice : Unanimous(k, b) => r[1] = b
    <2> SUFFICES ASSUME NEW b \in Choice, Unanimous(k, b)
                 PROVE  r[1] = b
      OBVIOUS
    <2>1. choosers(common[k], ~b) = {}
      BY DEF Unanimous
    <2>2. \A q \in Honest : ~(<<q, TRUE>> \in core[p] /\ <<q, FALSE>> \in core[p])
      BY <1>1, <1>4, Choices DEF ABBAInv, SentInv, SentOnce
    <2> QED
      BY <1>2, <1>4, <1>5, <2>1, <2>2, NextBitUnanimous
  <1> HIDE DEF k
  <1>11. /\ \A q \in Honest : q # p => next'[q] = next[q]
         /\ next'[p] = {r}
    BY <1>2 DEF ABBAInv, TypeOK
  <1>12. TypeOK'
    BY <1>2, <1>3, <1>6, <1>9 DEF ABBAInv, TypeOK
  <1>13. SentOnce'
    <2>1. \A c \in Choice : <<k + 1, p, c>> \notin sent
      BY <1>1, <1>3 DEF ABBAInv, SentInv, SentPhase, k
    <2> QED
      BY <1>9, <2>1 DEF ABBAInv, SentInv, SentOnce
  <1>14. SentPhase'
    BY <1>3, <1>9, <1>11 DEF ABBAInv, SentInv, SentPhase, k
  <1>15. CommonOK' /\ CoreOK' /\ PhaseCommon'
    BY <1>3, <1>9 DEF ABBAInv, CoreInv, CommonOK, CoreOK, PhaseCommon
  <1>16. SentCommon'
    <2> SUFFICES ASSUME NEW j \in Phase, NEW i \in Phase, NEW q \in Honest, NEW c \in Choice,
                        <<j, q, c>> \in sent', i < j
                 PROVE  common[i] # {}
      BY <1>3 DEF SentCommon
    <2>1. CASE <<j, q, c>> \in sent
      BY <2>1 DEF ABBAInv, CoreInv, SentCommon
    <2>2. CASE j = k + 1
      <3>1. i < k \/ i = k
        BY <1>1, <2>2 DEF Phase
      <3> QED
        BY <1>4, <3>1 DEF ABBAInv, CoreInv, PhaseCommon, k
    <2> QED
      BY <1>9, <2>1, <2>2
  <1>17. Locked'
    <2> SUFFICES ASSUME NEW i \in Phase, NEW j \in Phase, NEW q \in Honest,
                        NEW b \in Choice, NEW c \in Choice,
                        Unanimous(i, b), j > i, <<j, q, c>> \in sent'
                 PROVE  c = b
      BY <1>3 DEF Locked, Unanimous
    <2>1. CASE <<j, q, c>> \in sent
      BY <2>1 DEF ABBAInv, Locked
    <2>2. CASE j = k + 1 /\ c = r[1]
      <3>1. i = k \/ k > i
        BY <1>1, <2>2 DEF Phase
      <3>2. CASE i = k
        BY <1>10, <2>2, <3>2
      <3>3. CASE k > i
        BY <1>1, <1>7, <1>8, <2>2, <3>3 DEF ABBAInv, Locked
      <3> QED
        BY <3>1, <3>2, <3>3
    <2> QED
      BY <1>9, <2>1, <2>2
  <1>18. NextOK'
    <2> SUFFICES ASSUME NEW q \in Honest, NEW s \in next'[q]
                 PROVE  /\ core[q] # {}
                        /\ currentPhase[q] < MaxPhase
                        /\ s[2] = 2 => Unanimous(currentPhase[q], s[1])
      BY <1>3 DEF NextOK, Unanimous
    <2>1. CASE q # p
      BY <1>11, <2>1 DEF ABBAInv, NextOK
    <2>2. CASE q = p
      <3>1. s = r
        BY <1>11, <2>2
      <3>2. r[2] = 2 => choosers(common[k], ~r[1]) = {}
        BY <1>4, <1>6 DEF choosers
      <3> QED
        BY <1>3, <1>4, <2>2, <3>1, <3>2 DEF Unanimous, k
    <2> QED
      BY <2>1, <2>2
  <1>19. DoneInv'
    BY <1>3 DEF ABBAInv, DoneInv, DoneUnanimous, DoneSent, OutcomeQuorum, Unanimous
  <1>20. Validity'
    <2>1. \A m \in sent : \E q \in Honest : <<0, q, m[3]>> \in sent
      BY DEF ABBAInv, Validity
    <2>2. <<k, h, r[1]>>[3] = r[1] /\ <<k + 1, p, r[1]>>[3] = r[1]
      OBVIOUS
    <2>3. \E q \in Honest : <<0, q, r[1]>> \in sent
      BY <1>8, <2>1, <2>2
    <2> QED
      BY <1>9, <2>1, <2>2, <2>3 DEF Validity
  <1> QED
    BY <1>9, <1>12, <1>13, <1>14, <1>15, <1>16, <1>17, <1>18, <1>19, <1>20
       DEF ABBAInv, SentInv, CoreInv

\* Handling a WeAreDone message that was really sent, or is a faulty party's.
LEMMA AddWeAreDone ==
    ASSUME TypeOK, DoneSent, OutcomeQuorum, NEW p \in Honest, NEW src \in Party,
           NEW c \in Choice, addWeAreDone(p, src, c),
           sentDone \subseteq sentDone', src \in Honest => <<src, c>> \in sentDone'
    PROVE  /\ weAreDone' \in [Honest -> SUBSET Nomination]
           /\ outcome' \in [Honest -> SUBSET Choice]
           /\ DoneSent'
           /\ OutcomeQuorum'
  <1> DEFINE old == choosers(weAreDone[p], c)
  <1>1. weAreDone' = [weAreDone EXCEPT ![p] = weAreDone[p] \cup {<<src, c>>}]
    BY DEF addWeAreDone
  <1>2. \/ outcome' = [outcome EXCEPT ![p] = outcome[p] \cup {c}] /\ Quorum(old \cup {src})
        \/ outcome' = outcome
    <2>1. outcome' = [outcome EXCEPT ![p] =
             IF Quorum(old \cup {src}) /\ ~Quorum(old) THEN outcome[p] \cup {c} ELSE outcome[p]]
      BY DEF addWeAreDone
    <2>2. outcome = [outcome EXCEPT ![p] = outcome[p]]
      BY DEF TypeOK
    <2> QED
      BY <2>1, <2>2
  <1>3. weAreDone' \in [Honest -> SUBSET Nomination]
    BY <1>1 DEF TypeOK, Nomination
  <1>4. outcome' \in [Honest -> SUBSET Choice]
    <2>1. outcome \in [Honest -> SUBSET Choice]
      BY DEF TypeOK
    <2>2. outcome[p] \cup {c} \in SUBSET Choice
      BY <2>1
    <2>3. [outcome EXCEPT ![p] = outcome[p] \cup {c}] \in [Honest -> SUBSET Choice]
      BY <2>1, <2>2
    <2> QED
      BY <1>2, <2>1, <2>3
  <1>5. DoneSent'
    BY <1>1 DEF DoneSent, TypeOK
  <1>6. OutcomeQuorum'
    <2> SUFFICES ASSUME NEW q \in Honest, NEW d \in outcome'[q]
                 PROVE  Quorum(choosers(weAreDone'[q], d))
      BY DEF OutcomeQuorum, Quorum, choosers
    <2>1. /\ choosers(weAreDone[q], d) \in SUBSET choosers(weAreDone'[q], d)
          /\ choosers(weAreDone'[q], d) \in SUBSET Party
      BY <1>1 DEF choosers, TypeOK
    <2>2. CASE d \in outcome[q]
      BY <2>1, <2>2, QuorumMonotone DEF OutcomeQuorum
    <2>3. CASE q = p /\ d = c /\ Quorum(old \cup {src})
      <3>1. old \cup {src} \in SUBSET choosers(weAreDone'[q], d)
        BY <1>1, <2>3 DEF choosers, TypeOK
      <3> QED
        BY <2>1, <2>3, <3>1, QuorumMonotone
    <2> QED
      BY <1>2, <2>2, <2>3 DEF TypeOK
  <1> QED
    BY <1>3, <1>4, <1>5, <1>6

\* A WeAreDone message is handled.
LEMMA ReceiveDoneStep ==
    ASSUME ABBAInv, NEW p \in Honest, NEW m \in sentDone \cup FaultyDone,
           receiveWeAreDone(p, m[1], m[2])
    PROVE  ABBAInv'
  <1>1. UNCHANGED <<currentPhase, currentGrade, justifiedIn, received, core, next,
                    sent, sentDone, common>>
    BY DEF receiveWeAreDone
  <1>2. m[1] \in Party /\ m[2] \in Choice
    BY FaultyMsgsAssumption, HonestParty DEF ABBAInv, TypeOK
  <1>3. m[1] \in Honest => <<m[1], m[2]>> \in sentDone'
    <2>1. m \in FaultyDone => m[1] \notin Honest
      BY FaultyMsgsAssumption DEF Honest
    <2>2. m \in sentDone => m = <<m[1], m[2]>>
      BY DEF ABBAInv, TypeOK
    <2> QED
      BY <1>1, <2>1, <2>2
  <1>4. /\ weAreDone' \in [Honest -> SUBSET Nomination]
        /\ outcome' \in [Honest -> SUBSET Choice]
        /\ DoneSent'
        /\ OutcomeQuorum'
    BY <1>1, <1>2, <1>3, AddWeAreDone DEF ABBAInv, DoneInv, receiveWeAreDone
  <1>5. TypeOK'
    BY <1>1, <1>4 DEF ABBAInv, TypeOK
  <1>6. SentInv' /\ CoreInv'
    BY <1>1 DEF ABBAInv, SentInv, SentOnce, SentPhase, ReceivedSent, CoreInv, CommonOK,
           CoreOK, PhaseCommon, SentCommon
  <1>7. Locked' /\ NextOK' /\ DoneUnanimous' /\ Validity'
    BY <1>1 DEF ABBAInv, Locked, NextOK, DoneInv, DoneUnanimous, Validity, Unanimous
  <1> QED
    BY <1>4, <1>5, <1>6, <1>7 DEF ABBAInv, DoneInv

\* A phase is completed and the next one begins.
LEMMA CompletePhaseStep ==
    ASSUME ABBAInv, NEW p \in Honest, completePhase(p)
    PROVE  ABBAInv'
  <1> DEFINE k == currentPhase[p]
  <1>1. PICK r \in next[p] :
           /\ currentGrade' = [currentGrade EXCEPT ![p] = r[2]]
           /\ IF closesDown(p, r) THEN sendWeAreDone(p, r[1])
              ELSE UNCHANGED <<sentDone, weAreDone, outcome>>
           /\ currentPhase' = [currentPhase EXCEPT ![p] = k + 1]
           /\ core' = [core EXCEPT ![p] = {}]
           /\ next' = [next EXCEPT ![p] = {}]
           /\ UNCHANGED <<justifiedIn, received, sent, common>>
    BY DEF completePhase
  <1>2. r \in Choice \X (0 .. 2) /\ r[1] \in Choice /\ r[2] \in 0 .. 2
    BY DEF ABBAInv, TypeOK
  <1>3. core[p] # {} /\ k < MaxPhase /\ (r[2] = 2 => Unanimous(k, r[1]))
    BY DEF ABBAInv, NextOK
  <1>4. k \in Phase /\ k + 1 \in Phase /\ k \in Nat
    BY <1>3, MaxPhaseAssumption DEF ABBAInv, TypeOK, Phase
  <1>5. common[k] # {}
    BY <1>3 DEF ABBAInv, CoreInv, CoreOK
  <1>6. /\ \A q \in Honest : q # p => /\ currentPhase'[q] = currentPhase[q]
                                      /\ core'[q] = core[q]
                                      /\ next'[q] = next[q]
        /\ currentPhase'[p] = k + 1 /\ core'[p] = {} /\ next'[p] = {}
    BY <1>1 DEF ABBAInv, TypeOK
  <1> HIDE DEF k
  <1>7. /\ sentDone' \in SUBSET (Honest \X Choice)
        /\ weAreDone' \in [Honest -> SUBSET Nomination]
        /\ outcome' \in [Honest -> SUBSET Choice]
        /\ DoneInv'
    <2>1. \A i \in Phase, b \in Choice : Unanimous(i, b)' <=> Unanimous(i, b)
      BY <1>1 DEF Unanimous
    <2>2. CASE UNCHANGED <<sentDone, weAreDone, outcome>>
      BY <2>1, <2>2 DEF ABBAInv, TypeOK, DoneInv, DoneUnanimous, DoneSent, OutcomeQuorum
    <2>3. CASE closesDown(p, r) /\ sendWeAreDone(p, r[1])
      <3>1. sentDone' = sentDone \cup {<<p, r[1]>>}
        BY <2>3 DEF sendWeAreDone
      <3>2. sentDone' \in SUBSET (Honest \X Choice)
        BY <1>2, <3>1 DEF ABBAInv, TypeOK
      <3>3. DoneUnanimous'
        <4>1. Unanimous(k, r[1])
          BY <1>3, <2>3 DEF closesDown
        <4> QED
          BY <1>2, <1>4, <2>1, <3>1, <4>1 DEF ABBAInv, DoneInv, DoneUnanimous
      <3>4. CASE UNCHANGED <<weAreDone, outcome>>
        BY <3>1, <3>2, <3>3, <3>4 DEF ABBAInv, TypeOK, DoneInv, DoneSent, OutcomeQuorum
      <3>5. CASE addWeAreDone(p, p, r[1])
        <4>1. p \in Party /\ sentDone \subseteq sentDone' /\ <<p, r[1]>> \in sentDone'
          BY <3>1, HonestParty
        <4>2. /\ weAreDone' \in [Honest -> SUBSET Nomination]
              /\ outcome' \in [Honest -> SUBSET Choice]
              /\ DoneSent'
              /\ OutcomeQuorum'
          BY <1>2, <3>5, <4>1, AddWeAreDone DEF ABBAInv, DoneInv
        <4> QED
          BY <3>2, <3>3, <4>2 DEF DoneInv
      <3> QED
        BY <2>3, <3>4, <3>5 DEF sendWeAreDone
    <2> QED
      BY <1>1, <2>2, <2>3
  <1>8. TypeOK'
    <2>1. currentPhase' \in [Honest -> Phase] /\ currentGrade' \in [Honest -> 0 .. 2]
      BY <1>1, <1>2, <1>4 DEF ABBAInv, TypeOK
    <2>2. core' \in [Honest -> SUBSET Nomination]
      BY <1>1 DEF ABBAInv, TypeOK
    <2>3. next' \in [Honest -> SUBSET (Choice \X (0 .. 2))]
      BY <1>1 DEF ABBAInv, TypeOK
    <2> QED
      BY <1>1, <1>7, <2>1, <2>2, <2>3 DEF ABBAInv, TypeOK
  <1>9. sent' = sent /\ common' = common /\ received' = received
    BY <1>1
  <1>10. SentOnce' /\ SentPhase' /\ ReceivedSent' /\ Validity'
    <2>1. SentOnce' /\ ReceivedSent'
      BY <1>9 DEF ABBAInv, SentInv, SentOnce, ReceivedSent
    <2>2. Validity'
      BY <1>9 DEF ABBAInv, Validity
    <2>3. ASSUME NEW i \in Phase, NEW q \in Honest, NEW c \in Choice, <<i, q, c>> \in sent
          PROVE  i <= currentPhase'[q] \/ (i = currentPhase'[q] + 1 /\ next'[q] # {})
      <3>1. i <= currentPhase[q] \/ (i = currentPhase[q] + 1 /\ next[q] # {})
        BY <2>3 DEF ABBAInv, SentInv, SentPhase
      <3>2. i \in Int
        BY MaxPhaseAssumption DEF Phase
      <3>3. CASE q # p
        BY <1>6, <3>1, <3>3
      <3>4. CASE q = p
        <4>1. currentPhase'[q] = k + 1 /\ currentPhase[q] = k
          BY <1>6, <3>4 DEF k
        <4> QED
          BY <1>4, <3>1, <3>2, <4>1
      <3> QED
        BY <3>3, <3>4
    <2>4. SentPhase'
      BY <1>9, <2>3 DEF SentPhase
    <2> QED
      BY <2>1, <2>2, <2>4
  <1>11. CommonOK' /\ SentCommon' /\ Locked'
    <2>1. CommonOK'
      BY <1>9 DEF ABBAInv, CoreInv, CommonOK
    <2>2. SentCommon'
      BY <1>9 DEF ABBAInv, CoreInv, SentCommon
    <2>3. Locked'
      BY <1>9 DEF ABBAInv, Locked, Unanimous
    <2> QED
      BY <2>1, <2>2, <2>3
  <1>12. CoreOK'
    <2> SUFFICES ASSUME NEW q \in Honest, core'[q] # {}
                 PROVE  /\ common[currentPhase'[q]] # {}
                        /\ common[currentPhase'[q]] \subseteq core'[q]
                        /\ \A h \in Honest, c \in Choice :
                              <<h, c>> \in core'[q] => <<currentPhase'[q], h, c>> \in sent
      BY <1>9 DEF CoreOK
    <2>1. q # p /\ core'[q] = core[q] /\ currentPhase'[q] = currentPhase[q]
      BY <1>6
    <2> QED
      BY <2>1 DEF ABBAInv, CoreInv, CoreOK
  <1>13. PhaseCommon'
    <2> SUFFICES ASSUME NEW q \in Honest, NEW i \in Phase, i < currentPhase'[q]
                 PROVE  common[i] # {}
      BY <1>9 DEF PhaseCommon
    <2>1. CASE q # p
      BY <1>6, <2>1 DEF ABBAInv, CoreInv, PhaseCommon
    <2>2. CASE q = p
      <3>1. i = k \/ i < k
        BY <1>4, <1>6, <2>2 DEF Phase
      <3> QED
        <4>1. PhaseCommon
          BY DEF ABBAInv, CoreInv
        <4>2. i < k => common[i] # {}
          BY <4>1 DEF PhaseCommon, k
        <4> QED
          BY <1>5, <3>1, <4>2
    <2> QED
      BY <2>1, <2>2
  <1>14. NextOK'
    <2>1. \A q \in Honest : next'[q] # {} =>
             q # p /\ next'[q] = next[q] /\ core'[q] = core[q] /\ currentPhase'[q] = currentPhase[q]
      BY <1>6
    <2> QED
      BY <1>9, <2>1 DEF ABBAInv, NextOK, Unanimous
  <1> QED
    BY <1>7, <1>8, <1>10, <1>11, <1>12, <1>13, <1>14 DEF ABBAInv, SentInv, CoreInv

\* Every step keeps the inductive invariant.
LEMMA NextABBAInv == ABBAInv /\ [Next]_vars => ABBAInv'
  <1> SUFFICES ASSUME ABBAInv, [Next]_vars
               PROVE  ABBAInv'
    OBVIOUS
  <1>1. CASE UNCHANGED vars
    BY <1>1, StutterStep DEF vars, partyVars, ABBAInv, TypeOK
  <1>2. ASSUME NEW p \in Honest, NEW c \in Choice, justifyABBAChoice(p, c)
        PROVE  ABBAInv'
    <2>1. justifiedIn' \in [Honest -> SUBSET Choice]
      BY <1>2 DEF justifyABBAChoice, ABBAInv, TypeOK
    <2> QED
      BY <1>2, <2>1, StutterStep DEF justifyABBAChoice
  <1> QED
    BY <1>1, <1>2, BeginStep, ReceiveJustifiedStep, SelectStep, HandleCoreStep,
       CompletePhaseStep, ReceiveDoneStep DEF Next

\* An honest party has nominated the bit of a unanimous common core.
LEMMA UnanimousHonest ==
    ASSUME ABBAInv, NEW k \in Phase, NEW b \in Choice, Unanimous(k, b)
    PROVE  \E h \in Honest : <<h, b>> \in common[k] /\ <<k, h, b>> \in sent
  <1>1. Quorum(nominators(common[k])) /\ nominators(common[k]) \in SUBSET Party
    BY Choosers DEF ABBAInv, CoreInv, CommonOK, Unanimous
  <1>2. PICK h \in Honest : h \in nominators(common[k])
    BY <1>1, QuorumIntersection
  <1>3. PICK c \in Choice : <<h, c>> \in common[k]
    BY <1>2 DEF nominators
  <1>4. c # ~b
    BY <1>3, HonestParty DEF Unanimous, choosers
  <1>5. c = b
    BY <1>4 DEF Choice
  <1> QED
    BY <1>3, <1>5 DEF ABBAInv, CoreInv, CommonOK, Unanimous

\* Unanimous common cores of any two phases agree.
LEMMA UnanimousAgree ==
    ASSUME ABBAInv, NEW k \in Phase, NEW j \in Phase, NEW b \in Choice, NEW d \in Choice,
           Unanimous(k, b), Unanimous(j, d), k <= j
    PROVE  b = d
  <1>1. PICK h \in Honest : <<h, d>> \in common[j] /\ <<j, h, d>> \in sent
    BY UnanimousHonest
  <1>2. CASE k = j
    <2>1. d # ~b
      BY <1>1, <1>2, HonestParty DEF Unanimous, choosers
    <2> QED
      BY <2>1 DEF Choice
  <1>3. CASE j > k
    BY <1>1, <1>3 DEF ABBAInv, Locked
  <1>4. k = j \/ j > k
    BY MaxPhaseAssumption DEF Phase
  <1> QED
    BY <1>2, <1>3, <1>4

\* The invariant gives that WEAREDONE is sent for one bit only.
LEMMA InvDoneOnce == ABBAInv => WeAreDoneOnce
  <1> SUFFICES ASSUME ABBAInv, NEW p \in Honest, NEW q \in Honest, NEW c \in Choice, NEW d \in Choice,
                      <<p, c>> \in sentDone, <<q, d>> \in sentDone
               PROVE  c = d
    BY DEF WeAreDoneOnce
  <1>1. PICK k \in Phase : Unanimous(k, c)
    BY DEF ABBAInv, DoneInv, DoneUnanimous
  <1>2. PICK j \in Phase : Unanimous(j, d)
    BY DEF ABBAInv, DoneInv, DoneUnanimous
  <1>3. k <= j \/ j <= k
    BY MaxPhaseAssumption DEF Phase
  <1> QED
    BY <1>1, <1>2, <1>3, UnanimousAgree

\* An outcome has been sent as WEAREDONE by an honest party.
LEMMA OutcomeSent ==
    ASSUME ABBAInv, NEW p \in Honest, NEW c \in outcome[p]
    PROVE  \E h \in Honest : <<h, c>> \in sentDone
  <1>1. c \in Choice /\ Quorum(choosers(weAreDone[p], c))
    BY DEF ABBAInv, TypeOK, DoneInv, OutcomeQuorum
  <1>2. choosers(weAreDone[p], c) \in SUBSET Party
    BY DEF choosers
  <1>3. PICK h \in Honest : h \in choosers(weAreDone[p], c)
    BY <1>1, <1>2, QuorumIntersection
  <1> QED
    BY <1>1, <1>3 DEF choosers, ABBAInv, DoneInv, DoneSent

\* The invariant gives agreement.
LEMMA InvAgreement == ABBAInv => Agreement
  <1> SUFFICES ASSUME ABBAInv, NEW p \in Honest, NEW q \in Honest,
                      NEW c \in outcome[p], NEW d \in outcome[q]
               PROVE  c = d
    BY DEF Agreement
  <1>1. c \in Choice /\ d \in Choice
    BY DEF ABBAInv, TypeOK
  <1> QED
    BY <1>1, OutcomeSent, InvDoneOnce DEF WeAreDoneOnce

\* The invariant gives graded agreement.
LEMMA InvGraded == ABBAInv => GradedAgreement
  <1> SUFFICES ASSUME ABBAInv, NEW p \in Honest, NEW q \in Honest, NEW r \in next[p],
                      NEW k \in Phase, NEW c \in Choice,
                      r[2] = 2, k > currentPhase[p], <<k, q, c>> \in sent
               PROVE  c = r[1]
    BY DEF GradedAgreement
  <1>1. Unanimous(currentPhase[p], r[1]) /\ currentPhase[p] \in Phase /\ r[1] \in Choice
    BY DEF ABBAInv, NextOK, TypeOK
  <1> QED
    BY <1>1 DEF ABBAInv, Locked

\* The invariant gives that the outcome can be recomputed: the corrupt parties
\* alone are behind WEAREDONE messages for the other choice.
LEMMA InvRecomputed == ABBAInv => OutcomeRecomputed
  <1> SUFFICES ASSUME ABBAInv, NEW p \in Honest, NEW c \in outcome[p]
               PROVE  outcome[p] = {abbaOutcome(p)}
    BY DEF OutcomeRecomputed, completed
  <1> DEFINE other == choosers(weAreDone[p], ~c)
             mine == choosers(weAreDone[p], c)
  <1>1. c \in Choice /\ (~c) \in Choice /\ outcome[p] \subseteq Choice
    BY DEF ABBAInv, TypeOK, Choice
  <1>2. outcome[p] = {c}
    BY InvAgreement DEF Agreement
  <1>3. mine \in SUBSET Party /\ other \in SUBSET Party
    BY DEF choosers
  <1>4. other \subseteq Faulty
    <2> SUFFICES ASSUME NEW h \in Honest, h \in other
                 PROVE  FALSE
      BY <1>3 DEF Honest
    <2>1. <<h, ~c>> \in sentDone
      BY <1>1 DEF choosers, ABBAInv, DoneInv, DoneSent
    <2>2. PICK g \in Honest : <<g, c>> \in sentDone
      BY OutcomeSent
    <2>3. c = ~c
      BY <1>1, <2>1, <2>2, InvDoneOnce DEF WeAreDoneOnce
    <2> QED
      BY <1>1, <2>3 DEF Choice
  <1>5. Weight[other] <= Weight[Faulty] /\ Weight[Faulty] <= corruptWeight
    BY <1>4, HonestParty, WeightMonotone, FaultAssumption
  <1>6. Quorum(mine)
    BY DEF ABBAInv, DoneInv, OutcomeQuorum
  <1>7. Weight[mine] \in Nat /\ Weight[other] \in Nat /\ Weight[Faulty] \in Nat
    BY <1>3, HonestParty, WeightType
  <1>8. Weight[mine] > Weight[other]
    <2> HIDE DEF mine, other
    <2> QED
      BY <1>5, <1>6, <1>7, CorruptWeight DEF Quorum
  <1> HIDE DEF mine, other
  <1>9. CASE c = TRUE
    <2>1. mine = choosers(weAreDone[p], TRUE) /\ other = choosers(weAreDone[p], FALSE)
      BY <1>9, Choices DEF mine, other
    <2>2. Weight[mine] >= Weight[other]
      BY <1>7, <1>8
    <2>3. abbaOutcome(p) = TRUE
      BY <2>1, <2>2, Zenon DEF abbaOutcome
    <2> QED
      BY <1>2, <1>9, <2>3
  <1>10. CASE c = FALSE
    <2>1. mine = choosers(weAreDone[p], FALSE) /\ other = choosers(weAreDone[p], TRUE)
      BY <1>10, Choices DEF mine, other
    <2>2. ~(Weight[other] >= Weight[mine])
      BY <1>7, <1>8
    <2>3. (Weight[other] >= Weight[mine]) = FALSE
      BY <1>7, <2>2
    <2>4. abbaOutcome(p) = FALSE
      BY <2>1, <2>3, Zenon DEF abbaOutcome
    <2> QED
      BY <1>2, <1>10, <2>4
  <1> QED
    BY <1>1, <1>9, <1>10 DEF Choice
----------------------------------------------------------------------------
\* The inductive invariant holds in every reachable state.
THEOREM ABBAInvariance == Spec => []ABBAInv
  BY InitABBAInv, NextABBAInv, PTL DEF Spec

\* ABBA's agreement: honest parties complete with one choice.
THEOREM ABBAAgreement == Spec => []Agreement
  BY ABBAInvariance, InvAgreement, PTL

\* Graded agreement: after a grade 2 every honest party enters every later
\* phase with the same bit.
THEOREM ABBAGradedAgreement == Spec => []GradedAgreement
  BY ABBAInvariance, InvGraded, PTL

\* WEAREDONE is sent for one bit only.
THEOREM ABBADoneOnce == Spec => []WeAreDoneOnce
  BY ABBAInvariance, InvDoneOnce, PTL

\* The bits honest parties enter the phases with are honest parties' inputs.
THEOREM ABBAValidity == Spec => []Validity
  <1>1. ABBAInv => Validity
    BY DEF ABBAInv
  <1> QED
    BY <1>1, ABBAInvariance, PTL

\* The getter abbaOutcome agrees with what aBBAComplete has signalled.
THEOREM ABBAOutcome == Spec => []OutcomeRecomputed
  BY ABBAInvariance, InvRecomputed, PTL
============================================================================
