-------------------------- MODULE CommitteeProofs --------------------------
(***************************************************************************)
(* What the thresholds of a committee guarantee (Afgjort/Finalize/Types.hs *)
(* computes them in makeFinalizationCommittee): facts about Weight,        *)
(* Quorum, Supported and HasHonest that the proofs about the protocols     *)
(* rest on.                                                                *)
(***************************************************************************)
EXTENDS Committee, TLAPS

\* The corrupt weight is a natural number below a third of the total weight.
LEMMA CorruptWeight ==
    /\ totalWeight \in Nat
    /\ corruptWeight \in Nat
    /\ 3 * corruptWeight < totalWeight
  <1>1. totalWeight \in Nat
    BY WeightAssumption DEF totalWeight
  <1>2. totalWeight > 0
    BY FaultAssumption
  <1> QED
    BY <1>1, <1>2, SMT DEF corruptWeight

\* The weight of a set is a natural number.
LEMMA WeightType ==
    ASSUME NEW S \in SUBSET Party
    PROVE  Weight[S] \in Nat
  BY WeightAssumption

\* A larger set has a larger weight.
LEMMA WeightMonotone ==
    ASSUME NEW T \in SUBSET Party, NEW S \in SUBSET T
    PROVE  Weight[S] <= Weight[T]
  <1>1. S \in SUBSET Party /\ T \ S \in SUBSET Party
    OBVIOUS
  <1>2. T = S \cup (T \ S) /\ S \cap (T \ S) = {}
    OBVIOUS
  <1>3. Weight[T] = Weight[S] + Weight[T \ S]
    BY <1>1, <1>2, WeightAssumption
  <1> QED
    BY <1>1, <1>3, WeightType

\* A set that weighs more than the corrupt weight has an honest member: this is
\* what finalization witnesses and justified decisions rely on.
LEMMA HonestMember ==
    ASSUME NEW S \in SUBSET Party, HasHonest(S)
    PROVE  \E h \in Honest : h \in S
  <1> SUFFICES ASSUME \A h \in Honest : h \notin S
               PROVE  FALSE
    OBVIOUS
  <1>1. S \subseteq Faulty
    BY DEF Honest
  <1>2. Weight[S] <= Weight[Faulty]
    BY <1>1, WeightMonotone, PartyAssumption
  <1>3. Weight[Faulty] <= corruptWeight
    BY FaultAssumption
  <1>4. Weight[S] \in Nat /\ Weight[Faulty] \in Nat
    BY WeightType, PartyAssumption
  <1> QED
    BY <1>2, <1>3, <1>4, CorruptWeight DEF HasHonest

\* Honest and faulty parties are parties.
LEMMA HonestParty == Honest \subseteq Party /\ Faulty \subseteq Party
  BY PartyAssumption DEF Honest

\* A set of parties that contains a quorum is one.
LEMMA QuorumMonotone ==
    ASSUME NEW T \in SUBSET Party, NEW S \in SUBSET T, Quorum(S)
    PROVE  Quorum(T)
  <1>1. Weight[S] <= Weight[T]
    BY WeightMonotone
  <1>2. Weight[S] \in Nat /\ Weight[T] \in Nat
    BY WeightType
  <1> QED
    BY <1>1, <1>2, CorruptWeight DEF Quorum

\* Two quorums of weight n-t have an honest member in common.
LEMMA QuorumIntersection ==
    ASSUME NEW S \in SUBSET Party, NEW T \in SUBSET Party, Quorum(S), Quorum(T)
    PROVE  \E h \in Honest : h \in S /\ h \in T
  <1> DEFINE I == S \cap T
  <1>1. /\ I \in SUBSET Party /\ S \ T \in SUBSET Party /\ S \cup T \in SUBSET Party
        /\ S = I \cup (S \ T) /\ I \cap (S \ T) = {}
        /\ S \cup T = T \cup (S \ T) /\ T \cap (S \ T) = {}
    OBVIOUS
  <1>2. Weight[S] = Weight[I] + Weight[S \ T]
    BY <1>1, WeightAssumption
  <1>3. Weight[S \cup T] = Weight[T] + Weight[S \ T]
    BY <1>1, WeightAssumption
  <1>4. Weight[S \cup T] <= totalWeight
    BY <1>1, WeightMonotone DEF totalWeight
  <1>5. /\ Weight[I] \in Nat /\ Weight[S \ T] \in Nat /\ Weight[S \cup T] \in Nat
        /\ Weight[S] \in Nat /\ Weight[T] \in Nat
    BY <1>1, WeightType
  <1>6. Weight[I] > corruptWeight
    BY <1>2, <1>3, <1>4, <1>5, CorruptWeight DEF Quorum
  <1>7. \E h \in Honest : h \in I
    BY <1>1, <1>6, HonestMember DEF HasHonest
  <1> QED
    BY <1>7

\* A quorum is in particular enough support, and enough to have an honest member.
LEMMA QuorumIsSupported ==
    ASSUME NEW S \in SUBSET Party
    PROVE  /\ Quorum(S) => Supported(S)
           /\ Supported(S) => HasHonest(S)
           /\ HasHonest(S) => S # {}
  <1>1. Weight[S] \in Nat /\ Weight[{}] = 0
    BY WeightAssumption
  <1> QED
    BY <1>1, CorruptWeight DEF Quorum, Supported, HasHonest
============================================================================
