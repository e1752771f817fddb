----------------------------- MODULE Committee -----------------------------
(***************************************************************************)
(* The finalization committee of one round (Afgjort/Finalize/Types.hs):    *)
(* its parties, their voting power and the bound on corrupt voting power.  *)
(*                                                                         *)
(* The weight of a set of parties is a constant function that is assumed   *)
(* to be additive.  PartySet and PartyMap cache exactly this number next   *)
(* to the set they hold; both insert a member once only, so the cached     *)
(* number is a function of the set.                                        *)
(***************************************************************************)
EXTENDS Integers, FiniteSets

CONSTANTS
    Party,      \* the parties of the committee
    Faulty,     \* the parties that may deviate from the protocol
    Weight      \* the voting power of every set of parties

ASSUME PartyAssumption == IsFiniteSet(Party) /\ Faulty \subseteq Party

ASSUME WeightAssumption ==
    /\ Weight \in [SUBSET Party -> Nat]
    /\ Weight[{}] = 0
    /\ \A S, T \in SUBSET Party :
          S \cap T = {} => Weight[S \cup T] = Weight[S] + Weight[T]

Honest == Party \ Faulty

partyWeight(p) == Weight[{p}]

totalWeight == Weight[Party]

corruptWeight == (totalWeight - 1) \div 3

\* totalWeight - corruptWeight: enough to be sure of most honest parties
Quorum(S) == Weight[S] >= totalWeight - corruptWeight

\* totalWeight - 2 * corruptWeight
Supported(S) == Weight[S] >= totalWeight - 2 * corruptWeight

\* more than corruptWeight: at least one honest party is a member
HasHonest(S) == Weight[S] > corruptWeight

\* The fault assumption of Afgjort: the corrupt parties' weight is bounded.
ASSUME FaultAssumption == totalWeight > 0 /\ Weight[Faulty] <= corruptWeight
============================================================================
