---------------------------- MODULE WMVBAProofs ----------------------------
(***************************************************************************)
(* The result of a finalization round, for every committee whose corrupt   *)
(* weight is bounded, every set of blocks and every set of witness         *)
(* messages of the faulty parties.                                         *)
(*                                                                         *)
(* The argument: a proof has signatures of more than the corrupt weight,   *)
(* hence an honest one, also after the culprits are sorted out.  An honest *)
(* party signs a block only if Freeze has decided on it and ABBA has       *)
(* succeeded, on which the honest parties agree.                           *)
(***************************************************************************)
EXTENDS WMVBA, CommitteeProofs

DecisionsAgree ==
    \A p, q \in Honest : \A v \in decisions[p] \cap Val, w \in decisions[q] \cap Val : v = w

OutcomesAgree ==
    \A p, q \in Honest : \A b \in outcome[p], c \in outcome[q] : b = c

\* ABBA has succeeded for p.
Succeeded(p) == TRUE \in outcome[p]

\* The OutcomeState says which of the two events have occurred, and a party
\* with both of them has sent its witness.
PartyOK(p) ==
    LET st == justifiedDecision[p]
    IN /\ st.os \in {"OSAwaiting", "OSABBASuccess"} <=> decisions[p] \cap Val = {}
       /\ st.os \in {"OSABBASuccess", "OSDone"} <=> Succeeded(p)
       /\ st.os \in {"OSFrozen", "OSDone"} => st.val \in decisions[p]
       /\ st.os = "OSDone" => <<p, st.val>> \in witnesses

StateOK == \A p \in Honest : PartyOK(p)

WitnessesOK ==
    \A p \in Honest, v \in Val :
        <<p, v>> \in witnesses => v \in decisions[p] /\ Succeeded(p)

\* The stored signatures j for v: the valid ones were sent, and the others are
\* the faulty parties'.
SignaturesOK(j, v) ==
    /\ \A p \in j.valid : <<p, v, TRUE>> \in Messages
    /\ j.invalid \subseteq Faulty
    /\ j.bad \subseteq signed(j) \cap Faulty

StoredOK == \A n \in Node, v \in Val : SignaturesOK(justifications[n][v], v)

FailedOK == \A p \in failed : FALSE \in outcome[p]

EventsInv == DecisionsAgree /\ OutcomesAgree /\ StateOK /\ FailedOK

RoundInv == TypeOK /\ EventsInv /\ WitnessesOK /\ StoredOK /\ ProofsVerify

\* The weight of what is left of a set.
LEMMA WeightDifference ==
    ASSUME NEW T \in SUBSET Party, NEW S \in SUBSET T
    PROVE  Weight[T \ S] = Weight[T] - Weight[S]
  <1>1. S \in SUBSET Party /\ T \ S \in SUBSET Party
    OBVIOUS
  <1>2. T = S \cup (T \ S) /\ S \cap (T \ S) = {}
    OBVIOUS
  <1>3. Weight[T] = Weight[S] + Weight[T \ S]
    BY <1>1, <1>2, WeightAssumption
  <1> QED
    BY <1>1, <1>3, WeightType

\* The signers of a proof have enough weight, and their signatures are valid.
LEMMA GoodSigners ==
    ASSUME NEW j \in Justifications, j.bad \subseteq signed(j),
           Weight[signed(j)] - Weight[j.bad] > corruptWeight,
           goodSigners(j) # {}
    PROVE  HasHonest(goodSigners(j)) /\ goodSigners(j) \subseteq j.valid
  <1> DEFINE good == signed(j) \ j.bad
             culprits == good \cap j.invalid
  <1>1. signed(j) \in SUBSET Party
    BY DEF signed, Justifications
  <1>2. CASE culprits = {}
    <2>1. goodSigners(j) = good
      BY <1>2 DEF goodSigners
    <2>2. Weight[good] = Weight[signed(j)] - Weight[j.bad]
      BY <1>1, WeightDifference
    <2>3. good \subseteq j.valid
      BY <1>2 DEF signed
    <2> QED
      BY <2>1, <2>2, <2>3 DEF HasHonest
  <1>3. CASE culprits # {}
    <2>1. /\ goodSigners(j) = good \ culprits
          /\ Weight[signed(j)] - Weight[j.bad \cup culprits] > corruptWeight
      BY <1>3 DEF goodSigners
    <2>2. good \ culprits = signed(j) \ (j.bad \cup culprits)
      OBVIOUS
    <2>3. j.bad \cup culprits \in SUBSET signed(j)
      OBVIOUS
    <2>4. Weight[good \ culprits] = Weight[signed(j)] - Weight[j.bad \cup culprits]
      BY <1>1, <2>2, <2>3, WeightDifference
    <2>5. good \ culprits \subseteq j.valid
      BY DEF signed
    <2> QED
      BY <2>1, <2>4, <2>5 DEF HasHonest
  <1> QED
    BY <1>2, <1>3

\* createAggregateSig keeps what is stored and what is proved.
LEMMA AggregateStep ==
    ASSUME TypeOK, StoredOK, ProofsVerify, Messages \subseteq Messages',
           NEW n \in Node, NEW v \in Val, NEW j \in Justifications,
           \A p \in j.valid : <<p, v, TRUE>> \in Messages',
           j.invalid \subseteq Faulty, j.bad \subseteq signed(j) \cap Faulty,
           createAggregateSig(n, v, j)
    PROVE  /\ justifications' \in [Node -> [Val -> Justifications]]
           /\ proofs' \in [Node -> SUBSET (Val \X SUBSET Party)]
           /\ StoredOK'
           /\ ProofsVerify'
  <1> DEFINE i == [j EXCEPT !.bad = @ \cup j.invalid]
             enough == Weight[signed(j)] - Weight[j.bad] > corruptWeight
  <1>1. /\ i \in Justifications /\ i.valid = j.valid /\ i.invalid = j.invalid
        /\ i.bad = j.bad \cup j.invalid
    BY DEF Justifications
  <1>2. i.bad \subseteq signed(i) \cap Faulty
    BY <1>1 DEF signed
  <1> HIDE DEF i
  <1>3. PICK k \in {i, j} : justifications' = [justifications EXCEPT ![n][v] = k]
    BY DEF createAggregateSig, i
  <1>4. /\ k \in Justifications /\ k.valid = j.valid /\ k.invalid = j.invalid
        /\ k.bad \subseteq signed(k) \cap Faulty
    BY <1>1, <1>2, <1>3
  <1>5. justifications' \in [Node -> [Val -> Justifications]]
    BY <1>3, <1>4 DEF TypeOK
  <1>6. StoredOK'
    <2> SUFFICES ASSUME NEW m \in Node, NEW w \in Val
                 PROVE  SignaturesOK(justifications[m][w], w)'
      BY DEF StoredOK
    <2>1. CASE m = n /\ w = v
      <3>1. justifications'[m][w] = k
        BY <1>3, <2>1 DEF TypeOK
      <3> QED
        BY <1>4, <2>1, <3>1 DEF SignaturesOK, signed
    <2>2. CASE ~(m = n /\ w = v)
      <3>1. justifications'[m][w] = justifications[m][w]
        BY <1>3, <2>2 DEF TypeOK
      <3> QED
        BY <3>1 DEF StoredOK, SignaturesOK, signed
    <2> QED
      BY <2>1, <2>2
  <1>7. \/ proofs' = proofs
        \/ /\ enough /\ goodSigners(j) # {}
           /\ proofs' = [proofs EXCEPT ![n] = proofs[n] \cup {<<v, goodSigners(j)>>}]
    <2>1. proofs = [proofs EXCEPT ![n] = proofs[n]]
      BY DEF TypeOK
    <2>2. CASE enough
      <3>1. proofs' = [proofs EXCEPT ![n] = IF goodSigners(j) = {} THEN proofs[n]
                                            ELSE proofs[n] \cup {<<v, goodSigners(j)>>}]
        BY <2>2 DEF createAggregateSig
      <3> QED
        BY <2>1, <2>2, <3>1
    <2>3. CASE ~enough
      BY <2>3 DEF createAggregateSig
    <2> QED
      BY <2>2, <2>3
  <1>8. CASE proofs' = proofs
    <2>1. proofs' \in [Node -> SUBSET (Val \X SUBSET Party)]
      BY <1>8 DEF TypeOK
    <2>2. ProofsVerify'
      BY <1>8 DEF ProofsVerify
    <2> QED
      BY <1>5, <1>6, <2>1, <2>2
  <1>9. CASE /\ enough /\ goodSigners(j) # {}
             /\ proofs' = [proofs EXCEPT ![n] = proofs[n] \cup {<<v, goodSigners(j)>>}]
    <2>1. HasHonest(goodSigners(j)) /\ goodSigners(j) \subseteq j.valid
      BY <1>9, GoodSigners
    <2>2. goodSigners(j) \in SUBSET Party
      BY <2>1 DEF Justifications
    <2>3. proofs' \in [Node -> SUBSET (Val \X SUBSET Party)]
      BY <1>9, <2>2 DEF TypeOK
    <2>4. ProofsVerify'
      <3> SUFFICES ASSUME NEW m \in Node, NEW x \in proofs'[m]
                   PROVE  /\ HasHonest(x[2])
                          /\ \A p \in x[2] : <<p, x[1], TRUE>> \in Messages'
        BY DEF ProofsVerify, HasHonest
      <3>1. x \in proofs[m] \/ x = <<v, goodSigners(j)>>
        BY <1>9 DEF TypeOK
      <3>2. CASE x \in proofs[m]
        BY <3>2 DEF ProofsVerify
      <3>3. CASE x = <<v, goodSigners(j)>>
        <4>1. x[1] = v /\ x[2] = goodSigners(j)
          BY <3>3
        <4> QED
          BY <2>1, <4>1
      <3> QED
        BY <3>1, <3>2, <3>3
    <2> QED
      BY <1>5, <1>6, <2>3, <2>4
  <1> QED
    BY <1>7, <1>8, <1>9

\* A signature is inserted, in place of an earlier one of its sender or not.
LEMMA InsertOK ==
    ASSUME NEW j \in Justifications, NEW src \in Party, NEW ok \in BOOLEAN,
           NEW k \in {insert(j, src, ok), replace(j, src, ok)}
    PROVE  /\ k \in Justifications /\ k.bad = j.bad
           /\ signed(j) \subseteq signed(k)
           /\ k.valid \subseteq j.valid \cup (IF ok THEN {src} ELSE {})
           /\ k.invalid \subseteq j.invalid \cup (IF ok THEN {} ELSE {src})
  <1>1. CASE k = j
    BY <1>1
  <1>2. CASE ok /\ k = [j EXCEPT !.valid = @ \cup {src}]
    BY <1>2 DEF Justifications, signed
  <1>3. CASE ~ok /\ k = [j EXCEPT !.invalid = @ \cup {src}]
    BY <1>3 DEF Justifications, signed
  <1>4. CASE ok /\ k = [j EXCEPT !.valid = @ \cup {src}, !.invalid = @ \ {src}]
    BY <1>4 DEF Justifications, signed
  <1>5. CASE ~ok /\ k = [j EXCEPT !.invalid = @ \cup {src}, !.valid = @ \ {src}]
    BY <1>5 DEF Justifications, signed
  <1> QED
    BY <1>1, <1>2, <1>3, <1>4, <1>5 DEF insert, replace

\* A witness message that is sent and looped back keeps the signatures in order.
LEMMA SendWitnessStep ==
    ASSUME TypeOK, StoredOK, ProofsVerify,
           NEW p \in Honest, NEW v \in Val, sendWitness(p, v)
    PROVE  /\ justifications' \in [Node -> [Val -> Justifications]]
           /\ proofs' \in [Node -> SUBSET (Val \X SUBSET Party)]
           /\ witnesses' \in SUBSET (Honest \X Val)
           /\ StoredOK'
           /\ ProofsVerify'
  <1> DEFINE j == justifications[p][v]
             k == insert(j, p, TRUE)
  <1>1. witnesses' = witnesses \cup {<<p, v>>} /\ createAggregateSig(p, v, k)
    BY DEF sendWitness
  <1>2. p \in Node /\ p \in Party
    BY DEF Node, Honest
  <1>3. j \in Justifications
    BY <1>2 DEF TypeOK
  <1>4. /\ \A h \in j.valid : <<h, v, TRUE>> \in Messages
        /\ j.invalid \subseteq Faulty /\ j.bad \subseteq signed(j) \cap Faulty
    BY <1>2 DEF StoredOK, SignaturesOK
  <1>5. Messages \subseteq Messages' /\ <<p, v, TRUE>> \in Messages'
    <2>1. <<p, v>> \in witnesses' /\ <<p, v>>[1] = p /\ <<p, v>>[2] = v
      BY <1>1
    <2> QED
      BY <1>1, <2>1 DEF Messages
  <1> HIDE DEF j
  <1>6. /\ k \in Justifications /\ k.bad = j.bad /\ signed(j) \subseteq signed(k)
        /\ k.valid \subseteq j.valid \cup {p} /\ k.invalid \subseteq j.invalid
    BY <1>2, <1>3, InsertOK
  <1> HIDE DEF k
  <1>7. /\ \A h \in k.valid : <<h, v, TRUE>> \in Messages'
        /\ k.invalid \subseteq Faulty /\ k.bad \subseteq signed(k) \cap Faulty
    BY <1>4, <1>5, <1>6
  <1>8. /\ justifications' \in [Node -> [Val -> Justifications]]
        /\ proofs' \in [Node -> SUBSET (Val \X SUBSET Party)]
        /\ StoredOK' /\ ProofsVerify'
    BY <1>1, <1>2, <1>5, <1>7, <1>6, AggregateStep
  <1>9. witnesses' \in SUBSET (Honest \X Val)
    BY <1>1 DEF TypeOK
  <1> QED
    BY <1>8, <1>9

\* So does a signature that is received, from whichever party it comes.
LEMMA ReceiveStep ==
    ASSUME TypeOK, StoredOK, ProofsVerify, UNCHANGED witnesses,
           NEW n \in Node, NEW m \in Messages,
           NEW k \in {insert(justifications[n][m[2]], m[1], m[3]),
                      replace(justifications[n][m[2]], m[1], m[3])},
           createAggregateSig(n, m[2], k)
    PROVE  /\ justifications' \in [Node -> [Val -> Justifications]]
           /\ proofs' \in [Node -> SUBSET (Val \X SUBSET Party)]
           /\ StoredOK'
           /\ ProofsVerify'
  <1> DEFINE j == justifications[n][m[2]]
  <1>1. /\ m[1] \in Party /\ m[2] \in Val /\ m[3] \in BOOLEAN
        /\ m[1] \in Honest => m[3]
        /\ m = <<m[1], m[2], m[3]>>
    <2>1. CASE m \in {<<w[1], w[2], TRUE>> : w \in witnesses}
      <3>1. PICK w \in witnesses : m = <<w[1], w[2], TRUE>>
        BY <2>1
      <3>2. w \in Honest \X Val
        BY DEF TypeOK
      <3>3. w = <<w[1], w[2]>> /\ w[1] \in Honest /\ w[2] \in Val
        BY <3>2
      <3>4. m[1] = w[1] /\ m[2] = w[2] /\ m[3] = TRUE
        BY <3>1
      <3>5. m = <<m[1], m[2], m[3]>>
        BY <3>1
      <3> QED
        BY <3>3, <3>4, <3>5 DEF Honest
    <2>2. CASE m \in FaultyWitnesses
      <3>1. /\ m[1] \in Faulty /\ m[2] \in Val /\ m[3] \in BOOLEAN
            /\ m = <<m[1], m[2], m[3]>>
        BY <2>2, FaultyWitnessesAssumption
      <3> QED
        BY <3>1, HonestParty DEF Honest
    <2> QED
      BY <2>1, <2>2 DEF Messages
  <1>2. j \in Justifications
    BY <1>1 DEF TypeOK
  <1>3. /\ \A h \in j.valid : <<h, m[2], TRUE>> \in Messages
        /\ j.invalid \subseteq Faulty /\ j.bad \subseteq signed(j) \cap Faulty
    BY <1>1 DEF StoredOK, SignaturesOK
  <1>4. /\ k \in Justifications /\ k.bad = j.bad /\ signed(j) \subseteq signed(k)
        /\ k.valid \subseteq j.valid \cup (IF m[3] THEN {m[1]} ELSE {})
        /\ k.invalid \subseteq j.invalid \cup (IF m[3] THEN {} ELSE {m[1]})
    BY <1>1, <1>2, InsertOK
  <1>5. \A h \in k.valid : <<h, m[2], TRUE>> \in Messages
    <2>1. m[3] => <<m[1], m[2], TRUE>> \in Messages
      BY <1>1
    <2> QED
      BY <1>3, <1>4, <2>1
  <1>6. k.invalid \subseteq Faulty
    BY <1>1, <1>3, <1>4 DEF Honest
  <1>7. k.bad \subseteq signed(k) \cap Faulty
    BY <1>3, <1>4
  <1>8. Messages' = Messages
    BY DEF Messages
  <1> QED
    BY <1>1, <1>4, <1>5, <1>6, <1>7, <1>8, AggregateStep

\* DecisionJustified keeps the events in order, and a witness is sent for the
\* block only if ABBA has succeeded before.
LEMMA DecisionStep ==
    ASSUME RoundInv, NEW p \in Honest, NEW c \in Val \cup {Nothing},
           DecisionJustified(p, c)
    PROVE  RoundInv'
  <1> USE DEF RoundInv, EventsInv
  <1> DEFINE jd == justifiedDecision[p]
  <1>1. /\ decisions' = [decisions EXCEPT ![p] = @ \cup {c}]
        /\ c \in Val => \A q \in Honest : decisions[q] \cap Val \subseteq {c}
        /\ UNCHANGED <<outcome, failed>>
    BY DEF DecisionJustified
  <1>2. /\ decisions' \in [Honest -> SUBSET (Val \cup {Nothing})]
        /\ \A q \in Honest : decisions[q] \subseteq decisions'[q]
        /\ c \in decisions'[p]
    BY <1>1 DEF TypeOK
  <1>3. DecisionsAgree'
    <2>1. CASE c \in Val
      <3>1. \A q \in Honest : decisions'[q] \cap Val \subseteq {c}
        BY <1>1, <2>1 DEF TypeOK
      <3> QED
        BY <3>1 DEF DecisionsAgree
    <2>2. CASE c = Nothing
      <3>1. \A q \in Honest : decisions'[q] \cap Val = decisions[q] \cap Val
        BY <1>1, <2>2, ValAssumption DEF TypeOK
      <3> QED
        BY <3>1 DEF DecisionsAgree
    <2> QED
      BY <2>1, <2>2
  <1>4. \A q \in Honest \ {p} : decisions'[q] = decisions[q]
    BY <1>1 DEF TypeOK
  <1>5. \A q \in Honest : Succeeded(q)' = Succeeded(q)
    BY <1>1 DEF Succeeded
  <1>6. OutcomesAgree' /\ FailedOK'
    BY <1>1 DEF OutcomesAgree, FailedOK
  <1>7. CASE /\ c = Nothing
             /\ UNCHANGED <<justifiedDecision, justifications, witnesses, proofs>>
    <2>1. TypeOK'
      BY <1>1, <1>2, <1>7 DEF TypeOK
    <2>2. \A q \in Honest : decisions'[q] \cap Val = decisions[q] \cap Val
      BY <1>1, <1>7, ValAssumption DEF TypeOK
    <2>3. StateOK' /\ WitnessesOK'
      BY <1>2, <1>7, <1>5, <2>2 DEF StateOK, PartyOK, WitnessesOK
    <2>4. StoredOK' /\ ProofsVerify'
      BY <1>7 DEF StoredOK, SignaturesOK, ProofsVerify, Messages
    <2> QED
      BY <1>3, <1>6, <2>1, <2>3, <2>4
  <1>8. CASE /\ c \in Val /\ jd.os = "OSAwaiting"
             /\ justifiedDecision' =
                   [justifiedDecision EXCEPT ![p] = [os |-> "OSFrozen", val |-> c]]
             /\ UNCHANGED <<justifications, witnesses, proofs>>
    <2>1. justifiedDecision' \in [Honest -> OutcomeState]
      BY <1>8 DEF TypeOK, OutcomeState
    <2>2. TypeOK'
      BY <1>1, <1>2, <1>8, <2>1 DEF TypeOK
    <2>3. StateOK'
      BY <1>2, <1>4, <1>8, <1>5 DEF StateOK, PartyOK, TypeOK
    <2>4. WitnessesOK'
      BY <1>2, <1>8, <1>5 DEF WitnessesOK
    <2>5. StoredOK' /\ ProofsVerify'
      BY <1>8 DEF StoredOK, SignaturesOK, ProofsVerify, Messages
    <2> QED
      BY <1>3, <1>6, <2>2, <2>3, <2>4, <2>5
  <1>9. CASE /\ c \in Val /\ jd.os = "OSABBASuccess"
             /\ justifiedDecision' =
                   [justifiedDecision EXCEPT ![p] = [os |-> "OSDone", val |-> c]]
             /\ sendWitness(p, c)
    <2>1. justifiedDecision' \in [Honest -> OutcomeState]
      BY <1>9 DEF TypeOK, OutcomeState
    <2>2. /\ justifications' \in [Node -> [Val -> Justifications]]
          /\ proofs' \in [Node -> SUBSET (Val \X SUBSET Party)]
          /\ witnesses' \in SUBSET (Honest \X Val)
          /\ StoredOK' /\ ProofsVerify'
      BY <1>9, SendWitnessStep
    <2>3. TypeOK'
      BY <1>1, <1>2, <2>1, <2>2 DEF TypeOK
    <2>4. Succeeded(p)
      BY <1>9 DEF StateOK, PartyOK
    <2>5. witnesses' = witnesses \cup {<<p, c>>}
      BY <1>9 DEF sendWitness
    <2>6. StateOK'
      BY <1>2, <1>4, <1>9, <1>5, <2>4, <2>5 DEF StateOK, PartyOK, TypeOK
    <2>7. WitnessesOK'
      BY <1>2, <1>5, <2>4, <2>5 DEF WitnessesOK
    <2> QED
      BY <1>3, <1>6, <2>2, <2>3, <2>6, <2>7
  <1> QED
    BY <1>7, <1>8, <1>9 DEF DecisionJustified, freezeDecided

\* ABBAComplete keeps the events in order, and a witness is sent for the block
\* that Freeze has decided on before.
LEMMA OutcomeStep ==
    ASSUME RoundInv, NEW p \in Honest, NEW b \in BOOLEAN, ABBAComplete(p, b)
    PROVE  RoundInv'
  <1> USE DEF RoundInv, EventsInv
  <1> DEFINE jd == justifiedDecision[p]
  <1>1. /\ outcome[p] = {}
        /\ \A q \in Honest : outcome[q] \subseteq {b}
        /\ outcome' = [outcome EXCEPT ![p] = {b}]
        /\ UNCHANGED decisions
    BY DEF ABBAComplete
  <1>2. /\ outcome' \in [Honest -> SUBSET BOOLEAN]
        /\ \A q \in Honest : outcome[q] \subseteq outcome'[q]
        /\ outcome'[p] = {b}
        /\ \A q \in Honest \ {p} : outcome'[q] = outcome[q]
    BY <1>1 DEF TypeOK
  <1>3. \A q \in Honest : outcome'[q] \subseteq {b}
    BY <1>1, <1>2
  <1>4. /\ UNCHANGED decisions
        /\ ~Succeeded(p)
        /\ b <=> Succeeded(p)'
        /\ \A q \in Honest \ {p} : Succeeded(q)' = Succeeded(q)
    BY <1>1, <1>2 DEF Succeeded
  <1>5. DecisionsAgree' /\ OutcomesAgree'
    BY <1>1, <1>3 DEF DecisionsAgree, OutcomesAgree
  <1>6. CASE /\ ~b /\ failed' = failed \cup {p}
             /\ UNCHANGED <<justifiedDecision, justifications, witnesses, proofs>>
    <2>1. TypeOK'
      BY <1>1, <1>2, <1>6 DEF TypeOK
    <2>2. FALSE \in outcome'[p] /\ ~Succeeded(p)'
      BY <1>2, <1>6, <1>4
    <2>3. FailedOK'
      BY <1>2, <1>6, <2>2 DEF FailedOK, TypeOK
    <2>4. StateOK'
      BY <1>6, <1>4, <2>2 DEF StateOK, PartyOK
    <2>5. WitnessesOK'
      BY <1>6, <1>4 DEF WitnessesOK
    <2>6. StoredOK' /\ ProofsVerify'
      BY <1>6 DEF StoredOK, SignaturesOK, ProofsVerify, Messages
    <2> QED
      BY <1>5, <2>1, <2>3, <2>4, <2>5, <2>6
  <1>7. CASE b /\ UNCHANGED failed /\ abbaSuccess(p)
    <2>1. Succeeded(p)'
      BY <1>7, <1>4
    <2>2. FailedOK'
      BY <1>2, <1>7 DEF FailedOK, TypeOK
    <2>3. CASE /\ jd.os = "OSAwaiting"
               /\ justifiedDecision' = [justifiedDecision EXCEPT ![p].os = "OSABBASuccess"]
               /\ UNCHANGED <<justifications, witnesses, proofs>>
      <3>1. jd = [os |-> "OSAwaiting", val |-> Nothing]
        BY <2>3 DEF TypeOK, OutcomeState
      <3>2. justifiedDecision' =
              [justifiedDecision EXCEPT ![p] = [os |-> "OSABBASuccess", val |-> Nothing]]
        <4>1. [jd EXCEPT !.os = "OSABBASuccess"] = [os |-> "OSABBASuccess", val |-> Nothing]
          BY <3>1
        <4> QED
          BY <2>3, <4>1
      <3>3. TypeOK'
        BY <1>1, <1>2, <1>7, <2>3, <3>2 DEF TypeOK, OutcomeState
      <3>4. StateOK'
        <4>1. /\ justifiedDecision'[p] = [os |-> "OSABBASuccess", val |-> Nothing]
              /\ \A q \in Honest \ {p} : justifiedDecision'[q] = justifiedDecision[q]
          BY <3>2 DEF TypeOK
        <4>2. decisions[p] \cap Val = {}
          BY <2>3 DEF StateOK, PartyOK
        <4> SUFFICES ASSUME NEW q \in Honest
                     PROVE  PartyOK(q)'
          BY DEF StateOK
        <4>3. CASE q = p
          BY <1>4, <2>1, <4>1, <4>2, <4>3 DEF PartyOK
        <4>4. CASE q # p
          BY <1>4, <2>3, <4>1, <4>4 DEF StateOK, PartyOK
        <4> QED
          BY <4>3, <4>4
      <3>5. WitnessesOK'
        BY <1>4, <2>1, <2>3 DEF WitnessesOK
      <3>6. StoredOK' /\ ProofsVerify'
        BY <2>3 DEF StoredOK, SignaturesOK, ProofsVerify, Messages
      <3> QED
        BY <1>5, <2>2, <3>3, <3>4, <3>5, <3>6
    <2>4. CASE /\ jd.os = "OSFrozen"
               /\ justifiedDecision' = [justifiedDecision EXCEPT ![p].os = "OSDone"]
               /\ sendWitness(p, jd.val)
      <3>1. jd.val \in Val /\ jd = [os |-> "OSFrozen", val |-> jd.val]
        BY <2>4 DEF TypeOK, OutcomeState
      <3>2. justifiedDecision' =
              [justifiedDecision EXCEPT ![p] = [os |-> "OSDone", val |-> jd.val]]
        <4>1. [jd EXCEPT !.os = "OSDone"] = [os |-> "OSDone", val |-> jd.val]
          BY <3>1
        <4> QED
          BY <2>4, <4>1
      <3>3. /\ justifications' \in [Node -> [Val -> Justifications]]
            /\ proofs' \in [Node -> SUBSET (Val \X SUBSET Party)]
            /\ witnesses' \in SUBSET (Honest \X Val)
            /\ StoredOK' /\ ProofsVerify'
        BY <2>4, <3>1, SendWitnessStep
      <3>4. TypeOK'
        BY <1>1, <1>2, <1>7, <3>1, <3>2, <3>3 DEF TypeOK, OutcomeState
      <3>5. jd.val \in decisions[p] /\ witnesses' = witnesses \cup {<<p, jd.val>>}
        BY <2>4 DEF StateOK, PartyOK, sendWitness
      <3>6. StateOK'
        <4>1. /\ justifiedDecision'[p] = [os |-> "OSDone", val |-> jd.val]
              /\ \A q \in Honest \ {p} : justifiedDecision'[q] = justifiedDecision[q]
          BY <3>2 DEF TypeOK
        <4>2. decisions[p] \cap Val # {}
          BY <3>1, <3>5
        <4> SUFFICES ASSUME NEW q \in Honest
                     PROVE  PartyOK(q)'
          BY DEF StateOK
        <4>3. CASE q = p
          BY <1>4, <2>1, <3>5, <4>1, <4>2, <4>3 DEF PartyOK
        <4>4. CASE q # p
          BY <1>4, <3>5, <4>1, <4>4 DEF StateOK, PartyOK
        <4> QED
          BY <4>3, <4>4
      <3>7. WitnessesOK'
        BY <1>4, <2>1, <3>5 DEF WitnessesOK
      <3> QED
        BY <1>5, <2>2, <3>3, <3>4, <3>6, <3>7
    <2> QED
      BY <1>7, <2>3, <2>4 DEF abbaSuccess
  <1> QED
    BY <1>6, <1>7 DEF ABBAComplete

\* A step that leaves the events of Freeze and ABBA alone.
LEMMA EventsStutter ==
    ASSUME EventsInv, WitnessesOK,
           UNCHANGED <<decisions, outcome, justifiedDecision, witnesses, failed>>
    PROVE  EventsInv' /\ WitnessesOK'
  <1>1. DecisionsAgree'
    BY DEF EventsInv, DecisionsAgree
  <1>2. OutcomesAgree'
    BY Zenon DEF EventsInv, OutcomesAgree
  <1>3. FailedOK'
    BY Zenon DEF EventsInv, FailedOK
  <1>4. \A p : Succeeded(p)' = Succeeded(p)
    BY DEF Succeeded
  <1>5. StateOK' /\ WitnessesOK'
    BY <1>4 DEF EventsInv, StateOK, PartyOK, WitnessesOK
  <1> QED
    BY <1>1, <1>2, <1>3, <1>5 DEF EventsInv

\* A node that collects a signature, active or passive, keeps the invariant.
LEMMA CollectStep ==
    ASSUME RoundInv, NEW n \in Node, NEW m \in Messages,
           NEW k \in {insert(justifications[n][m[2]], m[1], m[3]),
                      replace(justifications[n][m[2]], m[1], m[3])},
           createAggregateSig(n, m[2], k),
           UNCHANGED <<decisions, outcome, justifiedDecision, witnesses, failed>>
    PROVE  RoundInv'
  <1> USE DEF RoundInv
  <1>1. /\ justifications' \in [Node -> [Val -> Justifications]]
        /\ proofs' \in [Node -> SUBSET (Val \X SUBSET Party)]
        /\ StoredOK' /\ ProofsVerify'
    BY ReceiveStep
  <1>2. TypeOK'
    BY <1>1 DEF TypeOK
  <1>3. EventsInv' /\ WitnessesOK'
    BY EventsStutter
  <1> QED
    BY <1>1, <1>2, <1>3

\* The initial state satisfies the invariant.
LEMMA RoundInit == Init => RoundInv
  <1> SUFFICES ASSUME Init PROVE RoundInv
    OBVIOUS
  <1> DEFINE none == [valid |-> {}, invalid |-> {}, bad |-> {}]
  <1>1. none \in Justifications
    BY DEF Justifications
  <1>2. TypeOK
    BY <1>1 DEF Init, TypeOK, OutcomeState
  <1>3. DecisionsAgree /\ OutcomesAgree /\ FailedOK /\ WitnessesOK /\ ProofsVerify
    BY DEF Init, DecisionsAgree, OutcomesAgree, FailedOK, WitnessesOK, ProofsVerify
  <1>4. StateOK
    BY DEF Init, StateOK, PartyOK, Succeeded
  <1>5. \A n \in Node, v \in Val : justifications[n][v] = none
    BY DEF Init
  <1>6. none.valid = {} /\ none.invalid = {} /\ none.bad = {}
    OBVIOUS
  <1> HIDE DEF none
  <1>7. StoredOK
    BY <1>5, <1>6 DEF StoredOK, SignaturesOK
  <1> QED
    BY <1>2, <1>3, <1>4, <1>7 DEF RoundInv, EventsInv

\* Every step of a node keeps the invariant.
LEMMA RoundNext == RoundInv /\ [Next]_vars => RoundInv'
  <1> SUFFICES ASSUME RoundInv, [Next]_vars PROVE RoundInv'
    OBVIOUS
  <1>1. ASSUME NEW p \in Honest, NEW c \in Val \cup {Nothing}, DecisionJustified(p, c)
        PROVE  RoundInv'
    BY <1>1, DecisionStep
  <1>2. ASSUME NEW p \in Honest, NEW b \in BOOLEAN, ABBAComplete(p, b)
        PROVE  RoundInv'
    BY <1>2, OutcomeStep
  <1>3. ASSUME NEW p \in Honest, NEW m \in Messages, receiveWitness(p, m[1], m[2], m[3])
        PROVE  RoundInv'
    BY <1>3, CollectStep DEF receiveWitness, Node
  <1>4. ASSUME NEW n \in Passive, NEW m \in Messages,
               passiveReceiveWMVBASignatures(n, m[1], m[2], m[3])
        PROVE  RoundInv'
    BY <1>4, CollectStep DEF passiveReceiveWMVBASignatures, Node
  <1>5. CASE UNCHANGED vars
    <2>1. EventsInv' /\ WitnessesOK'
      BY <1>5, EventsStutter DEF vars, RoundInv
    <2>2. TypeOK'
      BY <1>5 DEF vars, RoundInv, TypeOK
    <2>3. StoredOK' /\ ProofsVerify'
      BY <1>5 DEF vars, RoundInv, StoredOK, SignaturesOK, ProofsVerify, Messages
    <2> QED
      BY <2>1, <2>2, <2>3 DEF RoundInv
  <1> QED
    BY <1>1, <1>2, <1>3, <1>4, <1>5 DEF Next

\* An honest party's witness message was sent by itself.
LEMMA HonestMessage ==
    ASSUME TypeOK, NEW p \in Honest, NEW v, <<p, v, TRUE>> \in Messages
    PROVE  <<p, v>> \in witnesses
  <1>1. <<p, v, TRUE>> \notin FaultyWitnesses
    BY FaultyWitnessesAssumption DEF Honest
  <1>2. PICK w \in witnesses : <<p, v, TRUE>> = <<w[1], w[2], TRUE>>
    BY <1>1 DEF Messages
  <1>3. w = <<w[1], w[2]>>
    BY DEF TypeOK
  <1> QED
    BY <1>2, <1>3

\* A proof is for a block that Freeze has decided on for an honest party whose
\* ABBA has succeeded.
LEMMA HonestWitness ==
    ASSUME RoundInv, NEW n \in Node, NEW x \in proofs[n]
    PROVE  \E h \in Honest : x[1] \in decisions[h] \cap Val /\ Succeeded(h)
  <1>1. x[1] \in Val /\ x[2] \in SUBSET Party
    BY DEF RoundInv, TypeOK
  <1>2. HasHonest(x[2]) /\ \A p \in x[2] : <<p, x[1], TRUE>> \in Messages
    BY DEF RoundInv, ProofsVerify
  <1>3. PICK h \in Honest : h \in x[2]
    BY <1>1, <1>2, HonestMember
  <1>4. <<h, x[1]>> \in witnesses
    BY <1>2, <1>3, HonestMessage DEF RoundInv
  <1> QED
    BY <1>1, <1>4 DEF RoundInv, WitnessesOK

\* The invariant implies that the round has one result.
LEMMA OneResult == RoundInv => RoundAgreement
  <1> SUFFICES ASSUME RoundInv, NEW m \in Node, NEW n \in Node,
                      NEW x \in proofs[m], NEW y \in proofs[n]
               PROVE  x[1] = y[1] /\ failed = {}
    BY DEF RoundAgreement
  <1>1. PICK g \in Honest : x[1] \in decisions[g] \cap Val /\ Succeeded(g)
    BY HonestWitness
  <1>2. PICK h \in Honest : y[1] \in decisions[h] \cap Val
    BY HonestWitness
  <1>3. x[1] = y[1]
    BY <1>1, <1>2 DEF RoundInv, EventsInv, DecisionsAgree
  <1>4. ASSUME NEW p \in failed
        PROVE  FALSE
    <2>1. p \in Honest /\ FALSE \in outcome[p]
      BY DEF RoundInv, EventsInv, TypeOK, FailedOK
    <2>2. TRUE = FALSE
      BY <1>1, <2>1 DEF RoundInv, EventsInv, OutcomesAgree, Succeeded
    <2> QED
      BY <2>2
  <1> QED
    BY <1>3, <1>4

\* The invariant implies that the witness is sent in time.
LEMMA Witnessed == RoundInv => WitnessSent
  <1> SUFFICES ASSUME RoundInv, NEW p \in Honest, NEW v \in decisions[p] \cap Val
               PROVE  Succeeded(p) <=> <<p, v>> \in witnesses
    BY DEF WitnessSent, Succeeded
  <1> DEFINE st == justifiedDecision[p]
  <1>1. PartyOK(p) /\ st \in OutcomeState
    BY DEF RoundInv, EventsInv, StateOK, TypeOK
  <1>2. ASSUME Succeeded(p)
        PROVE  <<p, v>> \in witnesses
    <2>1. st.os = "OSDone" /\ st.val \in Val
      BY <1>1, <1>2 DEF PartyOK, OutcomeState
    <2>2. st.val \in decisions[p] /\ <<p, st.val>> \in witnesses
      BY <1>1, <2>1 DEF PartyOK
    <2>3. st.val = v
      BY <2>1, <2>2 DEF RoundInv, EventsInv, DecisionsAgree
    <2> QED
      BY <2>2, <2>3
  <1>3. <<p, v>> \in witnesses => Succeeded(p)
    BY DEF RoundInv, WitnessesOK
  <1> QED
    BY <1>2, <1>3

\* RoundInv holds in every reachable state.
THEOREM RoundInvariant == Spec => []RoundInv
  BY RoundInit, RoundNext, PTL DEF Spec

\* A finalization round has at most one result, whatever the faulty parties
\* sign and in whatever order Freeze's decision, ABBA's outcome and the
\* witnesses come (createAggregateSig, handleEvents in WMVBA.hs).
THEOREM RoundHasOneResult == Spec => []RoundAgreement
  BY RoundInvariant, OneResult, PTL

\* Every proof that createAggregateSig makes is accepted by verifyFinalProof.
THEOREM ProofsAreValid == Spec => []ProofsVerify
  <1>1. RoundInv => ProofsVerify
    BY DEF RoundInv
  <1> QED
    BY <1>1, RoundInvariant, PTL

\* findCulprits never blames an honest party, and the unsigned subtraction of
\* the bad signatures' weight in createAggregateSig never wraps around.
THEOREM HonestNotBlamed == Spec => []BadSignatures
  <1>1. RoundInv => BadSignatures
    BY DEF RoundInv, StoredOK, SignaturesOK, BadSignatures
  <1> QED
    BY <1>1, RoundInvariant, PTL

\* A party sends its witness exactly when it has both Freeze's block and ABBA's
\* success, in whichever order they come (OutcomeState in WMVBA.hs).
THEOREM WitnessInTime == Spec => []WitnessSent
  BY RoundInvariant, Witnessed, PTL
============================================================================
