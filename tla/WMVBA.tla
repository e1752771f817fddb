------------------------------- MODULE WMVBA -------------------------------
(***************************************************************************)
(* One finalization round (Afgjort/WMVBA.hs): Freeze, binary agreement and *)
(* the creation of a finalization proof from witness signatures.           *)
(*                                                                         *)
(* Freeze and ABBA are abstracted to their events.  Which events can occur *)
(* together is what the theorems of FreezeProofs and ABBAProofs allow:     *)
(* justified decisions agree on the block, outcomes agree on the bit, and  *)
(* the bit is top only if it was some honest party's input.  A message a   *)
(* party sends is looped back to it at the end of the handler.  The nodes  *)
(* of Passive are not in the committee and only collect witnesses.         *)
(***************************************************************************)
EXTENDS Committee

CONSTANTS
    Val,                \* the blocks that may be finalized in the round
    Nothing,            \* Freeze's other decision
    Passive,            \* nodes that do not take part
    FaultyWitnesses     \* the witness messages of the faulty parties

ASSUME ValAssumption == Nothing \notin Val
ASSUME PassiveAssumption == Passive \cap Party = {}
ASSUME FaultyWitnessesAssumption == FaultyWitnesses \subseteq Faulty \X Val \X BOOLEAN

Node == Honest \cup Passive

VARIABLES
    decisions,          \* Freeze's events DecisionJustified, per party
    outcome,            \* ABBA's event ABBAComplete, per party
    justifiedDecision,  \* the OutcomeState of every party
    justifications,     \* the witness signatures of every node for every block
    witnesses,          \* the honest parties' witness messages, <<party, block>>
    proofs,             \* the events WMVBAComplete (Just ...), <<block, signers>>
    failed              \* the parties with the event WMVBAComplete Nothing

vars == <<decisions, outcome, justifiedDecision, justifications, witnesses,
          proofs, failed>>

OutcomeState ==
    [os : {"OSAwaiting", "OSABBASuccess"}, val : {Nothing}]
        \cup [os : {"OSFrozen", "OSDone"}, val : Val]

\* The parties whose signature is stored, by its validity, and the parties
\* known to have sent a bad one.
Justifications == [valid : SUBSET Party, invalid : SUBSET Party, bad : SUBSET Party]

signed(j) == j.valid \cup j.invalid

Init ==
    /\ decisions = [p \in Honest |-> {}]
    /\ outcome = [p \in Honest |-> {}]
    /\ justifiedDecision = [p \in Honest |-> [os |-> "OSAwaiting", val |-> Nothing]]
    /\ justifications =
          [n \in Node |-> [v \in Val |-> [valid |-> {}, invalid |-> {}, bad |-> {}]]]
    /\ witnesses = {}
    /\ proofs = [n \in Node |-> {}]
    /\ failed = {}

\* PartyMap.insert: the first signature of a party is kept
insert(j, src, ok) ==
    IF src \in signed(j) THEN j
    ELSE IF ok THEN [j EXCEPT !.valid = @ \cup {src}]
    ELSE [j EXCEPT !.invalid = @ \cup {src}]

\* PartyMap.union on a passive node: the new signature of a party is kept
replace(j, src, ok) ==
    IF ok THEN [j EXCEPT !.valid = @ \cup {src}, !.invalid = @ \ {src}]
    ELSE [j EXCEPT !.invalid = @ \cup {src}, !.valid = @ \ {src}]

\* The parties of a proof that is made from j, none if there is no proof.  An
\* aggregate verifies if all signatures in it are valid; if it does not, the
\* culprits are found and the others may still be enough.
goodSigners(j) ==
    LET good == signed(j) \ j.bad
        culprits == good \cap j.invalid
    IN IF culprits = {} THEN good
       ELSE IF Weight[signed(j)] - Weight[j.bad \cup culprits] > corruptWeight
            THEN good \ culprits
            ELSE {}

\* Mutant: the culprits are not looked for.
createAggregateSig_noCulprits(n, v, j) ==
    LET good == signed(j) \ j.bad
    IN /\ justifications' = [justifications EXCEPT ![n][v] = j]
       /\ IF Weight[good] > corruptWeight /\ good \cap j.invalid = {}
          THEN proofs' = [proofs EXCEPT ![n] = @ \cup {<<v, good>>}]
          ELSE UNCHANGED proofs

\* Mutant: the weight of the remaining signatures is not compared again.
createAggregateSig_light(n, v, j) ==
    LET good == signed(j) \ j.bad
    IN IF Weight[signed(j)] - Weight[j.bad] > corruptWeight
       THEN /\ justifications' = [justifications EXCEPT ![n][v] =
                   [j EXCEPT !.bad = @ \cup (good \cap j.invalid)]]
            /\ proofs' = [proofs EXCEPT ![n] = @ \cup {<<v, good \ j.invalid>>}]
       ELSE /\ justifications' = [justifications EXCEPT ![n][v] = j]
            /\ UNCHANGED proofs

\* Mutant: all signers of an aggregate that does not verify are bad.
createAggregateSig_blame(n, v, j) ==
    /\ justifications' = [justifications EXCEPT ![n][v] =
          IF HasHonest(signed(j)) /\ j.invalid # {} THEN [j EXCEPT !.bad = signed(j)] ELSE j]
    /\ UNCHANGED proofs

\* Node n has the signatures j for v: store them, and make a proof if the
\* ones that are not known to be bad have enough weight.
createAggregateSig(n, v, j) ==
    IF Weight[signed(j)] - Weight[j.bad] > corruptWeight
    THEN /\ justifications' = [justifications EXCEPT ![n][v] =
                [j EXCEPT !.bad = @ \cup j.invalid]]
         /\ proofs' = [proofs EXCEPT ![n] =
                IF goodSigners(j) = {} THEN @ ELSE @ \cup {<<v, goodSigners(j)>>}]
    ELSE /\ justifications' = [justifications EXCEPT ![n][v] = j]
         /\ UNCHANGED proofs

\* p sends a witness message for v, which is looped back to it.
sendWitness(p, v) ==
    /\ witnesses' = witnesses \cup {<<p, v>>}
    /\ createAggregateSig(p, v, insert(justifications[p][v], p, TRUE))

\* p takes part in the round: it leaves a failed round for the next one.
active(p) == p \notin failed

\* Mutant: the witness is sent before ABBA has an outcome.
freezeDecided_eager(p, v) ==
    /\ justifiedDecision' = [justifiedDecision EXCEPT ![p] = [os |-> "OSDone", val |-> v]]
    /\ sendWitness(p, v)

\* Freeze has decided for block v: wait for ABBA or send the witness.
freezeDecided(p, v) ==
    \/ /\ justifiedDecision[p].os = "OSAwaiting"
       /\ justifiedDecision' = [justifiedDecision EXCEPT ![p] = [os |-> "OSFrozen", val |-> v]]
       /\ UNCHANGED <<justifications, witnesses, proofs>>
    \/ /\ justifiedDecision[p].os = "OSABBASuccess"
       /\ justifiedDecision' = [justifiedDecision EXCEPT ![p] = [os |-> "OSDone", val |-> v]]
       /\ sendWitness(p, v)

\* liftFreeze: the event DecisionJustified c.  By FreezeAgreement it is never
\* for another block than an earlier one.
DecisionJustified(p, c) ==
    /\ active(p)
    /\ c \notin decisions[p]
    /\ c \in Val => \A q \in Honest : decisions[q] \cap Val \subseteq {c}
    /\ decisions' = [decisions EXCEPT ![p] = @ \cup {c}]
    /\ \/ c \in Val /\ freezeDecided(p, c)
       \/ /\ c = Nothing
          /\ UNCHANGED <<justifiedDecision, justifications, witnesses, proofs>>
    /\ UNCHANGED <<outcome, failed>>

\* handleEvents (ABBAComplete True): wait for Freeze or send the witness.
abbaSuccess(p) ==
    \/ /\ justifiedDecision[p].os = "OSAwaiting"
       /\ justifiedDecision' = [justifiedDecision EXCEPT ![p].os = "OSABBASuccess"]
       /\ UNCHANGED <<justifications, witnesses, proofs>>
    \/ /\ justifiedDecision[p].os = "OSFrozen"
       /\ justifiedDecision' = [justifiedDecision EXCEPT ![p].os = "OSDone"]
       /\ sendWitness(p, justifiedDecision[p].val)

\* liftABBA: the event ABBAComplete b.  By ABBAAgreement and ABBAValidity all
\* outcomes are the same and were the input of an honest party, which is top
\* if Freeze has justified a block for it.
ABBAComplete(p, b) ==
    /\ active(p)
    /\ outcome[p] = {}
    /\ \A q \in Honest : outcome[q] \subseteq {b}
    /\ b => \E q \in Honest : decisions[q] \cap Val # {}
    /\ outcome' = [outcome EXCEPT ![p] = {b}]
    /\ \/ b /\ abbaSuccess(p) /\ UNCHANGED failed
       \/ /\ ~b
          /\ failed' = failed \cup {p}
          /\ UNCHANGED <<justifiedDecision, justifications, witnesses, proofs>>
    /\ UNCHANGED decisions

\* A party's first signature for a block; another one would change nothing.
receiveWitness(p, src, v, ok) ==
    /\ active(p)
    /\ src \notin signed(justifications[p][v])
    /\ createAggregateSig(p, v, insert(justifications[p][v], src, ok))
    /\ UNCHANGED <<decisions, outcome, justifiedDecision, witnesses, failed>>

passiveReceiveWMVBASignatures(n, src, v, ok) ==
    /\ createAggregateSig(n, v, replace(justifications[n][v], src, ok))
    /\ UNCHANGED <<decisions, outcome, justifiedDecision, witnesses, failed>>

Messages == {<<w[1], w[2], TRUE>> : w \in witnesses} \cup FaultyWitnesses

Next ==
    \/ \E p \in Honest :
          \/ \E c \in Val \cup {Nothing} : DecisionJustified(p, c)
          \/ \E b \in BOOLEAN : ABBAComplete(p, b)
          \/ \E m \in Messages : receiveWitness(p, m[1], m[2], m[3])
    \/ \E n \in Passive, m \in Messages :
          passiveReceiveWMVBASignatures(n, m[1], m[2], m[3])

Spec == Init /\ [][Next]_vars

\* What honest nodes do with the messages that reach them: Freeze's decision
\* for a block and ABBA's outcome spread from one honest party to all, and the
\* honest parties' witness messages are relayed.
Step(p) ==
    \/ \E q \in Honest : \E c \in decisions[q] \cap Val : DecisionJustified(p, c)
    \/ \E q \in Honest : \E b \in outcome[q] : ABBAComplete(p, b)
    \/ \E w \in witnesses : receiveWitness(p, w[1], w[2], TRUE)

\* Passive nodes handle a message once, too.
PassiveStep(n) ==
    \E w \in witnesses :
        /\ w[1] \notin justifications[n][w[2]].valid
        /\ passiveReceiveWMVBASignatures(n, w[1], w[2], TRUE)

Fairness ==
    /\ \A p \in Honest : WF_vars(Step(p))
    /\ \A n \in Passive : WF_vars(PassiveStep(n))

FairSpec == Spec /\ Fairness
----------------------------------------------------------------------------
TypeOK ==
    /\ decisions \in [Honest -> SUBSET (Val \cup {Nothing})]
    /\ outcome \in [Honest -> SUBSET BOOLEAN]
    /\ justifiedDecision \in [Honest -> OutcomeState]
    /\ justifications \in [Node -> [Val -> Justifications]]
    /\ witnesses \in SUBSET (Honest \X Val)
    /\ proofs \in [Node -> SUBSET (Val \X SUBSET Party)]
    /\ failed \in SUBSET Honest

\* The round has one result: all finalization proofs are for the same block,
\* and if any node has one, no honest party starts another round because ABBA
\* has failed.  Both could only come from honest parties that disagree on
\* Freeze's block or on ABBA's bit.
RoundAgreement ==
    \A m, n \in Node : \A x \in proofs[m], y \in proofs[n] :
        x[1] = y[1] /\ failed = {}

\* A proof consists of signatures that verify and have enough weight to be
\* accepted by verifyFinalProof, also after bad signatures were sorted out.
ProofsVerify ==
    \A n \in Node : \A x \in proofs[n] :
        HasHonest(x[2]) /\ \A p \in x[2] : <<p, x[1], TRUE>> \in Messages

\* An honest party's signature is never taken for a bad one, and the weight of
\* the bad signatures, which is subtracted as an unsigned number, does not
\* exceed that of all signatures.
BadSignatures ==
    \A n \in Node, v \in Val :
        LET j == justifications[n][v]
        IN j.bad \subseteq signed(j) \cap Faulty

\* Every party sends the witness as soon as both Freeze's block and ABBA's
\* success are there, in whichever order they came.
WitnessSent ==
    \A p \in Honest : \A v \in decisions[p] \cap Val :
        TRUE \in outcome[p] <=> <<p, v>> \in witnesses

\* If ABBA succeeds anywhere, every node, active or passive, gets a proof,
\* although some of the signatures are bad.
ProofCreated ==
    (\E p \in Honest : TRUE \in outcome[p]) ~> (\A n \in Node : proofs[n] # {})
============================================================================
