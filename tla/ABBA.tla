-------------------------------- MODULE ABBA --------------------------------
(***************************************************************************)
(* The binary agreement of a finalization round (Afgjort/ABBA.hs), run by  *)
(* all parties of a committee.                                             *)
(*                                                                         *)
(* Core set selection is abstracted to what module CoreSelection shows: in *)
(* every phase there is a common core, which all honest parties' core sets *)
(* contain.  It is picked when the first of them is selected.  Messages    *)
(* are delayed, reordered and duplicated; a message a party sends is       *)
(* looped back to it at the end of the handler.  A faulty party may send   *)
(* FaultyInputs and FaultyDone to any party at any time.                   *)
(*                                                                         *)
(* A lottery ticket is a VRF proof; the party with the highest ticket      *)
(* among the nominators of a core set is any of them.                      *)
(***************************************************************************)
EXTENDS Committee

CONSTANTS
    MaxPhase,       \* the last phase
    FaultyInputs,   \* the Justified messages the faulty parties may send
    FaultyDone      \* the WeAreDone messages the faulty parties may send

Phase == 0 .. MaxPhase
Choice == BOOLEAN
Nomination == Party \X Choice

ASSUME MaxPhaseAssumption == MaxPhase \in Nat
ASSUME FaultyMsgsAssumption ==
    /\ FaultyInputs \subseteq Phase \X Faulty \X Choice
    /\ FaultyDone \subseteq Faulty \X Choice

VARIABLES
    currentPhase,   \* _currentPhase of every honest party
    currentGrade,   \* _currentGrade
    justifiedIn,    \* the choices justified for phase 0 (justifyABBAChoice)
    received,       \* the Justified messages handled, <<phase, party, choice>>
    core,           \* the core set of the current phase, {} before it is selected
    next,           \* the delayed CompletePhase: <<next bit, grade>>, if any
    weAreDone,      \* _topWeAreDone and _botWeAreDone, as <<party, choice>>
    outcome,        \* the choices signalled by aBBAComplete; completed if any
    sent,           \* the Justified messages of honest parties
    sentDone,       \* the WeAreDone messages of honest parties
    common          \* the common core of every phase, {} before there is one

partyVars == <<currentPhase, currentGrade, justifiedIn, received, core, next,
               weAreDone, outcome>>
vars == <<partyVars, sent, sentDone, common>>

nominators(ns) == {p \in Party : \E c \in Choice : <<p, c>> \in ns}
choosers(ns, c) == {p \in Party : <<p, c>> \in ns}

completed(p) == outcome[p] # {}

\* The parties whose Justified k c has been handled by p (inputWeight).
inputs(p, k, c) == {q \in Party : <<k, q, c>> \in received[p]}

\* c is justified as an input of phase k.
phaseJustified(p, k, c) ==
    IF k = 0 THEN c \in justifiedIn[p] ELSE HasHonest(inputs(p, k - 1, c))

\* The justified inputs of phase k that p has.
justifiedInputs(p, k) ==
    {nom \in Nomination : <<k, nom[1], nom[2]>> \in received[p] /\ phaseJustified(p, k, nom[2])}

Init ==
    /\ currentPhase = [p \in Honest |-> 0]
    /\ currentGrade = [p \in Honest |-> 0]
    /\ justifiedIn = [p \in Honest |-> {}]
    /\ received = [p \in Honest |-> {}]
    /\ core = [p \in Honest |-> {}]
    /\ next = [p \in Honest |-> {}]
    /\ weAreDone = [p \in Honest |-> {}]
    /\ outcome = [p \in Honest |-> {}]
    /\ sent = {}
    /\ sentDone = {}
    /\ common = [k \in Phase |-> {}]

justifyABBAChoice(p, c) ==
    /\ ~completed(p)
    /\ justifiedIn' = [justifiedIn EXCEPT ![p] = @ \cup {c}]
    /\ UNCHANGED <<currentPhase, currentGrade, received, core, next, weAreDone,
                   outcome, sent, sentDone, common>>

\* The Justified message m of p is broadcast and, unless p has completed,
\* handled by p itself.
sendJustified(p, m) ==
    /\ sent' = sent \cup {m}
    /\ received' = [received EXCEPT ![p] = IF completed(p) THEN @ ELSE @ \cup {m}]

\* WMVBA calls beginABBA once, with a choice that Freeze has justified.
beginABBA(p, c) ==
    /\ ~completed(p)
    /\ currentPhase[p] = 0
    /\ \A d \in Choice : <<0, p, d>> \notin sent
    /\ c \in justifiedIn[p]
    /\ sendJustified(p, <<0, p, c>>)
    /\ UNCHANGED <<currentPhase, currentGrade, justifiedIn, core, next, weAreDone,
                   outcome, sentDone, common>>

receiveJustified(p, m) ==
    /\ ~completed(p)
    /\ received' = [received EXCEPT ![p] = @ \cup {m}]
    /\ UNCHANGED <<currentPhase, currentGrade, justifiedIn, core, next, weAreDone,
                   outcome, sent, sentDone, common>>

\* CSS of the current phase selects a core set.  It may do so for a completed
\* party, too: beginPhase replays messages without looking at _completed.
selectCoreSet(p) ==
    LET k == currentPhase[p]
        ns == justifiedInputs(p, k)
    IN /\ core[p] = {}
       /\ \/ common[k] # {} /\ common[k] \subseteq ns /\ UNCHANGED common
          \/ /\ common[k] = {}
             /\ \E m \in SUBSET ns :
                   Quorum(nominators(m)) /\ common' = [common EXCEPT ![k] = m]
       /\ core' = [core EXCEPT ![p] = ns]
       /\ UNCHANGED <<currentPhase, currentGrade, justifiedIn, received, next,
                      weAreDone, outcome, sent, sentDone>>

\* csRes: top is looked up first
csRes(ns, q) == <<q, TRUE>> \in ns

\* Mutant: the lottery is held even if only corrupt parties chose one bit.
nextBits_lottery(ns) ==
    LET top == choosers(ns, TRUE)
        bot == choosers(ns, FALSE)
    IN IF bot = {} THEN {<<TRUE, 2>>}
       ELSE IF top = {} THEN {<<FALSE, 2>>}
       ELSE IF Quorum(top) THEN {<<TRUE, 1>>}
       ELSE IF Quorum(bot) THEN {<<FALSE, 1>>}
       ELSE {<<csRes(ns, q), 0>> : q \in nominators(ns)}

\* Mutant: grade 1 is not distinguished.
nextBits_noGrade1(ns) ==
    LET top == choosers(ns, TRUE)
        bot == choosers(ns, FALSE)
    IN IF bot = {} THEN {<<TRUE, 2>>}
       ELSE IF top = {} THEN {<<FALSE, 2>>}
       ELSE IF ~HasHonest(bot) THEN {<<TRUE, 0>>}
       ELSE IF ~HasHonest(top) THEN {<<FALSE, 0>>}
       ELSE {<<csRes(ns, q), 0>> : q \in nominators(ns)}

\* The next bit and grade of a party with core set ns, in the order in which
\* handleCoreSet tries them.  The lottery decides in the last case.
nextBits(ns) ==
    LET top == choosers(ns, TRUE)
        bot == choosers(ns, FALSE)
    IN IF bot = {} THEN {<<TRUE, 2>>}
       ELSE IF top = {} THEN {<<FALSE, 2>>}
       ELSE IF Quorum(top) THEN {<<TRUE, 1>>}
       ELSE IF Quorum(bot) THEN {<<FALSE, 1>>}
       ELSE IF ~HasHonest(bot) THEN {<<TRUE, 0>>}
       ELSE IF ~HasHonest(top) THEN {<<FALSE, 0>>}
       ELSE {<<csRes(ns, q), 0>> : q \in nominators(ns)}

\* The delayed action HandleCoreSet; not guarded by _completed.
handleCoreSet(p) ==
    /\ core[p] # {} /\ next[p] = {}
    /\ currentPhase[p] < MaxPhase
    /\ \E r \in nextBits(core[p]) :
          /\ next' = [next EXCEPT ![p] = {r}]
          /\ sendJustified(p, <<currentPhase[p] + 1, p, r[1]>>)
    /\ UNCHANGED <<currentPhase, currentGrade, justifiedIn, core, weAreDone,
                   outcome, sentDone, common>>

\* Mutant: corruptWeight is enough to complete.
addWeAreDone_weak(p, src, c) ==
    LET new == choosers(weAreDone[p], c) \cup {src}
    IN /\ weAreDone' = [weAreDone EXCEPT ![p] = @ \cup {<<src, c>>}]
       /\ outcome' = [outcome EXCEPT ![p] =
             IF Weight[new] >= corruptWeight THEN @ \cup {c} ELSE @]

\* p handles the message WeAreDone c of src.
addWeAreDone(p, src, c) ==
    LET old == choosers(weAreDone[p], c)
    IN /\ weAreDone' = [weAreDone EXCEPT ![p] = @ \cup {<<src, c>>}]
       /\ outcome' = [outcome EXCEPT ![p] =
             IF Quorum(old \cup {src}) /\ ~Quorum(old) THEN @ \cup {c} ELSE @]

\* p broadcasts WeAreDone c and, unless it has completed, handles it itself.
sendWeAreDone(p, c) ==
    /\ sentDone' = sentDone \cup {<<p, c>>}
    /\ IF completed(p) THEN UNCHANGED <<weAreDone, outcome>>
       ELSE addWeAreDone(p, p, c)

closesDown(p, r) == r[2] = 2 /\ currentGrade[p] # 2

\* The delayed action CompletePhase; not guarded by _completed either.
completePhase(p) ==
    \E r \in next[p] :
        /\ currentGrade' = [currentGrade EXCEPT ![p] = r[2]]
        /\ IF closesDown(p, r) THEN sendWeAreDone(p, r[1])
           ELSE UNCHANGED <<sentDone, weAreDone, outcome>>
        /\ currentPhase' = [currentPhase EXCEPT ![p] = @ + 1]
        /\ core' = [core EXCEPT ![p] = {}]
        /\ next' = [next EXCEPT ![p] = {}]
        /\ UNCHANGED <<justifiedIn, received, sent, common>>

receiveWeAreDone(p, src, c) ==
    /\ ~completed(p)
    /\ addWeAreDone(p, src, c)
    /\ UNCHANGED <<currentPhase, currentGrade, justifiedIn, received, core, next,
                   sent, sentDone, common>>

Next ==
    \E p \in Honest :
        \/ \E c \in Choice : justifyABBAChoice(p, c)
        \/ \E c \in Choice : beginABBA(p, c)
        \/ \E m \in sent \cup FaultyInputs : receiveJustified(p, m)
        \/ selectCoreSet(p)
        \/ handleCoreSet(p)
        \/ completePhase(p)
        \/ \E m \in sentDone \cup FaultyDone : receiveWeAreDone(p, m[1], m[2])

Spec == Init /\ [][Next]_vars
----------------------------------------------------------------------------
TypeOK ==
    /\ currentPhase \in [Honest -> Phase]
    /\ currentGrade \in [Honest -> 0 .. 2]
    /\ justifiedIn \in [Honest -> SUBSET Choice]
    /\ received \in [Honest -> SUBSET (Phase \X Party \X Choice)]
    /\ core \in [Honest -> SUBSET Nomination]
    /\ next \in [Honest -> SUBSET (Choice \X (0 .. 2))]
    /\ weAreDone \in [Honest -> SUBSET Nomination]
    /\ outcome \in [Honest -> SUBSET Choice]
    /\ sent \in SUBSET (Phase \X Honest \X Choice)
    /\ sentDone \in SUBSET (Honest \X Choice)
    /\ common \in [Phase -> SUBSET Nomination]

\* ABBA's agreement: no two honest parties complete with different choices,
\* and none of them with both.
Agreement ==
    \A p, q \in Honest : \A c \in outcome[p], d \in outcome[q] : c = d

\* The graded agreement that Agreement rests on: once a party has attained
\* grade 2 for a bit, every honest party enters every later phase with that
\* bit, even when a new core set takes its grade back to 1 or 0.
GradedAgreement ==
    \A p, q \in Honest : \A r \in next[p], k \in Phase, c \in Choice :
        r[2] = 2 /\ k > currentPhase[p] /\ <<k, q, c>> \in sent => c = r[1]

\* WEAREDONE is sent for one bit only, although a party sends it each time its
\* grade becomes 2 again.
WeAreDoneOnce ==
    \A p, q \in Honest : \A c, d \in Choice :
        <<p, c>> \in sentDone /\ <<q, d>> \in sentDone => c = d

\* The bit an honest party enters a phase with was the input of some honest
\* party: neither the core sets nor the lottery let corrupt parties bring in
\* a bit of their own.
Validity ==
    \A m \in sent : \E q \in Honest : <<0, q, m[3]>> \in sent

\* Mutant: the weights are compared the wrong way round.
abbaOutcome_swapped(p) ==
    Weight[choosers(weAreDone[p], FALSE)] >= Weight[choosers(weAreDone[p], TRUE)]

\* The getter abbaOutcome recomputes the outcome from the WeAreDone sets.
abbaOutcome(p) ==
    Weight[choosers(weAreDone[p], TRUE)] >= Weight[choosers(weAreDone[p], FALSE)]

\* abbaOutcome, which only compares the weights of the two WeAreDone sets,
\* gives the choice that aBBAComplete has signalled.
OutcomeRecomputed ==
    \A p \in Honest : completed(p) => outcome[p] = {abbaOutcome(p)}
============================================================================
