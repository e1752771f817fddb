------------------------ MODULE CoreSelectionProofs ------------------------
(***************************************************************************)
(* Core set selection has a common core, in every committee whose corrupt  *)
(* weight is bounded.                                                      *)
(*                                                                         *)
(* The argument: once a party has closed its report, MayClose holds for    *)
(* good, because reports only grow; and a selected core set keeps covering *)
(* the closed reports of a quorum, because closed reports do not change.   *)
(* A nomination that a quorum has reported and a core set that covers the  *)
(* reports of a quorum meet in an honest party.                            *)
(***************************************************************************)
EXTENDS CoreSelection, CommitteeProofs

CoreInv ==
    /\ TypeOK
    /\ closed # {} => MayClose
    /\ \A p \in selected : MaySelect(core[p])

\* The initial state: nothing is closed or selected.
LEMMA InitCoreInv == Init => CoreInv
  BY DEF Init, CoreInv, TypeOK, NominationSet

\* A step keeps the types.
LEMMA NextType == TypeOK /\ [Next]_vars => TypeOK'
  <1> SUFFICES ASSUME TypeOK, [Next]_vars
               PROVE  TypeOK'
    OBVIOUS
  <1>1. CASE UNCHANGED vars
    BY <1>1 DEF vars, TypeOK
  <1>2. ASSUME NEW p \in Honest, Report(p), Close(p), Select(p)
        PROVE  TypeOK'
    <2>1. reported' \in [Honest -> NominationSet]
      BY <1>2 DEF TypeOK, Report
    <2>2. closed' \in SUBSET Honest
      BY <1>2 DEF TypeOK, Close
    <2>3. selected' \in SUBSET Honest
      BY <1>2 DEF TypeOK, Select
    <2>4. core' \in [Honest -> NominationSet]
      BY <1>2 DEF TypeOK, Select
    <2> QED
      BY <2>1, <2>2, <2>3, <2>4 DEF TypeOK
  <1> QED
    BY <1>1, <1>2 DEF Next

\* Reports only grow, and a closed report no more: a handler changes the report
\* of its own party only, and adds to it only in the report phase.
LEMMA ReportsGrow ==
    ASSUME TypeOK, [Next]_vars
    PROVE  /\ \A q \in Honest : reported[q] \subseteq reported'[q]
           /\ \A q \in closed : reported'[q] = reported[q]
           /\ closed \subseteq closed'
  <1>1. CASE UNCHANGED vars
    BY <1>1 DEF vars
  <1>2. ASSUME NEW p \in Honest, Report(p), Close(p), Select(p)
        PROVE  /\ \A q \in Honest : reported[q] \subseteq reported'[q]
               /\ \A q \in closed : reported'[q] = reported[q]
               /\ closed \subseteq closed'
    <2>1. PICK ns \in NominationSet :
             /\ reported[p] \subseteq ns
             /\ p \in closed => ns = reported[p]
             /\ reported' = [reported EXCEPT ![p] = ns]
      BY <1>2 DEF Report
    <2>2. closed \subseteq Honest /\ closed \subseteq closed'
      BY <1>2 DEF Close, TypeOK
    <2> QED
      BY <2>1, <2>2 DEF TypeOK
  <1> QED
    BY <1>1, <1>2 DEF Next

\* Enough nominations stay reported by enough parties.
LEMMA MayCloseStable ==
    ASSUME TypeOK, [Next]_vars, MayClose
    PROVE  MayClose'
  <1>1. \A q \in Honest : reported[q] \subseteq reported'[q]
    BY ReportsGrow
  <1>2. ASSUME NEW nom \in ManySeen
        PROVE  nom \in ManySeen'
    <2>1. seers(nom) \subseteq seers(nom)' /\ seers(nom)' \subseteq Honest
      BY <1>1 DEF seers
    <2>2. /\ Faulty \cup seers(nom) \in SUBSET (Faulty \cup seers(nom)')
          /\ Faulty \cup seers(nom)' \in SUBSET Party
      BY <2>1, HonestParty
    <2>3. Quorum(Faulty \cup seers(nom)) /\ nom \in Nomination
      BY <1>2 DEF ManySeen
    <2>4. Quorum(Faulty \cup seers(nom)')
      BY <2>2, <2>3, QuorumMonotone
    <2> QED
      BY <2>3, <2>4 DEF ManySeen, Quorum
  <1>3. /\ nominators(ManySeen) \in SUBSET nominators(ManySeen')
        /\ nominators(ManySeen') \in SUBSET Party
    BY <1>2 DEF nominators
  <1>4. Quorum(nominators(ManySeen'))
    BY <1>3, QuorumMonotone DEF MayClose
  <1> QED
    BY <1>4 DEF MayClose

\* A set of nominations that covers the closed reports of a quorum keeps
\* covering them.
LEMMA MaySelectStable ==
    ASSUME TypeOK, [Next]_vars, NEW ns \in NominationSet, MaySelect(ns)
    PROVE  MaySelect(ns)'
  <1> DEFINE C == {q \in closed : reported[q] \subseteq ns}
             D == {q \in closed' : reported'[q] \subseteq ns}
  <1>1. C \subseteq D
    BY ReportsGrow
  <1>2. D \subseteq Honest
    BY NextType DEF TypeOK
  <1>3. Faulty \cup C \in SUBSET (Faulty \cup D) /\ Faulty \cup D \in SUBSET Party
    BY <1>1, <1>2, HonestParty
  <1>4. Quorum(Faulty \cup C)
    BY DEF MaySelect
  <1>5. Quorum(Faulty \cup D)
    BY <1>3, <1>4, QuorumMonotone
  <1> QED
    BY <1>5 DEF MaySelect

\* Every step keeps the inductive invariant.
LEMMA NextCoreInv == CoreInv /\ [Next]_vars => CoreInv'
  <1> SUFFICES ASSUME CoreInv, [Next]_vars
               PROVE  CoreInv'
    OBVIOUS
  <1>1. TypeOK /\ TypeOK'
    BY NextType DEF CoreInv
  <1>2. closed' # {} => MayClose'
    <2>1. MayClose \/ closed' = closed
      BY DEF Next, Close, vars
    <2> QED
      BY <1>1, <2>1, MayCloseStable DEF CoreInv
  <1>3. ASSUME NEW p \in selected'
        PROVE  MaySelect(core[p])'
    <2>1. CASE p \in selected /\ core'[p] = core[p]
      <3>1. core[p] \in NominationSet /\ MaySelect(core[p])
        BY <1>1, <2>1 DEF TypeOK, CoreInv
      <3>2. MaySelect(core[p])' <=> Quorum(Faulty \cup {q \in closed' : reported'[q] \subseteq core[p]})
        BY <2>1 DEF MaySelect, Quorum
      <3>3. ASSUME NEW ns \in NominationSet, ns = core[p]
            PROVE  Quorum(Faulty \cup {q \in closed' : reported'[q] \subseteq ns})
        <4>1. MaySelect(ns)
          BY <3>1, <3>3
        <4>2. MaySelect(ns)'
          BY <1>1, <4>1, MaySelectStable
        <4> QED
          BY <4>2 DEF MaySelect, Quorum
      <3> QED
        BY <3>1, <3>2, <3>3
    <2>2. CASE ~(p \in selected /\ core'[p] = core[p])
      <3>1. PICK r \in Honest : Select(r) /\ ~UNCHANGED <<selected, core>>
        BY <1>3, <2>2 DEF Next, vars
      <3>2. PICK ns \in NominationSet :
               core' = [core EXCEPT ![r] = ns] /\ MaySelect(ns)'
        BY <3>1 DEF Select
      <3>3. selected' = selected \cup {r} /\ r \notin selected
        BY <3>1 DEF Select
      <3>4. p = r
        BY <1>1, <1>3, <2>2, <3>2, <3>3 DEF TypeOK
      <3>5. core'[p] = ns
        BY <1>1, <3>2, <3>4 DEF TypeOK
      <3> QED
        BY <3>2, <3>5 DEF MaySelect, Quorum
    <2> QED
      BY <2>1, <2>2
  <1> QED
    BY <1>1, <1>2, <1>3 DEF CoreInv

\* A nomination that a quorum may have reported is in every selected core set.
LEMMA ManySeenSelected ==
    ASSUME CoreInv, NEW p \in selected, NEW nom \in ManySeen
    PROVE  nom \in core[p]
  <1> DEFINE D == {q \in closed : reported[q] \subseteq core[p]}
  <1>1. Quorum(Faulty \cup D) /\ Quorum(Faulty \cup seers(nom))
    BY DEF CoreInv, MaySelect, ManySeen
  <1>2. Faulty \cup D \in SUBSET Party /\ Faulty \cup seers(nom) \in SUBSET Party
    BY HonestParty DEF CoreInv, TypeOK, seers
  <1>3. PICK h \in Honest : h \in Faulty \cup D /\ h \in Faulty \cup seers(nom)
    BY <1>1, <1>2, QuorumIntersection
  <1>4. h \in D /\ h \in seers(nom)
    BY <1>3 DEF Honest
  <1> QED
    BY <1>4 DEF seers

\* The inductive invariant gives the common core.
LEMMA CoreInvCommon == CoreInv => CommonCore
  <1> SUFFICES ASSUME CoreInv, NEW p \in selected
               PROVE  Quorum(nominators(common))
    BY DEF CommonCore
  <1>1. closed # {}
    <2>1. SUFFICES ASSUME closed = {}
                   PROVE  FALSE
      OBVIOUS
    <2>2. Quorum(Faulty)
      <3>1. Faulty \cup {q \in closed : reported[q] \subseteq core[p]} = Faulty
        BY <2>1
      <3> QED
        BY <3>1 DEF CoreInv, MaySelect
    <2>3. Faulty \in SUBSET Party
      BY HonestParty
    <2>4. \E h \in Honest : h \in Faulty
      BY <2>2, <2>3, QuorumIntersection
    <2> QED
      BY <2>4 DEF Honest
  <1>2. Quorum(nominators(ManySeen))
    BY <1>1 DEF CoreInv, MayClose
  <1>3. ManySeen \subseteq common
    BY ManySeenSelected DEF common, ManySeen
  <1>4. nominators(ManySeen) \in SUBSET nominators(common) /\ nominators(common) \in SUBSET Party
    BY <1>3 DEF nominators
  <1> QED
    BY <1>2, <1>4, QuorumMonotone

\* Core set selection has a common core: the core sets that honest parties
\* select share the nominations of parties of weight n-t, in every committee.
THEOREM CommonCoreSelected == Spec => []CommonCore
  BY InitCoreInv, NextCoreInv, CoreInvCommon, PTL DEF Spec
============================================================================
