--------------------------- MODULE CoreSelection ---------------------------
(***************************************************************************)
(* What core set selection promises, without its messages.                 *)
(*                                                                         *)
(* An honest party reports nominations until it closes its report; it      *)
(* closes once enough nominations have been reported by enough parties;    *)
(* it selects a core set that covers the closed reports of enough parties. *)
(* A faulty party may claim any report at any time, so it counts wherever  *)
(* a quorum is needed.  Module CSSProtocol implements this specification.  *)
(***************************************************************************)
EXTENDS Committee

CONSTANT Choice

Nomination == Party \X Choice
NominationSet == SUBSET Nomination

VARIABLES
    reported,   \* the nominations each honest party has reported (_iSaw)
    closed,     \* the honest parties that have closed their report
    selected,   \* the honest parties that have selected a core set
    core        \* the core set of each of them

vars == <<reported, closed, selected, core>>

nominators(ns) == {p \in Party : \E c \in Choice : <<p, c>> \in ns}

seers(nom) == {q \in Honest : nom \in reported[q]}

\* the nominations that parties of weight n-t may have reported
ManySeen == {nom \in Nomination : Quorum(Faulty \cup seers(nom))}

MayClose == Quorum(nominators(ManySeen))

\* ns covers the closed reports of parties of weight n-t
MaySelect(ns) == Quorum(Faulty \cup {q \in closed : reported[q] \subseteq ns})

Init ==
    /\ reported = [p \in Honest |-> {}]
    /\ closed = {}
    /\ selected = {}
    /\ core = [p \in Honest |-> {}]

Report(p) ==
    \E ns \in NominationSet :
        /\ reported[p] \subseteq ns
        /\ p \in closed => ns = reported[p]
        /\ reported' = [reported EXCEPT ![p] = ns]

Close(p) ==
    \/ closed' = closed
    \/ MayClose /\ closed' = closed \cup {p}

Select(p) ==
    \/ UNCHANGED <<selected, core>>
    \/ /\ p \notin selected
       /\ selected' = selected \cup {p}
       /\ \E ns \in NominationSet :
             /\ core' = [core EXCEPT ![p] = ns]
             /\ MaySelect(ns)'

\* One handler may report, close and select.
Next == \E p \in Honest : Report(p) /\ Close(p) /\ Select(p)

Spec == Init /\ [][Next]_vars
----------------------------------------------------------------------------
TypeOK ==
    /\ reported \in [Honest -> NominationSet]
    /\ closed \in SUBSET Honest
    /\ selected \in SUBSET Honest
    /\ core \in [Honest -> NominationSet]

\* The nominations in the core sets of all honest parties that have one.
common == {nom \in Nomination : \A p \in selected : nom \in core[p]}

\* The common core: the core sets the honest parties select, at different
\* times and from different reports, share the nominations of parties of
\* weight n-t.  ABBA's agreement rests on it.
CommonCore == selected # {} => Quorum(nominators(common))
============================================================================
