-------------------------------- MODULE CSS --------------------------------
(***************************************************************************)
(* Core set selection (Afgjort/CSS.hs), as one party runs it: the handlers *)
(* are operators from a party's state to its new state.                    *)
(*                                                                         *)
(* A nomination is a pair <<party, choice>>.  inputTop and inputBot are    *)
(* one set of nominations, sawTop and sawBot one set of pairs              *)
(* <<seer, nomination>>, and a NominationSet is a set of nominations.      *)
(* _sawMessages and the signatures only serve catch-up and are left out;   *)
(* _iSawWeight is the weight of the nominators in iSaw.                    *)
(***************************************************************************)
EXTENDS Committee, Sequences, Folds

\* parties are numbered: nomination sets are walked in the order of Party
ASSUME PartyOrderAssumption == Party \subseteq Nat

Choice == BOOLEAN
Nomination == Party \X Choice
NominationSet == SUBSET Nomination

CSSMessage ==
    [type : {"Input", "Seen", "DoneReporting"}, src : Party, ns : NominationSet]

Input(p, c) == [type |-> "Input", src |-> p, ns |-> {<<p, c>>}]
Seen(p, ns) == [type |-> "Seen", src |-> p, ns |-> ns]
DoneReporting(p, ns) == [type |-> "DoneReporting", src |-> p, ns |-> ns]

CSSState ==
    [report : BOOLEAN,
     justified : SUBSET Choice,
     input : NominationSet,
     saw : SUBSET (Party \X Nomination),
     iSaw : NominationSet,
     manySaw : SUBSET Party,
     unjustifiedDoneReporting :
         SUBSET [at : Nomination, party : Party, remainder : NominationSet],
     justifiedDoneReporting : SUBSET Party,
     complete : BOOLEAN,    \* isJust _core
     core : NominationSet,
     wait : BOOLEAN,        \* the event WaitThenFinishReporting is pending
     out : Seq(CSSMessage)] \* the events SendCSSMessage, in order

initialCSSState ==
    [report |-> TRUE, justified |-> {}, input |-> {}, saw |-> {}, iSaw |-> {},
     manySaw |-> {}, unjustifiedDoneReporting |-> {},
     justifiedDoneReporting |-> {}, complete |-> FALSE, core |-> {},
     wait |-> FALSE, out |-> <<>>]

nominators(ns) == {nom[1] : nom \in ns}

seers(st, nom) == {p \in Party : <<p, nom>> \in st.saw}

\* the order of nominationSetToList: the nominations of top, then of bottom
precedes(m, n) == (m[2] /\ ~n[2]) \/ (m[2] = n[2] /\ m[1] < n[1])
firstOf(ns) == CHOOSE m \in ns : \A n \in ns \ {m} : precedes(m, n)
lastOf(ns) == CHOOSE m \in ns : \A n \in ns \ {m} : precedes(n, m)

\* forM_ over the nominations ns in order, from the state st
forEach(op(_, _), st, ns) ==
    MapThenFoldSet(op, st, LAMBDA nom : nom, lastOf, ns)

sawJustified(st, seer, nom) ==
    nom[2] \in st.justified /\ nom \in st.input /\ <<seer, nom>> \in st.saw

addManySaw(st, p) ==
    LET many == st.manySaw \cup {p}
    IN [st EXCEPT !.manySaw = many,
                  !.wait = @ \/ (Quorum(many) /\ ~Quorum(st.manySaw))]

\* Mutant: the report phase is left open.
finishReporting_open(st, me) ==
    IF ~st.report THEN st
    ELSE [st EXCEPT !.out = Append(@, DoneReporting(me, st.iSaw))]

finishReporting(st, me) ==
    IF ~st.report THEN st
    ELSE [st EXCEPT !.report = FALSE,
                    !.out = Append(@, DoneReporting(me, st.iSaw))]

justifiedInputs(st) == {nom \in st.input : nom[2] \in st.justified}

\* handleDoneReporting of an empty list: the message is fully justified
doneReportingJustified(st, p) ==
    LET done == st.justifiedDoneReporting \cup {p}
    IN IF p \in st.justifiedDoneReporting THEN st
       ELSE [st EXCEPT !.justifiedDoneReporting = done,
                       !.complete = @ \/ Quorum(done),
                       !.core = IF Quorum(done) /\ ~st.complete
                                THEN justifiedInputs(st) ELSE @]

\* A DoneReporting message waits under the first of its nominations that is
\* not justified, in place of an earlier message of p that waits there.
handleDoneReporting(st, p, ns) ==
    LET unjustified == {nom \in ns : ~sawJustified(st, p, nom)}
        sc == firstOf(unjustified)
    IN IF unjustified = {} THEN doneReportingJustified(st, p)
       ELSE [st EXCEPT !.unjustifiedDoneReporting =
                {e \in @ : <<e.at, e.party>> # <<sc, p>>}
                    \cup {[at |-> sc, party |-> p,
                           remainder |-> {nom \in ns : precedes(sc, nom)}]}]

\* The messages of parties ps that wait under nom are taken out and handled.
resumeDoneReporting(st, nom, ps) ==
    LET js == {e \in st.unjustifiedDoneReporting : e.at = nom /\ e.party \in ps}
        rest == [st EXCEPT !.unjustifiedDoneReporting = @ \ js]
        resume(e, s) == handleDoneReporting(s, e.party, e.remainder)
        greatest(es) == CHOOSE e \in es : \A f \in es : f.party <= e.party
    IN MapThenFoldSet(resume, rest, LAMBDA e : e, greatest, js)

\* Mutant: Seen is sent before the nomination is added to iSaw.
reportNomination_late(st, me, nom) ==
    IF ~st.report \/ nom[1] \in nominators(st.iSaw) THEN st
    ELSE [st EXCEPT !.iSaw = @ \cup {nom},
                    !.out = IF Quorum(nominators(st.iSaw))
                            THEN Append(@, Seen(me, st.iSaw)) ELSE @]

\* Mutant: a second, conflicting nomination of a party is reported too.
reportNomination_again(st, me, nom) ==
    LET iSaw == st.iSaw \cup {nom}
    IN IF ~st.report \/ nom \in st.iSaw THEN st
       ELSE [st EXCEPT !.iSaw = iSaw,
                       !.out = IF Quorum(nominators(iSaw))
                               THEN Append(@, Seen(me, iSaw)) ELSE @]

\* Report the first justified nomination of its party.
reportNomination(st, me, nom) ==
    LET iSaw == st.iSaw \cup {nom}
    IN IF ~st.report \/ nom[1] \in nominators(st.iSaw) THEN st
       ELSE [st EXCEPT !.iSaw = iSaw,
                       !.out = IF Quorum(nominators(iSaw))
                               THEN Append(@, Seen(me, iSaw)) ELSE @]

\* Mutant: waiting DoneReporting messages are forgotten.
justifyNomination_noResume(st, me, nom) ==
    LET st1 == reportNomination(st, me, nom)
    IN IF Quorum(seers(st1, nom)) THEN addManySaw(st1, nom[1]) ELSE st1

justifyNomination(st, me, nom) ==
    LET st1 == reportNomination(st, me, nom)
        st2 == IF Quorum(seers(st1, nom)) THEN addManySaw(st1, nom[1]) ELSE st1
    IN resumeDoneReporting(st2, nom, seers(st2, nom))

\* Not guarded by unlessComplete.
justifyChoice(st, me, c) ==
    LET justify(nom, s) == justifyNomination(s, me, nom)
        inputs == {nom \in st.input : nom[2] = c}
    IN IF c \in st.justified THEN st
       ELSE forEach(justify, [st EXCEPT !.justified = @ \cup {c}], inputs)

receiveInput(st, me, nom) ==
    LET st1 == [st EXCEPT !.input = @ \cup {nom}]
    IN IF nom[2] \in st.justified THEN justifyNomination(st1, me, nom) ELSE st1

receiveSeen(st, src, ns) ==
    LET see(nom, s) ==
            LET s1 == [s EXCEPT !.saw = @ \cup {<<src, nom>>}]
                s2 == IF Quorum(seers(s1, nom)) THEN addManySaw(s1, nom[1]) ELSE s1
            IN IF <<src, nom>> \in s.saw THEN s
               ELSE IF sawJustified(s1, src, nom)
                    THEN resumeDoneReporting(s2, nom, {src})
                    ELSE s1
    IN forEach(see, st, ns)

receiveCSSMessage(st, me, m) ==
    CASE st.complete -> st
      [] ~st.complete /\ m.type = "Input" -> receiveInput(st, me, CHOOSE nom \in m.ns : TRUE)
      [] ~st.complete /\ m.type = "Seen" -> receiveSeen(st, m.src, m.ns)
      [] ~st.complete /\ m.type = "DoneReporting" -> handleDoneReporting(st, m.src, m.ns)
============================================================================
