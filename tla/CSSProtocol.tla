---------------------------- MODULE CSSProtocol ----------------------------
(***************************************************************************)
(* One instance of core set selection, run by all parties of a committee   *)
(* over a network that delays, reorders and duplicates messages: one phase *)
(* of ABBA, which feeds it inputs and justified choices (Afgjort/ABBA.hs,  *)
(* the lift* functions and handleCSSEvents).                               *)
(*                                                                         *)
(* A message a party sends is looped back to it at the end of the handler. *)
(* The delay before finishReporting is any time: it is zero in phase 0 and *)
(* a timer in later phases.  In a behaviour the faulty parties may send    *)
(* any message of one set of Faults at any time, to some parties and not   *)
(* to others; what an honest party has recorded is relayed to all.         *)
(***************************************************************************)
EXTENDS CSS, SequencesExt

CONSTANTS
    Justifiable,    \* the choices that can be justified in this phase
    Faults          \* the sets of messages the faulty parties may send

ASSUME JustifiableAssumption == Justifiable \subseteq Choice

ASSUME FaultsAssumption ==
    Faults \subseteq SUBSET {m \in CSSMessage : m.src \in Faulty}

VARIABLES
    cs,     \* the CSSState of every honest party
    sent,   \* the messages the honest parties have broadcast
    handled,\* the messages every honest party has handled
    faults  \* the set of Faults of this behaviour

vars == <<cs, sent, handled, faults>>

Init ==
    /\ cs = [p \in Honest |-> initialCSSState]
    /\ sent = {}
    /\ handled = [p \in Honest |-> {}]
    /\ faults \in Faults

\* The messages the handler has sent are received by the party itself.
loopBack(st, me) ==
    FoldLeft(LAMBDA s, m : receiveCSSMessage(s, me, m),
             [st EXCEPT !.out = <<>>], st.out)

\* handleCSSEvents at the end of p's handler, which was called for a message
\* of msgs, if any.  p's own messages are handled as they are looped back.
handleCSSEvents(p, st, msgs) ==
    /\ cs' = [cs EXCEPT ![p] = loopBack(st, p)]
    /\ sent' = sent \cup Range(st.out) \cup {m \in msgs : m.src = p}
    /\ handled' = [handled EXCEPT ![p] = @ \cup Range(st.out) \cup msgs]
    /\ UNCHANGED faults

JustifyChoice(p, c) ==
    /\ c \in Justifiable \ cs[p].justified
    /\ handleCSSEvents(p, justifyChoice(cs[p], p, c), {})

\* beginPhase: ABBA enters the phase with a choice that is justified
BeginPhase(p, c) ==
    /\ \A d \in Choice : Input(p, d) \notin sent
    /\ c \in cs[p].justified
    /\ handleCSSEvents(p, receiveCSSMessage(cs[p], p, Input(p, c)), {Input(p, c)})

FinishReporting(p) ==
    /\ cs[p].wait
    /\ handleCSSEvents(p, finishReporting([cs[p] EXCEPT !.wait = FALSE], p), {})

\* savePendingMessage: a duplicate is not handled again.  (Nor does a complete
\* party handle any message: receiveCSSMessage would not change anything.)
Receive(p, m) ==
    /\ m \notin handled[p]
    /\ ~cs[p].complete
    /\ handleCSSEvents(p, receiveCSSMessage(cs[p], p, m), {m})

Next ==
    \E p \in Honest :
        \/ \E c \in Justifiable : JustifyChoice(p, c)
        \/ \E c \in Choice : BeginPhase(p, c)
        \/ FinishReporting(p)
        \/ \E m \in sent \cup faults : Receive(p, m)

Spec == Init /\ [][Next]_vars

\* The messages that reach every honest party: the honest parties' own, and
\* what an honest party has received from a faulty one.
relayed == sent \cup UNION {handled[q] : q \in Honest}

\* What p must do in the end: join the phase, justify what another honest
\* party has found justified, handle every message, let its timer expire.
Step(p) ==
    \/ \E c \in Justifiable, q \in Honest : c \in cs[q].justified /\ JustifyChoice(p, c)
    \/ \E c \in Choice : BeginPhase(p, c)
    \/ FinishReporting(p)
    \/ \E m \in relayed : Receive(p, m)

\* Step(p) can change something
Pending(p) ==
    \/ \E q \in Honest : ~(cs[q].justified \subseteq cs[p].justified)
    \/ cs[p].justified # {} /\ \A c \in Choice : Input(p, c) \notin sent
    \/ cs[p].wait
    \/ ~cs[p].complete /\ relayed # handled[p]

\* Weak fairness of Step(p), with its enabling condition written out, and some
\* choice is justified somewhere: Freeze has an outcome, or the last phase a
\* core set.  Messages are relayed and replayed by catch-up, which is also why
\* a justified choice is justified for every party in the end.
Fairness ==
    /\ \A p \in Honest : ([]<>~Pending(p)) \/ []<><<Step(p)>>_vars
    /\ <>(\E p \in Honest : cs[p].justified # {})

FairSpec == Spec /\ Fairness
----------------------------------------------------------------------------
TypeOK ==
    /\ cs \in [Honest -> CSSState]
    /\ sent \in SUBSET CSSMessage
    /\ handled \in [Honest -> SUBSET CSSMessage]
    /\ faults \in Faults
    /\ \A p \in Honest : cs[p].out = <<>>

\* What a party has reported, whether it still does, and its core set, are
\* the state of the abstract specification.
CS == INSTANCE CoreSelection WITH
    reported <- [p \in Honest |-> cs[p].iSaw],
    closed <- {p \in Honest : ~cs[p].report},
    selected <- {p \in Honest : cs[p].complete},
    core <- [p \in Honest |-> cs[p].core]

\* Core set selection implements CoreSelection, and so has a common core: each
\* handler reports, closes the report or selects a core set only when the
\* honest parties' reports allow it, whatever order the Input, Seen and
\* DoneReporting messages and the justified choices come in.
ImplementsCoreSelection == CS!Spec

\* No wake-up is lost: a DoneReporting message waits only under a nomination
\* for which its sender's Seen message, the nominator's Input or the choice is
\* still missing, in whichever order the three arrive.
NoLostWakeup ==
    \A p \in Honest : \A e \in cs[p].unjustifiedDoneReporting :
        ~sawJustified(cs[p], e.party, e.at)

\* The invariant stated with CSSState on the report stage: while reporting,
\* every party with a justified input has an entry in iSaw; every entry is a
\* justified input, and there is one per party.
ReportInvariant ==
    \A p \in Honest :
        LET st == cs[p]
        IN /\ st.report => nominators(st.iSaw) = nominators(justifiedInputs(st))
           /\ st.iSaw \subseteq justifiedInputs(st)
           /\ \A m, n \in st.iSaw : m[1] = n[1] => m = n

\* Every honest party selects a core set.
Termination == <>(\A p \in Honest : cs[p].complete)
============================================================================
