------------------------- MODULE FinalizationQueue -------------------------
(***************************************************************************)
(* The queue of finalization records that are not yet settled, i.e. not    *)
(* included in a finalized block (Afgjort/FinalizationQueue.hs), of one    *)
(* node, driven by the handlers of Afgjort/Finalize.hs that use it.        *)
(*                                                                         *)
(* An individual witness signature is a record of its party and whether it *)
(* verifies.  An aggregate signature is the set of parties whose valid     *)
(* signatures it sums up; it verifies for a set of parties iff it is that  *)
(* set.  The block, the delay and the committee of a record are functions  *)
(* of its finalization index and left out.                                 *)
(***************************************************************************)
EXTENDS Committee, Sequences

CONSTANTS
    Proofs,     \* the sets of parties that sign the proofs that arrive
    Signature,  \* the witness signatures that arrive
    MaxIndex,   \* bound: the last finalization index that is reached
    MaxLag      \* bound: how far below the settled index a peer may be

\* A proof that is accepted has been checked; an honest party's signature verifies.
ASSUME ProofsAssumption == \A ps \in Proofs : ps \subseteq Party /\ HasHonest(ps)
ASSUME SignatureAssumption ==
    /\ Signature \subseteq [party : Party, valid : BOOLEAN]
    /\ \A s \in Signature : s.party \in Honest => s.valid
ASSUME BoundAssumption == MaxIndex \in Nat \ {0} /\ MaxLag \in Nat

Index == 1 .. MaxIndex

signers(sigs) == {s.party : s \in sigs}

FinalizationProven ==
    [fpIndex : Index,
     fpCheckedSignatures : SUBSET Party,
     fpCheckedSignatureSet : SUBSET Party,
     fpUncheckedSignatures : SUBSET Signature,
     fpUncheckedSignatureSet : SUBSET Party,
     fpBadSignatureSet : SUBSET Party,
     fpCheckedAggregateSet : SUBSET Party,
     fpCheckedAggregateSignature : SUBSET Party]

VARIABLES
    fqFirstIndex,
    fqProofs,
    finIndex,       \* the index that is being finalized
    settled,        \* the index of the last finalized block's last finalized block
    stored,         \* the proof parties of the records in the block database
    got             \* the proof parties of the last record handed out, by index

queue == <<fqFirstIndex, fqProofs>>
vars == <<fqFirstIndex, fqProofs, finIndex, settled, stored, got>>

newFinalizationProvenWithWitnesses(i, ps, unknown, bad) ==
    [fpIndex |-> i,
     fpCheckedSignatures |-> {},
     fpCheckedSignatureSet |-> {},
     fpUncheckedSignatures |-> unknown,
     fpUncheckedSignatureSet |-> signers(unknown),
     fpBadSignatureSet |-> bad,
     fpCheckedAggregateSet |-> ps,
     fpCheckedAggregateSignature |-> ps]

newFinalizationProven(i, ps) == newFinalizationProvenWithWitnesses(i, ps, {}, {})

fpAddUncheckedSignature(fp, sig) ==
    IF sig.party \in fp.fpCheckedSignatureSet \cup fp.fpBadSignatureSet THEN fp
    ELSE [fp EXCEPT !.fpUncheckedSignatures = {s \in @ : s.party # sig.party} \cup {sig},
                    !.fpUncheckedSignatureSet = @ \cup {sig.party}]

\* Mutant: the aggregate with more signatures wins.
fpAddCheckedAggregate_bigger(fp, ps) ==
    IF Cardinality(ps) > Cardinality(fp.fpCheckedAggregateSet)
    THEN [fp EXCEPT !.fpCheckedAggregateSet = ps, !.fpCheckedAggregateSignature = ps]
    ELSE fp

\* Mutant: the aggregate signature is not replaced together with its parties.
fpAddCheckedAggregate_setonly(fp, ps) ==
    IF fp.fpCheckedAggregateSet \subseteq ps
    THEN [fp EXCEPT !.fpCheckedAggregateSet = ps]
    ELSE fp

\* The six cases of the code are three comparisons, each with one more set of
\* signatures that will be added anyway.
fpAddCheckedAggregate(fp, ps) ==
    LET old == fp.fpCheckedAggregateSet
        checked == fp.fpCheckedSignatureSet
        all == checked \cup fp.fpUncheckedSignatureSet
        keeps(with) == (ps \cup with) \subseteq (old \cup with)
        gains(with) == (old \cup with) \subseteq (ps \cup with)
    IN IF \/ ~keeps({}) /\ gains({})
          \/ ~keeps({}) /\ ~keeps(checked) /\ gains(checked)
          \/ ~keeps({}) /\ ~keeps(checked) /\ ~keeps(all) /\ gains(all)
       THEN [fp EXCEPT !.fpCheckedAggregateSet = ps, !.fpCheckedAggregateSignature = ps]
       ELSE fp

\* The signatures that could usefully be added are checked.  The test "done" is
\* never true: committeeMaxParty is one more than the last party's number, so
\* it asks for a signature of a party that does not exist.
fpGetProof(fp) ==
    LET aggSet == fp.fpCheckedAggregateSet
        aggPlusCheckedSet == aggSet \cup fp.fpCheckedSignatureSet
        aggPlusChecked == fp.fpCheckedAggregateSignature
                              \cup (fp.fpCheckedSignatures \ aggSet)
        useful == fp.fpUncheckedSignatureSet \ aggSet # {}
        candidates == {s \in fp.fpUncheckedSignatures : useful /\ s.party \notin aggPlusCheckedSet}
        stillUncheckedSet == IF useful THEN fp.fpUncheckedSignatureSet \cap aggPlusCheckedSet
                             ELSE fp.fpUncheckedSignatureSet
        culprits == {s.party : s \in {c \in candidates : ~c.valid}}
        acsMap == signers(candidates) \ culprits
        acsSet == IF candidates = {} THEN {}
                  ELSE IF culprits = {} THEN fp.fpUncheckedSignatureSet \ stillUncheckedSet
                  ELSE fp.fpUncheckedSignatureSet \ culprits
    IN [fp EXCEPT
           !.fpCheckedSignatures = @ \cup acsMap,
           !.fpCheckedSignatureSet = @ \cup acsSet,
           !.fpUncheckedSignatures = @ \ candidates,
           !.fpUncheckedSignatureSet = stillUncheckedSet,
           !.fpBadSignatureSet = @ \cup culprits,
           !.fpCheckedAggregateSet = aggPlusCheckedSet \cup acsSet,
           !.fpCheckedAggregateSignature =
               IF acsSet = {} THEN aggPlusChecked ELSE aggPlusChecked \cup acsMap]
----------------------------------------------------------------------------
Init ==
    /\ fqFirstIndex = 1 /\ fqProofs = <<>>
    /\ finIndex = 1 /\ settled = 0
    /\ stored = [i \in Index |-> {}]
    /\ got = [i \in Index |-> {}]

nextQueued == fqFirstIndex + Len(fqProofs)
isQueued(i) == fqFirstIndex <= i /\ i < nextQueued
proof(i) == fqProofs[i - fqFirstIndex + 1]

\* The queue with a record for index i, whose proof was checked.
addQueuedFinalization(i, ps) ==
    IF i = nextQueued THEN Append(fqProofs, newFinalizationProven(i, ps))
    ELSE IF isQueued(i) /\ proof(i).fpIndex = i
    THEN [fqProofs EXCEPT ![i - fqFirstIndex + 1] = fpAddCheckedAggregate(@, ps)]
    ELSE fqProofs

\* Mutant: the queue starts with the settled record itself.
settleQueuedFinalizationByHash_keeps(k) == IF isQueued(k) THEN k - fqFirstIndex ELSE 0

\* How many records the queue drops when the record with index k is settled.
settleQueuedFinalizationByHash(k) ==
    LET found == {n \in 1 .. Len(fqProofs) : fqProofs[n].fpIndex = k}
    IN IF found = {} THEN 0 ELSE CHOOSE n \in found : \A m \in found : n <= m

\* notifyBlockFinalized, for the next index.  k is the index of the finalized
\* block's own last finalized block; unknown and bad are the witnesses that the
\* current round, active or passive, has collected.
NotifyBlockFinalized(ps, k, unknown, bad) ==
    LET offset == settleQueuedFinalizationByHash(k)
        rest == SubSeq(fqProofs, offset + 1, Len(fqProofs))
        first == fqFirstIndex + offset
    IN /\ finIndex \in Index
       /\ settled <= k /\ k < finIndex
       /\ finIndex' = finIndex + 1
       /\ settled' = k
       /\ stored' = [stored EXCEPT ![finIndex] = ps]
       /\ fqFirstIndex' = first
       /\ fqProofs' = IF finIndex = first + Len(rest)
                      THEN Append(rest, newFinalizationProvenWithWitnesses(finIndex, ps, unknown, bad))
                      ELSE rest
       /\ UNCHANGED got

\* handleFinalizationProof, when the finalized block is not known yet.
HandleProofOfUnknownBlock(ps) ==
    /\ finIndex \in Index
    /\ fqProofs' = addQueuedFinalization(finIndex, ps)
    /\ UNCHANGED <<fqFirstIndex, finIndex, settled, stored, got>>

\* receiveFinalizationRecord for an index that is finalized already.
ReceiveFinalizationRecord(i, ps) ==
    /\ i < finIndex /\ i >= fqFirstIndex
    /\ fqProofs' = addQueuedFinalization(i, ps)
    /\ UNCHANGED <<fqFirstIndex, finIndex, settled, stored, got>>

\* receiveFinalizationMessage, for a witness of an index that is finalized
\* already: the cases in which the queue is not changed are stuttering.
TryAddQueuedWitness(i, sig) ==
    /\ i < finIndex /\ isQueued(i)
    /\ sig.party \notin proof(i).fpCheckedSignatureSet \cup proof(i).fpUncheckedSignatureSet
                            \cup proof(i).fpBadSignatureSet
    /\ fqProofs' = [fqProofs EXCEPT ![i - fqFirstIndex + 1] = fpAddUncheckedSignature(@, sig)]
    /\ UNCHANGED <<fqFirstIndex, finIndex, settled, stored, got>>

\* A record for a new block, or for one that is received.
GetQueuedFinalization(i) ==
    /\ isQueued(i)
    /\ fqProofs' = [fqProofs EXCEPT ![i - fqFirstIndex + 1] = fpGetProof(@)]
    /\ got' = [got EXCEPT ![i] = fpGetProof(proof(i)).fpCheckedAggregateSet]
    /\ UNCHANGED <<fqFirstIndex, finIndex, settled, stored>>

\* The queue after catch-up has asked for all records beyond index fi.  Seq.drop
\* of a negative number of records drops none, and an update at a negative
\* place is none.
getQueuedFinalizationsBeyond(fi) ==
    LET offset == 1 + fi - fqFirstIndex
        dropped == IF offset > 0 THEN offset ELSE 0
        source(n) == n + dropped - offset
    IN [n \in 1 .. Len(fqProofs) |->
           IF n > offset /\ source(n) <= Len(fqProofs)
           THEN fpGetProof(fqProofs[source(n)]) ELSE fqProofs[n]]

\* doHandleCatchUp: fi is the finalization index of the peer's last finalized block.
CatchUp(fi) ==
    /\ fi < finIndex /\ fi + MaxLag >= fqFirstIndex - 1
    /\ fqProofs' = getQueuedFinalizationsBeyond(fi)
    /\ UNCHANGED <<fqFirstIndex, finIndex, settled, stored, got>>

\* The node stops and starts again: recoverFinalizationState rebuilds the queue
\* from the records in the block database.
Restart ==
    /\ fqFirstIndex' = settled + 1
    /\ fqProofs' = [n \in 1 .. finIndex - 1 - settled |->
                       newFinalizationProven(settled + n, stored[settled + n])]
    /\ got' = [i \in Index |-> {}]
    /\ UNCHANGED <<finIndex, settled, stored>>

\* Maps from parties to signatures.
SignatureMaps ==
    {sigs \in SUBSET Signature : \A s, t \in sigs : s.party = t.party => s = t}

Next ==
    \/ \E ps \in Proofs, k \in 0 .. MaxIndex, unknown \in SignatureMaps :
          \E bad \in SUBSET (Faulty \ signers(unknown)) :
              NotifyBlockFinalized(ps, k, unknown, bad)
    \/ \E ps \in Proofs : HandleProofOfUnknownBlock(ps)
    \/ \E i \in Index, ps \in Proofs : ReceiveFinalizationRecord(i, ps)
    \/ \E i \in Index, sig \in Signature : TryAddQueuedWitness(i, sig)
    \/ \E i \in Index : GetQueuedFinalization(i)
    \/ \E fi \in 0 .. MaxIndex : CatchUp(fi)
    \/ Restart

Spec == Init /\ [][Next]_vars
----------------------------------------------------------------------------
TypeOK ==
    /\ fqFirstIndex \in 1 .. MaxIndex + 1
    /\ fqProofs \in Seq(FinalizationProven)
    /\ finIndex \in 1 .. MaxIndex + 1
    /\ settled \in 0 .. MaxIndex
    /\ stored \in [Index -> SUBSET Party]
    /\ got \in [Index -> SUBSET Party]

\* Every finalization that is not settled is in the queue, in the place of its
\* index, and nothing else but possibly the next one, whose block is not known: a
\* later block always gets the record it asks for, whatever was finalized, settled
\* or restarted.
QueueComplete ==
    /\ fqFirstIndex = settled + 1
    /\ nextQueued \in {finIndex, finIndex + 1}
    /\ \A n \in 1 .. Len(fqProofs) : fqProofs[n].fpIndex = fqFirstIndex + n - 1

\* "The aggregate signature must always be valid, consist of the signatures from
\* the indicated parties, and have sufficient weight to form a valid
\* finalization proof."
AggregateValid ==
    \A n \in 1 .. Len(fqProofs) :
        /\ fqProofs[n].fpCheckedAggregateSignature = fqProofs[n].fpCheckedAggregateSet
        /\ HasHonest(fqProofs[n].fpCheckedAggregateSet)

known(fp) ==
    fp.fpCheckedAggregateSet \cup fp.fpCheckedSignatureSet
        \cup fp.fpUncheckedSignatureSet \cup fp.fpBadSignatureSet

\* A signer that is known for an unsettled finalization is not forgotten while
\* the node runs, whatever records and witnesses arrive in whatever order, and
\* although a new aggregate may replace one that it does not include.
SignersKept ==
    [][\A i \in Index : isQueued(i) /\ isQueued(i)' /\ ~Restart =>
           known(proof(i)) \subseteq known(proof(i))']_vars
============================================================================
