------------------------------ MODULE MCChanges ------------------------------
(* The diff: two editions of one document, rebuilt between diffs, while a     *)
(* reviewer settles pairs.                                                    *)
EXTENDS DerivedLayer, TLC

CONSTANTS e1, e2, doc, s1, first, second, p1, p2, q1, q2

MCVersion == {e1, e2}
MCDocument == {doc}
MCDocumentOf == e1 :> doc @@ e2 :> doc
Dated == e1 :> 1 @@ e2 :> 2
MCCandidates == e1 :> {} @@ e2 :> {}

At(chunk, section, statement) ==
    [chunk |-> chunk, section |-> section, statement |-> statement]

\* The later edition keeps the clause and adds one, in either pipeline's chunks.
KeptAndAdded ==
    [p \in {p1, p2} |->
        (e1 :> {At(1, s1, first)} @@ e2 :> {At(1, s1, first), At(1, s1, second)})]

MCDiffPairs == {<<e1, e2>>}
MCNoLegacy == [id \in LinkId |-> NoDecision]
MCSymmetry == Permutations(PairingId)
=============================================================================
