----------------------------- MODULE MCPairings -----------------------------
(* The pairing vocabulary and the migration into it: two editions of one      *)
(* document.                                                                  *)
EXTENDS LegacyMigration, TLC

CONSTANTS e1, e2, doc, s1, s2, first, second, p1,
          q1, q2, q3, l1, l2, l3

MCVersion == {e1, e2}
MCDocument == {doc}
MCDocumentOf == e1 :> doc @@ e2 :> doc
Dated == e1 :> 1 @@ e2 :> 2
MCCandidates == e1 :> {} @@ e2 :> {}

At(chunk, section, statement) ==
    [chunk |-> chunk, section |-> section, statement |-> statement]

\* The later edition words the clause anew, in two sections: a run may read it in
\* either, both or neither.
Repeated ==
    [p \in {p1} |->
        (e1 :> {At(1, s1, first)} @@
         e2 :> {At(1, s1, second), At(2, s2, second)})]

Older == [version |-> e1, section |-> s1, statement |-> first]
Newer(section) == [version |-> e2, section |-> section, statement |-> second]

\* An earlier release let reviewers link the editions either way round: the
\* clause was approved against one of its successors, and both approved and
\* rejected against the other.
BothWaysRound ==
    l1 :> [source |-> Older, target |-> Newer(s1), verdict |-> "approve"] @@
    l2 :> [source |-> Newer(s2), target |-> Older, verdict |-> "approve"] @@
    l3 :> [source |-> Older, target |-> Newer(s2), verdict |-> "reject"]

MCSymmetry == Permutations(PairingId)
=============================================================================
