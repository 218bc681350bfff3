------------------------------- MODULE MCLinks -------------------------------
(* The link vocabulary: one edition of each of two documents. *)
EXTENDS DerivedLayer, TLC

CONSTANTS a1, b1, docA, docB, s1, s2, duty, higher, p1, p2, l1, l2

MCVersion == {a1, b1}
MCDocument == {docA, docB}
MCDocumentOf == a1 :> docA @@ b1 :> docB
MCEffectiveDate == a1 :> 0 @@ b1 :> 0
\* An operator links a1 up to b1.
MCCandidates == a1 :> {b1} @@ b1 :> {}
MCSimilar == {<<duty, higher>>, <<higher, duty>>}

At(chunk, section, statement) ==
    [chunk |-> chunk, section |-> section, statement |-> statement]

\* The second pipeline moves the duty to another section, where two chunks
\* overlap in it, and also finds it repeated where the first one put it.
MCPassage ==
    p1 :> (a1 :> {At(1, s1, duty)} @@ b1 :> {At(1, s1, higher)}) @@
    p2 :> (a1 :> {At(1, s1, duty), At(2, s2, duty), At(3, s2, duty)}
           @@ b1 :> {At(1, s1, higher)})

MCNoLegacy == [id \in LinkId |-> NoDecision]

MCSymmetry == Permutations(LinkId)
=============================================================================
