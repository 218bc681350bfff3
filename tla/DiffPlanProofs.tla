-------------------------- MODULE DiffPlanProofs --------------------------
(* Proofs about the planning run of a diff, for editions of any size, any *)
(* scores and any verdicts.                                               *)
EXTENDS DiffPlan, FiniteSetTheorems, WellFoundedInduction, TLAPS

-----------------------------------------------------------------------------
(* Every clause once *)

Firsts(pairs) == {p[1] : p \in pairs}
Seconds(pairs) == {p[2] : p \in pairs}

OneToOne(pairs) == \A p, q \in pairs : p[1] = q[1] \/ p[2] = q[2] => p = q

\* The strengthening: what is consumed and what is left make up the unmatched
\* clauses, and what is left and nevertheless in a change is marked as paired.
Accounted ==
    /\ modified \subseteq UnmatchedOld(input) \X UnmatchedNew(input)
    /\ OneToOne(modified)
    /\ old \cup Firsts(modified) = UnmatchedOld(input)
    /\ new \cup Seconds(modified) = UnmatchedNew(input)
    /\ old \cap Firsts(modified) = pairedOld
    /\ new \cap Seconds(modified) = pairedNew

Staged ==
    /\ stage = "verdicts" => pairedOld = {} /\ pairedNew = {}
    /\ scored \subseteq old \X new
    /\ stage = "verdicts" => scored = {}
    /\ rest \subseteq scored
    /\ Planned => removed = old \ pairedOld /\ added = new \ pairedNew

\* The changes grow by pairs of clauses that are left and not yet marked.
LEMMA GrowsOneToOne ==
    ASSUME Accounted, NEW more, more \subseteq old \X new, OneToOne(more),
           \A p \in more : p[1] \notin pairedOld /\ p[2] \notin pairedNew
    PROVE  /\ modified \cup more \subseteq UnmatchedOld(input) \X UnmatchedNew(input)
           /\ OneToOne(modified \cup more)
           /\ Firsts(modified \cup more) = Firsts(modified) \cup Firsts(more)
           /\ Seconds(modified \cup more) = Seconds(modified) \cup Seconds(more)
           /\ Firsts(more) \subseteq old /\ Seconds(more) \subseteq new
<1>1. /\ old \subseteq UnmatchedOld(input) /\ new \subseteq UnmatchedNew(input)
      /\ modified \subseteq UnmatchedOld(input) \X UnmatchedNew(input)
  BY DEF Accounted
<1>2. /\ Firsts(modified \cup more) = Firsts(modified) \cup Firsts(more)
      /\ Seconds(modified \cup more) = Seconds(modified) \cup Seconds(more)
  BY DEF Firsts, Seconds
<1>3. \A p \in more : /\ p[1] \in old /\ p[2] \in new
                      /\ p[1] \notin Firsts(modified)
                      /\ p[2] \notin Seconds(modified)
  <2> TAKE p \in more
  <2>1. p[1] \in old /\ p[2] \in new
    OBVIOUS
  <2> QED
    BY <2>1 DEF Accounted
<1>4. OneToOne(modified \cup more)
  <2> SUFFICES ASSUME NEW p \in modified \cup more, NEW q \in modified \cup more,
                      p[1] = q[1] \/ p[2] = q[2]
               PROVE  p = q
    BY DEF OneToOne
  <2>1. \A m \in modified : m[1] \in Firsts(modified) /\ m[2] \in Seconds(modified)
    BY DEF Firsts, Seconds
  <2>2. CASE p \in modified /\ q \in modified
    BY <2>2 DEF Accounted, OneToOne
  <2>3. CASE p \in more /\ q \in more
    BY <2>3 DEF OneToOne
  <2>4. CASE p \in modified /\ q \in more
    BY <1>3, <2>1, <2>4
  <2>5. CASE p \in more /\ q \in modified
    BY <1>3, <2>1, <2>5
  <2> QED
    BY <2>2, <2>3, <2>4, <2>5
<1>5. Firsts(more) \subseteq old /\ Seconds(more) \subseteq new
  BY <1>3 DEF Firsts, Seconds
<1>6. more \subseteq UnmatchedOld(input) \X UnmatchedNew(input)
  BY <1>1
<1> QED
  BY <1>1, <1>2, <1>4, <1>5, <1>6

\* A section pairs at most one clause of either side with at most one.
LEMMA SectionsPairOnce == OneToOne(SectionPairs)
<1> SUFFICES ASSUME NEW p \in SectionPairs, NEW q \in SectionPairs,
                    p[1] = q[1] \/ p[2] = q[2]
             PROVE  p = q
  BY DEF OneToOne
<1>1. PICK s : In(s, old) = {p[1]} /\ In(s, new) = {p[2]}
  BY DEF SectionPairs
<1>2. PICK t : In(t, old) = {q[1]} /\ In(t, new) = {q[2]}
  BY DEF SectionPairs
<1>3. /\ p[1].section = s /\ p[2].section = s
      /\ q[1].section = t /\ q[2].section = t
  BY <1>1, <1>2 DEF In
<1>4. s = t
  BY <1>3
<1>5. p[1] = q[1] /\ p[2] = q[2]
  BY <1>1, <1>2, <1>4
<1>6. p = <<p[1], p[2]>> /\ q = <<q[1], q[2]>>
  BY DEF SectionPairs
<1> QED
  BY <1>5, <1>6

LEMMA AccountedStep ==
    ASSUME Accounted, Staged, [Next]_vars
    PROVE  Accounted' /\ Staged'
<1>1. ASSUME NEW d \in toApply, RuleOut(d)
      PROVE  Accounted' /\ Staged'
  BY <1>1 DEF RuleOut, Apply, Accounted, Staged, Planned
<1>2. ASSUME NEW d \in toApply, PairAsRecorded(d)
      PROVE  Accounted' /\ Staged'
  <2>1. /\ stage = "verdicts"
        /\ UNCHANGED <<input, stage, pairedOld, pairedNew, scored, rest, removed, added>>
    BY <1>2 DEF PairAsRecorded, Apply
  <2>2. CASE UNCHANGED <<old, new, modified>>
    BY <2>1, <2>2 DEF Accounted, Staged, Planned
  <2>3. ASSUME NEW before \in old, NEW after \in new,
               Consumed(before, after), modified' = modified \cup {<<before, after>>}
        PROVE  Accounted' /\ Staged'
    <3> DEFINE more == {<<before, after>>}
    <3>1. pairedOld = {} /\ pairedNew = {} /\ scored = {} /\ rest = {}
      BY <2>1 DEF Staged
    <3>2. /\ more \subseteq old \X new
          /\ OneToOne(more)
          /\ \A p \in more : p[1] \notin pairedOld /\ p[2] \notin pairedNew
          /\ Firsts(more) = {before} /\ Seconds(more) = {after}
      BY <3>1 DEF OneToOne, Firsts, Seconds
    <3>3. modified' = modified \cup more
      BY <2>3
    <3> HIDE DEF more
    <3>4. /\ modified' \subseteq UnmatchedOld(input) \X UnmatchedNew(input)
          /\ OneToOne(modified')
          /\ Firsts(modified') = Firsts(modified) \cup {before}
          /\ Seconds(modified') = Seconds(modified) \cup {after}
      BY <3>2, <3>3, GrowsOneToOne
    <3>5. /\ old' \cup Firsts(modified') = UnmatchedOld(input)
          /\ new' \cup Seconds(modified') = UnmatchedNew(input)
          /\ old' \cap Firsts(modified') = {}
          /\ new' \cap Seconds(modified') = {}
      BY <2>3, <3>1, <3>4 DEF Accounted, Consumed
    <3>6. Accounted'
      BY <2>1, <3>1, <3>4, <3>5 DEF Accounted, OneToOne, Firsts, Seconds
    <3>7. Staged'
      BY <2>1, <3>1 DEF Staged, Planned
    <3> QED
      BY <3>6, <3>7
  <2> QED
    BY <1>2, <2>2, <2>3 DEF PairAsRecorded
<1>3. CASE PairSections
  <2>1. /\ stage = "verdicts" /\ stage' = "sections"
        /\ modified' = modified \cup SectionPairs
        /\ pairedOld' = Firsts(SectionPairs) /\ pairedNew' = Seconds(SectionPairs)
        /\ UNCHANGED <<input, old, new, scored, rest, removed, added>>
    BY <1>3 DEF PairSections, Firsts, Seconds
  <2>2. pairedOld = {} /\ pairedNew = {} /\ SectionPairs \subseteq old \X new
    BY <2>1 DEF Staged, SectionPairs
  <2>3. /\ modified' \subseteq UnmatchedOld(input) \X UnmatchedNew(input)
        /\ OneToOne(modified')
        /\ Firsts(modified') = Firsts(modified) \cup pairedOld'
        /\ Seconds(modified') = Seconds(modified) \cup pairedNew'
        /\ pairedOld' \subseteq old /\ pairedNew' \subseteq new
    BY <2>1, <2>2, SectionsPairOnce, GrowsOneToOne
  <2>4. Accounted'
    BY <2>1, <2>2, <2>3 DEF Accounted, OneToOne, Firsts, Seconds
  <2>5. Staged'
    BY <2>1 DEF Staged, Planned
  <2> QED
    BY <2>4, <2>5
<1>4. CASE ScorePairs
  BY <1>4 DEF ScorePairs, ScoreablePairs, Accounted, Staged, Planned
<1>5. ASSUME NEW pair \in rest, Consider(pair)
      PROVE  Accounted' /\ Staged'
  <2> DEFINE won == IF Outcome(pair) = "auto_paired" THEN {pair} ELSE {}
  <2>1. /\ modified' = modified \cup won
        /\ pairedOld' = pairedOld \cup Firsts(won)
        /\ pairedNew' = pairedNew \cup Seconds(won)
        /\ rest' = rest \ {pair}
        /\ stage = "wording"
        /\ UNCHANGED <<input, stage, old, new, scored, removed, added>>
    BY <1>5 DEF Consider, Firsts, Seconds
  <2>2. pair \in old \X new
    BY DEF Staged
  <2>3. /\ won \subseteq old \X new
        /\ OneToOne(won)
        /\ \A p \in won : p[1] \notin pairedOld /\ p[2] \notin pairedNew
    BY <2>2 DEF OneToOne, Outcome
  <2> HIDE DEF won
  <2>4. /\ modified' \subseteq UnmatchedOld(input) \X UnmatchedNew(input)
        /\ OneToOne(modified')
        /\ Firsts(modified') = Firsts(modified) \cup Firsts(won)
        /\ Seconds(modified') = Seconds(modified) \cup Seconds(won)
        /\ Firsts(won) \subseteq old /\ Seconds(won) \subseteq new
    BY <2>1, <2>3, GrowsOneToOne
  <2>5. Accounted'
    BY <2>1, <2>4 DEF Accounted, OneToOne, Firsts, Seconds
  <2>6. Staged'
    BY <2>1 DEF Staged, Planned
  <2> QED
    BY <2>5, <2>6
<1>6. CASE RecordDeclines
  BY <1>6 DEF RecordDeclines, Accounted, Staged, Planned
<1>7. CASE Leftovers
  BY <1>7 DEF Leftovers, Accounted, Staged, Planned
<1>8. CASE UNCHANGED vars
  BY <1>8 DEF vars, Accounted, Staged, Planned
<1> QED
  BY <1>1, <1>2, <1>3, <1>4, <1>5, <1>6, <1>7, <1>8 DEF Next

LEMMA AccountedInit == Init => Accounted /\ Staged
BY DEF Init, Accounted, Staged, Planned, OneToOne, Firsts, Seconds

\* Each clause that is not in both editions is in exactly one change, and
\* MODIFIED pairs clauses one to one, whatever the verdicts and the scores.
THEOREM OnceEach == Spec => []EveryClauseOnce
<1>1. Accounted /\ Staged /\ [Next]_vars => (Accounted /\ Staged)'
  BY AccountedStep
<1>2. Accounted /\ Staged => EveryClauseOnce
  BY DEF Accounted, Staged, EveryClauseOnce, OneToOne, Firsts, Seconds
<1> QED
  BY AccountedInit, <1>1, <1>2, PTL DEF Spec

-----------------------------------------------------------------------------
(* Wording is order-free *)

\* A set of numbers under a bound has a greatest one.
LEMMA Greatest ==
    ASSUME NEW n \in Nat, NEW S, S \subseteq 0 .. n, S # {}
    PROVE  \E x \in S : \A y \in S : x >= y
<1> DEFINE R == OpToRel(<, Nat)
           T == {n - x : x \in S}
<1>1. \A a, b \in Nat : <<a, b>> \in R <=> a < b
  BY DEF OpToRel
<1>2. T \subseteq Nat /\ T # {}
  <2>1. \A x \in S : n - x \in Nat
    OBVIOUS
  <2> QED
    BY <2>1
<1>3. IsWellFoundedOn(R, Nat)
  BY NatLessThanWellFounded
<1> HIDE DEF R, T
<1>4. PICK m \in T : \A k \in T : ~(<<k, m>> \in R)
  BY <1>2, <1>3, WFMin
<1>5. ASSUME NEW k \in T
      PROVE  m <= k
  <2>1. k \in Nat /\ m \in Nat
    BY <1>2, <1>4
  <2>2. ~(k < m)
    BY <1>1, <1>4, <2>1
  <2> QED
    BY <2>1, <2>2
<1>6. PICK x \in S : m = n - x
  BY <1>4 DEF T
<1>7. \A y \in S : n - y \in T
  BY DEF T
<1> QED
  <2>1. \A y \in S : n - x <= n - y
    BY <1>5, <1>6, <1>7
  <2> QED
    BY <2>1

Share(p, q) == p[1] = q[1] \/ p[2] = q[2]

\* Scores are what the case says of pairs of its clauses.
Scores ==
    /\ input \in Case
    /\ old \subseteq input.old /\ new \subseteq input.new
    /\ scored \subseteq old \X new

LEMMA ScoreType ==
    ASSUME Scores, NEW p \in scored
    PROVE  input.score[p] \in 0 .. 100
<1>1. p \in input.old \X input.new
  BY DEF Scores
<1>2. input.score \in [input.old \X input.new -> 0 .. 100]
  BY CaseAssumption DEF Scores
<1> QED
  BY <1>1, <1>2

\* The best score elsewhere is at least any rival's.
LEMMA BestElsewhereBounds ==
    ASSUME Scores, NEW p \in scored
    PROVE  /\ BestElsewhere(p) \in 0 .. 100
           /\ \A q \in scored : q # p /\ Share(p, q) =>
                 BestElsewhere(p) >= input.score[q]
<1> DEFINE rivals == {q \in scored \ {p} : q[1] = p[1] \/ q[2] = p[2]}
           S == {0} \cup {input.score[q] : q \in rivals}
<1>1. S \subseteq 0 .. 100
  BY ScoreType
<1>2. S # {}
  OBVIOUS
<1>3. \A q \in scored : q # p /\ Share(p, q) => input.score[q] \in S
  BY DEF Share
<1>4. BestElsewhere(p) = Max(S)
  BY DEF BestElsewhere
<1> HIDE DEF S
<1>5. \E x \in S : \A y \in S : x >= y
  BY <1>1, <1>2, Greatest
<1>6. Max(S) \in S /\ \A y \in S : Max(S) >= y
  BY <1>5 DEF Max
<1> QED
  BY <1>1, <1>3, <1>4, <1>6

\* The pairs no rival comes close to, and those such a pair leaves without.
Clear == {p \in scored : input.score[p] - BestElsewhere(p) >= Margin}
Beaten == {p \in scored \ Clear : \E q \in Clear : Share(p, q)}

\* Beside a pair that is clear, every rival is lower by the margin.
LEMMA ClearIsHigher ==
    ASSUME Scores, NEW q \in Clear, NEW p \in scored, p # q, Share(q, p)
    PROVE  /\ input.score[q] > input.score[p]
           /\ p \notin Clear
<1>1. q \in scored /\ input.score[q] - BestElsewhere(q) >= Margin
  BY DEF Clear
<1>2. /\ input.score[p] \in 0 .. 100 /\ input.score[q] \in 0 .. 100
      /\ BestElsewhere(p) \in 0 .. 100 /\ BestElsewhere(q) \in 0 .. 100
  BY <1>1, ScoreType, BestElsewhereBounds
<1>3. /\ BestElsewhere(q) >= input.score[p]
      /\ BestElsewhere(p) >= input.score[q]
  BY <1>1, BestElsewhereBounds DEF Share
<1>4. Margin \in Nat /\ Margin > 0
  BY ThresholdAssumption
<1>5. PICK a, b, x, y : /\ a = input.score[q] /\ b = BestElsewhere(q)
                        /\ x = input.score[p] /\ y = BestElsewhere(p)
  OBVIOUS
<1>6. /\ a \in 0 .. 100 /\ b \in 0 .. 100 /\ x \in 0 .. 100 /\ y \in 0 .. 100
      /\ a - b >= Margin /\ b >= x /\ y >= a
  BY <1>1, <1>2, <1>3, <1>5
<1>7. a > x /\ ~(x - y >= Margin)
  BY <1>4, <1>6
<1> QED
  BY <1>5, <1>7 DEF Clear

Labelled(edges, outcome) == {<<c[1], c[2]>> : c \in {c \in edges : c[3] = outcome}}

\* The strengthening: the loop has labelled just the pairs it has come to, and
\* a clause is marked once the clear pair that takes it has been reached.
Looped ==
    /\ stage \in {"verdicts", "sections"} => scored = {} /\ rest = {} /\ candidates = {}
    /\ stage \in {"leftovers", "planned"} => rest = {}
    /\ rest \subseteq scored
    /\ \A p \in scored : /\ p[1] \in pairedOld <=> \E q \in Clear \ rest : q[1] = p[1]
                         /\ p[2] \in pairedNew <=> \E q \in Clear \ rest : q[2] = p[2]
    /\ Labelled(candidates, "auto_paired") = Clear \ rest
    /\ Labelled(candidates, "partner_taken") = Beaten \ rest
    /\ Labelled(candidates, "contested") = (scored \ (Clear \cup Beaten)) \ rest

LEMMA OutcomeIsForeseen ==
    ASSUME Scores, Looped, NEW pair \in rest,
           \A p \in rest : input.score[p] <= input.score[pair]
    PROVE  /\ Outcome(pair) = "auto_paired" <=> pair \in Clear
           /\ Outcome(pair) = "partner_taken" <=> pair \in Beaten
           /\ Outcome(pair) = "contested" <=> pair \notin Clear \cup Beaten
           /\ Outcome(pair) \in {"auto_paired", "partner_taken", "contested"}
<1>1. pair \in scored
  BY DEF Looped
<1>2. ASSUME NEW q \in Clear, q # pair, Share(q, pair)
      PROVE  pair \notin Clear /\ q \notin rest
  <2>1. pair \notin Clear /\ input.score[q] > input.score[pair]
    BY <1>1, <1>2, ClearIsHigher
  <2>2. /\ q \in scored
        /\ input.score[q] \in 0 .. 100 /\ input.score[pair] \in 0 .. 100
    BY <1>1, ScoreType DEF Clear
  <2>3. ASSUME q \in rest
        PROVE  FALSE
    <3>1. input.score[q] <= input.score[pair]
      BY <2>3
    <3>2. PICK a, b : a = input.score[q] /\ b = input.score[pair]
      OBVIOUS
    <3>3. a \in 0 .. 100 /\ b \in 0 .. 100 /\ a <= b /\ a > b
      BY <2>1, <2>2, <3>1, <3>2
    <3> QED
      BY <3>3
  <2> QED
    BY <2>1, <2>3
<1>3. CASE pair[1] \in pairedOld \/ pair[2] \in pairedNew
  <2>1. PICK q \in Clear \ rest : q[1] = pair[1] \/ q[2] = pair[2]
    BY <1>1, <1>3 DEF Looped
  <2>2. q # pair /\ Share(q, pair) /\ Share(pair, q)
    BY <2>1 DEF Share
  <2>3. pair \notin Clear /\ pair \in Beaten
    BY <1>1, <1>2, <2>1, <2>2 DEF Beaten
  <2> QED
    BY <1>3, <2>3 DEF Outcome
<1>4. CASE ~(pair[1] \in pairedOld \/ pair[2] \in pairedNew)
  <2>1. pair \notin Beaten
    <3> SUFFICES ASSUME pair \in Beaten
                 PROVE  FALSE
      OBVIOUS
    <3>1. PICK q \in Clear : Share(pair, q) /\ q # pair
      BY DEF Beaten
    <3>2. q \in Clear \ rest
      BY <1>2, <3>1 DEF Share
    <3> QED
      BY <1>1, <1>4, <3>1, <3>2 DEF Looped, Share
  <2>2. pair \in Clear <=> ~(input.score[pair] - BestElsewhere(pair) < Margin)
    <3>1. input.score[pair] \in 0 .. 100 /\ BestElsewhere(pair) \in 0 .. 100
      BY <1>1, ScoreType, BestElsewhereBounds
    <3>2. PICK a, b : a = input.score[pair] /\ b = BestElsewhere(pair)
      OBVIOUS
    <3>3. a \in Int /\ b \in Int /\ Margin \in Int
      BY <3>1, <3>2, ThresholdAssumption
    <3>4. a - b >= Margin <=> ~(a - b < Margin)
      BY <3>3
    <3> QED
      BY <1>1, <3>2, <3>4 DEF Clear
  <2> QED
    BY <1>4, <2>1, <2>2 DEF Outcome
<1> QED
  BY <1>3, <1>4

\* What a set of labels becomes when one is written.
LEMMA LabelWritten ==
    ASSUME NEW edges, NEW edge
    PROVE  /\ \A outcome : outcome # edge[3] =>
                 Labelled(edges \cup {edge}, outcome) = Labelled(edges, outcome)
           /\ Labelled(edges \cup {edge}, edge[3]) =
                 Labelled(edges, edge[3]) \cup {<<edge[1], edge[2]>>}
<1>1. ASSUME NEW outcome, outcome # edge[3]
      PROVE  Labelled(edges \cup {edge}, outcome) = Labelled(edges, outcome)
  BY <1>1 DEF Labelled
<1>2. Labelled(edges \cup {edge}, edge[3]) =
         Labelled(edges, edge[3]) \cup {<<edge[1], edge[2]>>}
  BY DEF Labelled
<1> QED
  BY <1>1, <1>2

LEMMA SameScores ==
    ASSUME UNCHANGED <<input, scored>>
    PROVE  Clear' = Clear /\ Beaten' = Beaten
<1>1. Clear' = Clear
  BY DEF Clear, BestElsewhere
<1> QED
  BY <1>1 DEF Beaten

LEMMA LoopedStep ==
    ASSUME Scores, Looped, [Next]_vars
    PROVE  Looped'
<1>1. ASSUME UNCHANGED <<input, scored, rest, candidates>>,
             UNCHANGED <<pairedOld, pairedNew>> \/ scored = {},
             \/ UNCHANGED stage
             \/ stage \in {"verdicts", "sections"} /\ stage' = "sections"
             \/ rest = {} /\ stage' \notin {"verdicts", "sections"}
      PROVE  Looped'
  <2>1. Clear' = Clear /\ Beaten' = Beaten
    BY <1>1, SameScores
  <2>2. \A outcome : Labelled(candidates', outcome) = Labelled(candidates, outcome)
    BY <1>1 DEF Labelled
  <2> QED
    BY <1>1, <2>1, <2>2 DEF Looped
<1>2. ASSUME NEW d \in toApply, RuleOut(d) \/ PairAsRecorded(d)
      PROVE  Looped'
  BY <1>1, <1>2 DEF RuleOut, PairAsRecorded, Apply
<1>3. CASE PairSections
  <2>1. scored = {}
    BY <1>3 DEF PairSections, Looped
  <2> QED
    BY <1>1, <1>3, <2>1 DEF PairSections
<1>4. CASE ScorePairs
  <2>1. /\ stage' = "wording" /\ rest' = scored' /\ candidates' = {}
        /\ \A p \in scored' : p[1] \notin pairedOld' /\ p[2] \notin pairedNew'
    BY <1>4 DEF ScorePairs, ScoreablePairs, Looped
  <2>2. \A outcome : Labelled(candidates', outcome) = {}
    BY <2>1 DEF Labelled
  <2>3. Clear' \subseteq scored' /\ Beaten' \subseteq scored'
    BY DEF Clear, Beaten
  <2> QED
    BY <2>1, <2>2, <2>3 DEF Looped
<1>5. ASSUME NEW pair \in rest, Consider(pair)
      PROVE  Looped'
  <2> DEFINE won == IF Outcome(pair) = "auto_paired" THEN {pair} ELSE {}
  <2>1. /\ stage = "wording" /\ UNCHANGED <<stage, input, scored>>
        /\ rest' = rest \ {pair}
        /\ candidates' = candidates \cup {<<pair[1], pair[2], Outcome(pair)>>}
        /\ pairedOld' = pairedOld \cup {p[1] : p \in won}
        /\ pairedNew' = pairedNew \cup {p[2] : p \in won}
        /\ \A p \in rest : input.score[p] <= input.score[pair]
    BY <1>5 DEF Consider
  <2>2. Clear' = Clear /\ Beaten' = Beaten
    BY <2>1, SameScores
  <2>3. /\ Outcome(pair) = "auto_paired" <=> pair \in Clear
        /\ Outcome(pair) = "partner_taken" <=> pair \in Beaten
        /\ Outcome(pair) = "contested" <=> pair \notin Clear \cup Beaten
    BY <2>1, OutcomeIsForeseen
  <2>4. pair \in scored /\ pair = <<pair[1], pair[2]>>
    BY DEF Looped, Scores
  <2>5. PICK before, after, edge :
           /\ before = candidates /\ after = candidates'
           /\ edge = <<pair[1], pair[2], Outcome(pair)>>
    OBVIOUS
  <2>6. /\ \A outcome : outcome # edge[3] =>
              Labelled(after, outcome) = Labelled(before, outcome)
        /\ Labelled(after, edge[3]) = Labelled(before, edge[3]) \cup {pair}
    <3>1. after = before \cup {edge}
      BY <2>1, <2>5
    <3>2. pair = <<edge[1], edge[2]>>
      BY <2>4, <2>5
    <3>3. \A outcome : outcome # edge[3] =>
             Labelled(before \cup {edge}, outcome) = Labelled(before, outcome)
      BY LabelWritten
    <3>4. Labelled(before \cup {edge}, edge[3]) =
             Labelled(before, edge[3]) \cup {<<edge[1], edge[2]>>}
      BY LabelWritten
    <3> QED
      BY <3>1, <3>2, <3>3, <3>4
  <2>7. /\ Labelled(before, "auto_paired") = Clear \ rest
        /\ Labelled(before, "partner_taken") = Beaten \ rest
        /\ Labelled(before, "contested") = (scored \ (Clear \cup Beaten)) \ rest
    BY <2>5 DEF Looped
  <2>8. /\ edge[3] = "auto_paired" <=> pair \in Clear
        /\ edge[3] = "partner_taken" <=> pair \in Beaten
        /\ edge[3] = "contested" <=> pair \notin Clear \cup Beaten
    <3>1. edge[3] = Outcome(pair)
      BY <2>5
    <3> QED
      BY <2>3, <3>1
  <2>9. won = {pair} \cap Clear
    BY <2>3
  <2>10. Clear \ rest' = (Clear \ rest) \cup won
    BY <2>1, <2>9
  <2>11. \A p \in scored :
           /\ p[1] \in pairedOld' <=> \E q \in Clear \ rest' : q[1] = p[1]
           /\ p[2] \in pairedNew' <=> \E q \in Clear \ rest' : q[2] = p[2]
    <3> HIDE DEF won
    <3> QED
      BY <2>1, <2>10 DEF Looped
  <2>12. Labelled(after, "auto_paired") = Clear \ rest'
    BY <2>1, <2>4, <2>6, <2>7, <2>8
  <2>13. Labelled(after, "partner_taken") = Beaten \ rest'
    BY <2>1, <2>4, <2>6, <2>7, <2>8
  <2>14. Labelled(after, "contested") = (scored \ (Clear \cup Beaten)) \ rest'
    BY <2>1, <2>4, <2>6, <2>7, <2>8
  <2> QED
    BY <2>1, <2>2, <2>5, <2>11, <2>12, <2>13, <2>14 DEF Looped
<1>6. CASE RecordDeclines
  <2>1. /\ rest = {} /\ stage' = "leftovers"
        /\ UNCHANGED <<input, scored, rest, pairedOld, pairedNew>>
    BY <1>6 DEF RecordDeclines
  <2>2. Clear' = Clear /\ Beaten' = Beaten
    BY <2>1, SameScores
  <2>3. PICK declined : candidates' = candidates \cup
           {<<p[1], p[2], "below_threshold">> : p \in declined}
    BY <1>6 DEF RecordDeclines
  <2>4. \A outcome \in {"auto_paired", "partner_taken", "contested"} :
           Labelled(candidates', outcome) = Labelled(candidates, outcome)
    BY <2>3 DEF Labelled
  <2> QED
    BY <2>1, <2>2, <2>4 DEF Looped
<1>7. CASE Leftovers
  BY <1>1, <1>7 DEF Leftovers, Looped
<1>8. CASE UNCHANGED vars
  BY <1>1, <1>8 DEF vars
<1> QED
  BY <1>2, <1>3, <1>4, <1>5, <1>6, <1>7, <1>8 DEF Next

LEMMA ScoresStep ==
    ASSUME Scores, Looped, [Next]_vars
    PROVE  Scores'
<1>1. /\ input' = input /\ old' \subseteq old /\ new' \subseteq new
      /\ stage # "verdicts" => old' = old /\ new' = new
  BY DEF Next, RuleOut, PairAsRecorded, Apply, Consumed, PairSections, ScorePairs,
         Consider, RecordDeclines, Leftovers, vars
<1>2. /\ stage # "sections" => scored' = scored
      /\ stage = "sections" => scored' \subseteq scored \cup (old \X new)
  BY DEF Next, RuleOut, PairAsRecorded, Apply, PairSections, ScorePairs,
         ScoreablePairs, Consider, RecordDeclines, Leftovers, vars
<1>3. stage = "verdicts" => scored = {}
  BY DEF Looped
<1>4. scored' \subseteq old' \X new'
  <2>1. CASE stage = "verdicts"
    BY <1>2, <1>3, <2>1
  <2>2. CASE stage # "verdicts"
    BY <1>1, <1>2, <2>2 DEF Scores
  <2> QED
    BY <2>1, <2>2
<1> QED
  BY <1>1, <1>4 DEF Scores

LEMMA LoopedInit == Init => Scores /\ Looped
<1> SUFFICES ASSUME Init
             PROVE  Scores /\ Looped
  OBVIOUS
<1>1. Scores
  BY DEF Init, Scores, UnmatchedOld, UnmatchedNew
<1>2. Clear = {} /\ Beaten = {}
  BY DEF Init, Clear, Beaten
<1>3. \A outcome : Labelled(candidates, outcome) = {}
  BY DEF Init, Labelled
<1> QED
  BY <1>1, <1>2, <1>3 DEF Init, Looped

\* Whatever the order of equal scores, the same pairs are made and the others
\* carry the same labels: a pair wins exactly when no rival comes close, and only
\* the rivals of a winner are told their partner was taken.
THEOREM OrderFree == Spec => []WordingIsOrderFree
<1>1. Init => Scores /\ Looped
  BY LoopedInit
<1>2. Scores /\ Looped /\ [Next]_vars => (Scores /\ Looped)'
  BY ScoresStep, LoopedStep
<1>3. Scores /\ Looped => WordingIsOrderFree
  <2> SUFFICES ASSUME Looped, Planned
               PROVE  /\ Labelled(candidates, "auto_paired") = Clear
                      /\ Labelled(candidates, "partner_taken") = Beaten
                      /\ Labelled(candidates, "contested") = scored \ (Clear \cup Beaten)
    BY DEF WordingIsOrderFree, Clear, Beaten, Labelled, Share
  <2>1. rest = {}
    BY DEF Looped, Planned
  <2> QED
    BY <2>1 DEF Looped
<1> QED
  BY <1>1, <1>2, <1>3, PTL DEF Spec

-----------------------------------------------------------------------------
(* Every question is asked *)

\* What the verdicts and the sections have paired.
Sections == {p \in modified : p \notin scored}

\* The pairs the wording pass is there for.
Scoreable == ScoreablePairs(old \ Firsts(Sections), new \ Seconds(Sections))

Scanned == stage \in {"wording", "leftovers", "planned"}

\* The strengthening: what was scored is what was there to score, and once the
\* declines are recorded an unpaired clause with a pair under the bar is named.
Asked ==
    /\ Scanned => scored = {p \in Scoreable : input.score[p] >= Bar}
    /\ stage \in {"leftovers", "planned"} =>
         \A p \in SubThreshold :
            /\ p[1] \notin pairedOld => \E c \in candidates : c[1] = p[1]
            /\ p[2] \notin pairedNew => \E c \in candidates : c[2] = p[2]

LEMMA SubThresholdIs ==
    SubThreshold = {p \in Scoreable : Floor <= input.score[p] /\ input.score[p] < Bar}
BY DEF SubThreshold, Scoreable, Sections, Firsts, Seconds

\* The best score under the bar at an end of a pair.
BestUnder(pair, end) ==
    Max({input.score[p] : p \in {p \in SubThreshold : p[end] = pair[end]}})

\* Of the pairs under the bar that share a clause, the best is worth a look if
\* the clause is unpaired.
LEMMA BestIsWorthALook ==
    ASSUME Scores, NEW p \in SubThreshold
    PROVE  /\ p[1] \notin pairedOld => \E q \in SubThreshold : q[1] = p[1] /\ WorthALook(q)
           /\ p[2] \notin pairedNew => \E q \in SubThreshold : q[2] = p[2] /\ WorthALook(q)
<1>1. \A q \in SubThreshold : input.score[q] \in 0 .. 100
  <2> TAKE q \in SubThreshold
  <2>1. q \in input.old \X input.new
    BY DEF SubThreshold, ScoreablePairs, Scores
  <2>2. input.score \in [input.old \X input.new -> 0 .. 100]
    BY CaseAssumption DEF Scores
  <2> QED
    BY <2>1, <2>2
<1>2. ASSUME NEW end
      PROVE  \E q \in SubThreshold :
                q[end] = p[end] /\ BestUnder(q, end) - input.score[q] < Margin
  <2> DEFINE S == {input.score[r] : r \in {r \in SubThreshold : r[end] = p[end]}}
  <2>1. S \subseteq 0 .. 100 /\ input.score[p] \in S
    BY <1>1
  <2> HIDE DEF S
  <2>2. \E x \in S : \A y \in S : x >= y
    BY <2>1, Greatest
  <2>3. Max(S) \in S
    BY <2>2 DEF Max
  <2>4. PICK q \in SubThreshold : q[end] = p[end] /\ Max(S) = input.score[q]
    BY <2>3 DEF S
  <2>5. BestUnder(q, end) = Max(S)
    BY <2>4 DEF S, BestUnder
  <2>6. PICK m : m = Max(S) /\ m = input.score[q] /\ m \in 0 .. 100
    BY <1>1, <2>4
  <2>7. m - m < Margin
    BY <2>6, ThresholdAssumption
  <2> QED
    BY <2>4, <2>5, <2>6, <2>7
<1>3. ASSUME p[1] \notin pairedOld
      PROVE  \E q \in SubThreshold : q[1] = p[1] /\ WorthALook(q)
  <2>1. PICK q \in SubThreshold :
           q[1] = p[1] /\ BestUnder(q, 1) - input.score[q] < Margin
    BY <1>2
  <2> QED
    BY <1>3, <2>1 DEF WorthALook, BestUnder
<1>4. ASSUME p[2] \notin pairedNew
      PROVE  \E q \in SubThreshold : q[2] = p[2] /\ WorthALook(q)
  <2>1. PICK q \in SubThreshold :
           q[2] = p[2] /\ BestUnder(q, 2) - input.score[q] < Margin
    BY <1>2
  <2> QED
    BY <1>4, <2>1 DEF WorthALook, BestUnder
<1> QED
  BY <1>3, <1>4

\* Nothing the two parts of Asked read has changed.
LEMMA AskedStays ==
    ASSUME Asked, Scanned,
           UNCHANGED <<input, old, new, distinct, scored, pairedOld, pairedNew, candidates>>,
           Sections' = Sections, Scanned',
           stage' \in {"leftovers", "planned"} => stage \in {"leftovers", "planned"}
    PROVE  Asked'
<1>1. Scoreable' = Scoreable
  BY DEF Scoreable, ScoreablePairs, Firsts, Seconds
<1>2. SubThreshold' = SubThreshold
  BY <1>1, SubThresholdIs DEF SubThreshold, Sections, ScoreablePairs
<1> QED
  BY <1>1, <1>2 DEF Asked

LEMMA AskedStep ==
    ASSUME Accounted, Staged, Scores, Looped, Asked, [Next]_vars
    PROVE  Asked'
<1>1. ASSUME ~Scanned'
      PROVE  Asked'
  BY <1>1 DEF Asked, Scanned
<1>2. ASSUME NEW d \in toApply, RuleOut(d) \/ PairAsRecorded(d)
      PROVE  Asked'
  BY <1>1, <1>2 DEF RuleOut, PairAsRecorded, Apply, Scanned
<1>3. CASE PairSections
  BY <1>1, <1>3 DEF PairSections, Scanned
<1>4. CASE ScorePairs
  <2>1. /\ stage' = "wording"
        /\ UNCHANGED <<input, old, new, distinct, modified>>
        /\ scored' = {p \in ScoreablePairs(old \ pairedOld, new \ pairedNew) :
                         input.score[p] >= Bar}
    BY <1>4 DEF ScorePairs
  <2>2. /\ old \ pairedOld = old \ Firsts(modified)
        /\ new \ pairedNew = new \ Seconds(modified)
    BY DEF Accounted
  <2>3. \A p \in scored' : p[1] \notin Firsts(modified)
    BY <2>1, <2>2 DEF ScoreablePairs
  <2>4. \A p \in modified : p \notin scored'
    BY <2>3 DEF Firsts
  <2>5. Sections' = modified
    BY <2>1, <2>4 DEF Sections
  <2>6. Scoreable' = ScoreablePairs(old \ pairedOld, new \ pairedNew)
    BY <2>1, <2>2, <2>5 DEF Scoreable, ScoreablePairs, Firsts, Seconds
  <2> QED
    BY <2>1, <2>6 DEF Asked
<1>5. ASSUME NEW pair \in rest, Consider(pair)
      PROVE  Asked'
  <2>1. /\ stage = "wording" /\ stage' = "wording"
        /\ UNCHANGED <<input, old, new, distinct, scored>>
        /\ modified' = modified \cup (IF Outcome(pair) = "auto_paired" THEN {pair} ELSE {})
    BY <1>5 DEF Consider
  <2>2. pair \in scored
    BY DEF Staged
  <2>3. Sections' = Sections
    BY <2>1, <2>2 DEF Sections
  <2>4. Scoreable' = Scoreable
    BY <2>1, <2>3 DEF Scoreable, ScoreablePairs, Firsts, Seconds
  <2> QED
    BY <2>1, <2>4 DEF Asked, Scanned
<1>6. CASE RecordDeclines
  <2>1. /\ stage = "wording" /\ stage' = "leftovers"
        /\ UNCHANGED <<input, old, new, distinct, modified, scored, pairedOld, pairedNew>>
        /\ candidates' = candidates \cup
              {<<p[1], p[2], "below_threshold">> : p \in {p \in SubThreshold : WorthALook(p)}}
    BY <1>6 DEF RecordDeclines
  <2>2. Sections' = Sections
    BY <2>1 DEF Sections
  <2>3. Scoreable' = Scoreable
    BY <2>1, <2>2 DEF Scoreable, ScoreablePairs, Firsts, Seconds
  <2>4. SubThreshold' = SubThreshold
    BY <2>1, <2>3, SubThresholdIs DEF SubThreshold, Sections, ScoreablePairs
  <2>5. \A q \in SubThreshold : WorthALook(q) =>
           \E c \in candidates' : c[1] = q[1] /\ c[2] = q[2]
    <3> TAKE q \in SubThreshold
    <3> HAVE WorthALook(q)
    <3>1. <<q[1], q[2], "below_threshold">> \in candidates'
      BY <2>1
    <3> QED
      BY <3>1
  <2>6. \A p \in SubThreshold :
           /\ p[1] \notin pairedOld => \E c \in candidates' : c[1] = p[1]
           /\ p[2] \notin pairedNew => \E c \in candidates' : c[2] = p[2]
    <3> TAKE p \in SubThreshold
    <3>1. /\ p[1] \notin pairedOld => \E q \in SubThreshold : q[1] = p[1] /\ WorthALook(q)
          /\ p[2] \notin pairedNew => \E q \in SubThreshold : q[2] = p[2] /\ WorthALook(q)
      BY BestIsWorthALook
    <3> QED
      BY <2>5, <3>1
  <2> QED
    BY <2>1, <2>3, <2>4, <2>6 DEF Asked, Scanned
<1>7. CASE Leftovers
  BY <1>7, AskedStays DEF Leftovers, Scanned, Sections
<1>8. CASE UNCHANGED vars
  <2>1. CASE Scanned
    BY <1>8, <2>1, AskedStays DEF vars, Scanned, Sections
  <2>2. CASE ~Scanned
    BY <1>1, <1>8, <2>2 DEF vars, Scanned
  <2> QED
    BY <2>1, <2>2
<1> QED
  BY <1>2, <1>3, <1>4, <1>5, <1>6, <1>7, <1>8 DEF Next

\* A pair that was scored is a candidate, under one label or another.
LEMMA ScoredIsNamed ==
    ASSUME Looped, rest = {}, NEW p \in scored
    PROVE  \E c \in candidates : c[1] = p[1] /\ c[2] = p[2]
<1>1. PICK outcome : p \in Labelled(candidates, outcome)
  BY DEF Looped
<1>2. PICK c \in candidates : p = <<c[1], c[2]>>
  BY <1>1 DEF Labelled
<1> QED
  BY <1>2

\* No clause that is reported as gone or new, and resembles one the earlier rules
\* left over, is kept from the pairing queue, however large the editions are.
THEOREM NoQuestionKept == Spec => []EveryQuestionIsAsked
<1> DEFINE I == Accounted /\ Staged /\ Scores /\ Looped /\ Asked
<1>1. Init => I
  <2>1. Init => Asked
    BY DEF Init, Asked, Scanned
  <2> QED
    BY <2>1, AccountedInit, LoopedInit
<1>2. I /\ [Next]_vars => I'
  BY AccountedStep, ScoresStep, LoopedStep, AskedStep
<1>3. I => EveryQuestionIsAsked
  <2> SUFFICES ASSUME I, Planned,
                      NEW p \in old \X new, {p[1], p[2]} \notin distinct,
                      input.score[p] >= Floor,
                      \A q \in modified \ scored : p[1] # q[1] /\ p[2] # q[2]
               PROVE  /\ p[1] \in removed => \E c \in candidates : c[1] = p[1]
                      /\ p[2] \in added => \E c \in candidates : c[2] = p[2]
    BY DEF EveryQuestionIsAsked
  <2>1. removed = old \ pairedOld /\ added = new \ pairedNew /\ rest = {}
    BY DEF Staged, Looped, Planned
  <2>2. p \in Scoreable
    BY DEF Scoreable, ScoreablePairs, Sections, Firsts, Seconds
  <2>3. CASE input.score[p] >= Bar
    <3>1. p \in scored
      BY <2>2, <2>3 DEF Asked, Scanned, Planned
    <3> QED
      BY <2>1, <3>1, ScoredIsNamed
  <2>4. CASE ~(input.score[p] >= Bar)
    <3>1. input.score[p] \in 0 .. 100
      <4>1. p \in input.old \X input.new
        BY DEF Scores
      <4>2. input.score \in [input.old \X input.new -> 0 .. 100]
        BY CaseAssumption DEF Scores
      <4> QED
        BY <4>1, <4>2
    <3>2. PICK a : a = input.score[p]
      OBVIOUS
    <3>3. Floor <= a /\ a < Bar
      BY <2>4, <3>1, <3>2, ThresholdAssumption
    <3>4. p \in SubThreshold
      BY <2>2, <3>2, <3>3, SubThresholdIs
    <3> QED
      BY <2>1, <3>4 DEF Asked, Planned
  <2> QED
    BY <2>3, <2>4
<1> QED
  BY <1>1, <1>2, <1>3, PTL DEF Spec

-----------------------------------------------------------------------------
(* Verdicts outrank rules *)

Changed == UnmatchedOld(input) \cup UnmatchedNew(input)
Done == verdicts \ toApply
Paired(ds) == {d \in ds : d.verdict = "paired"}
Void(ds) == {d \in Paired(ds) : ~(Ends(d) \subseteq Changed)}
PairSet(p) == {p[1], p[2]}

\* A verdict is on a clause of either edition, in one direction or the other.
Recorded ==
    /\ input \in Case
    /\ IsFiniteSet(verdicts)
    /\ \A d \in verdicts :
          \/ d.first \in input.old /\ d.second \in input.new
          \/ d.first \in input.new /\ d.second \in input.old
    /\ toApply \subseteq verdicts
    /\ old \subseteq UnmatchedOld(input) /\ new \subseteq UnmatchedNew(input)
    /\ stage # "verdicts" => toApply = {}

\* The strengthening: a paired verdict finds its clauses where they were until its
\* turn comes, and nobody finds them after.
Ruled ==
    /\ distinct = {Ends(d) : d \in {d \in Done : d.verdict = "distinct"}}
    /\ \A d \in Paired(toApply) : Ends(d) \subseteq Changed => Ends(d) \subseteq old \cup new
    /\ \A d \in Paired(Done) :
          Ends(d) \subseteq Changed =>
             /\ Ends(d) \cap (old \cup new) = {}
             /\ \E p \in modified : PairSet(p) = Ends(d)
    /\ unapplied = Cardinality(Void(Done))

\* What a rule pairs or offers is not ruled out.
Heeded ==
    /\ \A p \in modified :
          \/ \E d \in Paired(Done) : PairSet(p) = Ends(d) /\ Ends(d) \subseteq Changed
          \/ stage # "verdicts" /\ PairSet(p) \notin distinct
    /\ \A p \in scored : PairSet(p) \notin distinct /\ p \in old \X new
    /\ rest \subseteq scored
    /\ \A c \in candidates : PairSet(c) \notin distinct /\ c[1] \in old /\ c[2] \in new
    /\ stage = "verdicts" => scored = {} /\ candidates = {}

\* The clauses of an edition are not those of the other.
LEMMA SidesDiffer ==
    ASSUME Recorded
    PROVE  /\ input.old \cap input.new = {}
           /\ UnmatchedOld(input) \subseteq input.old
           /\ UnmatchedNew(input) \subseteq input.new
<1>1. /\ \A o \in input.old : o.side = "old"
      /\ \A n \in input.new : n.side = "new"
  BY CaseAssumption DEF Recorded
<1> QED
  BY <1>1 DEF UnmatchedOld, UnmatchedNew

\* The two ends of a verdict, where both are still there to be paired.
LEMMA EndsFound ==
    ASSUME Recorded, NEW d \in verdicts, Ends(d) \subseteq old \cup new
    PROVE  \E before \in old, after \in new : {before, after} = {d.first, d.second}
<1>1. d.first \in old \cup new /\ d.second \in old \cup new
  BY DEF Ends
<1>2. CASE d.first \in input.old /\ d.second \in input.new
  <2>1. d.first \in old /\ d.second \in new
    BY <1>1, <1>2, SidesDiffer DEF Recorded
  <2> QED
    BY <2>1
<1>3. CASE d.first \in input.new /\ d.second \in input.old
  <2>1. d.second \in old /\ d.first \in new
    BY <1>1, <1>3, SidesDiffer DEF Recorded
  <2>2. {d.second, d.first} = {d.first, d.second}
    OBVIOUS
  <2> QED
    BY <2>1, <2>2
<1> QED
  BY <1>2, <1>3 DEF Recorded

LEMMA RecordedStep ==
    ASSUME Recorded, [Next]_vars
    PROVE  Recorded'
<1>1. input' = input /\ verdicts' = verdicts /\ toApply' \subseteq toApply
  BY DEF Next, RuleOut, PairAsRecorded, Apply, PairSections, ScorePairs,
         Consider, RecordDeclines, Leftovers, vars
<1>2. old' \subseteq old /\ new' \subseteq new
  BY DEF Next, RuleOut, PairAsRecorded, Apply, Consumed, PairSections, ScorePairs,
         Consider, RecordDeclines, Leftovers, vars
<1>3. stage' # "verdicts" => toApply' = {}
  BY DEF Next, RuleOut, PairAsRecorded, Apply, PairSections, ScorePairs,
         Consider, RecordDeclines, Leftovers, vars, Recorded
<1> QED
  BY <1>1, <1>2, <1>3 DEF Recorded

\* One more verdict that does not apply.
LEMMA OneMoreVoid ==
    ASSUME NEW S, IsFiniteSet(S), NEW d, d \notin S, NEW n, n = Cardinality(S)
    PROVE  n + 1 = Cardinality(S \cup {d})
BY FS_AddElement

LEMMA RuledApply ==
    ASSUME Recorded, Ruled, ~ClashingVerdicts,
           NEW d \in toApply, RuleOut(d) \/ PairAsRecorded(d)
    PROVE  Ruled'
<1>1. /\ UNCHANGED <<input, verdicts>> /\ toApply' = toApply \ {d}
      /\ d \in verdicts /\ d \notin Done /\ Done' = Done \cup {d}
  BY DEF RuleOut, PairAsRecorded, Apply, Recorded, Done
<1>2. Changed' = Changed
  BY <1>1 DEF Changed
<1>3. CASE RuleOut(d)
  <2>1. /\ d.verdict = "distinct" /\ distinct' = distinct \cup {Ends(d)}
        /\ UNCHANGED <<old, new, unapplied, modified>>
    BY <1>3 DEF RuleOut, Ends
  <2>2. Paired(Done') = Paired(Done) /\ Paired(toApply') \subseteq Paired(toApply)
    BY <1>1, <2>1 DEF Paired
  <2>3. Void(Done)' = Void(Done)
    BY <1>2, <2>2 DEF Void
  <2>4. distinct' = {Ends(e) : e \in {e \in Done' : e.verdict = "distinct"}}
    BY <1>1, <2>1 DEF Ruled
  <2> QED
    BY <1>2, <2>1, <2>2, <2>3, <2>4 DEF Ruled
<1>4. CASE PairAsRecorded(d)
  <2>1. d.verdict = "paired" /\ UNCHANGED distinct
    BY <1>4 DEF PairAsRecorded
  <2>2. Paired(Done') = Paired(Done) \cup {d} /\ Paired(toApply') = Paired(toApply) \ {d}
    BY <1>1, <2>1 DEF Paired
  <2>3. distinct' = {Ends(e) : e \in {e \in Done' : e.verdict = "distinct"}}
    BY <1>1, <2>1 DEF Ruled
  <2>4. CASE \E before \in old, after \in new : {before, after} = {d.first, d.second}
    <3>1. PICK before \in old, after \in new :
             /\ {before, after} = Ends(d)
             /\ old' = old \ {before} /\ new' = new \ {after}
             /\ modified' = modified \cup {<<before, after>>}
             /\ UNCHANGED unapplied
      BY <1>4, <2>4 DEF PairAsRecorded, Consumed, Ends
    <3>2. \A e \in Paired(verdicts) : e # d => Ends(e) \cap Ends(d) = {}
      BY <1>1, <2>1 DEF ClashingVerdicts, Paired
    <3>3. Ends(d) \subseteq Changed
      BY <3>1 DEF Recorded, Changed
    <3>4. Void(Done)' = Void(Done)
      BY <1>2, <2>2, <3>3 DEF Void
    <3>5. \A e \in Paired(toApply') : Ends(e) \subseteq Changed => Ends(e) \subseteq old' \cup new'
      <4> TAKE e \in Paired(toApply')
      <4>1. e \in Paired(toApply) /\ e # d /\ Ends(e) \cap Ends(d) = {}
        BY <2>2, <3>2 DEF Paired, Recorded
      <4> QED
        BY <3>1, <4>1 DEF Ruled
    <3>6. Ends(d) \cap (old' \cup new') = {}
      <4>1. old \cap new = {}
        BY SidesDiffer DEF Recorded
      <4> QED
        BY <3>1, <4>1
    <3>7. PairSet(<<before, after>>) = Ends(d) /\ <<before, after>> \in modified'
      BY <3>1 DEF PairSet
    <3>8. ASSUME NEW e \in Paired(Done'), Ends(e) \subseteq Changed
          PROVE  /\ Ends(e) \cap (old' \cup new') = {}
                 /\ \E p \in modified' : PairSet(p) = Ends(e)
      <4>1. CASE e = d
        BY <3>6, <3>7, <4>1
      <4>2. CASE e \in Paired(Done)
        BY <3>1, <3>8, <4>2 DEF Ruled
      <4> QED
        BY <2>2, <4>1, <4>2
    <3> QED
      BY <1>2, <2>3, <3>1, <3>4, <3>5, <3>8 DEF Ruled
  <2>5. CASE ~\E before \in old, after \in new : {before, after} = {d.first, d.second}
    <3>1. unapplied' = unapplied + 1 /\ UNCHANGED <<old, new, modified>>
      BY <1>4, <2>5 DEF PairAsRecorded
    <3>2. d \in Paired(toApply)
      BY <2>1 DEF Paired
    <3>3. ~(Ends(d) \subseteq Changed)
      BY <1>1, <2>5, <3>2, EndsFound DEF Ruled
    <3>4. Void(Done)' = Void(Done) \cup {d} /\ d \notin Void(Done)
      BY <1>1, <1>2, <2>2, <3>3 DEF Void, Paired
    <3>5. IsFiniteSet(Void(Done))
      <4>1. Void(Done) \subseteq verdicts
        BY DEF Void, Paired, Done
      <4> QED
        BY <4>1, FS_Subset DEF Recorded
    <3>6. unapplied' = Cardinality(Void(Done)')
      BY <3>1, <3>4, <3>5, OneMoreVoid DEF Ruled
    <3>7. \A e \in Paired(Done') : Ends(e) \subseteq Changed => e \in Paired(Done)
      BY <2>2, <3>3
    <3> QED
      BY <1>2, <2>2, <2>3, <3>1, <3>6, <3>7 DEF Ruled
  <2> QED
    BY <2>4, <2>5
<1> QED
  BY <1>3, <1>4

LEMMA RuledStep ==
    ASSUME Recorded, Ruled, ~ClashingVerdicts, [Next]_vars
    PROVE  Ruled'
<1>1. ASSUME NEW d \in toApply, RuleOut(d) \/ PairAsRecorded(d)
      PROVE  Ruled'
  BY <1>1, RuledApply
<1>2. ASSUME UNCHANGED <<input, verdicts, toApply, old, new, distinct, unapplied>>,
             modified \subseteq modified'
      PROVE  Ruled'
  <2>1. /\ Changed' = Changed /\ Done' = Done
        /\ Paired(toApply') = Paired(toApply) /\ Paired(Done') = Paired(Done)
    BY <1>2 DEF Changed, Done, Paired
  <2>2. Void(Done)' = Void(Done)
    BY <2>1 DEF Void
  <2> QED
    BY <1>2, <2>1, <2>2 DEF Ruled
<1>3. CASE PairSections
  BY <1>2, <1>3 DEF PairSections
<1>4. CASE ScorePairs
  BY <1>2, <1>4 DEF ScorePairs
<1>5. ASSUME NEW pair \in rest, Consider(pair)
      PROVE  Ruled'
  BY <1>2, <1>5 DEF Consider
<1>6. CASE RecordDeclines
  BY <1>2, <1>6 DEF RecordDeclines
<1>7. CASE Leftovers
  BY <1>2, <1>7 DEF Leftovers
<1>8. CASE UNCHANGED vars
  BY <1>2, <1>8 DEF vars
<1> QED
  BY <1>1, <1>3, <1>4, <1>5, <1>6, <1>7, <1>8 DEF Next

LEMMA HeededStep ==
    ASSUME Recorded, Ruled, Heeded, ~ClashingVerdicts, [Next]_vars
    PROVE  Heeded'
<1>1. ASSUME NEW d \in toApply, RuleOut(d) \/ PairAsRecorded(d)
      PROVE  Heeded'
  <2>1. /\ UNCHANGED <<input, verdicts, stage, scored, rest, candidates>>
        /\ stage = "verdicts" /\ toApply' = toApply \ {d} /\ d \in verdicts
    BY <1>1 DEF RuleOut, PairAsRecorded, Apply, Recorded
  <2>2. /\ scored = {} /\ rest = {} /\ candidates = {}
    BY <2>1 DEF Heeded
  <2>3. Paired(Done) \subseteq Paired(Done') /\ Changed' = Changed
    BY <2>1 DEF Paired, Done, Changed
  <2>4. ASSUME NEW p \in modified'
        PROVE  \E e \in Paired(Done') : PairSet(p) = Ends(e) /\ Ends(e) \subseteq Changed
    <3>1. CASE p \in modified
      BY <2>1, <2>3, <3>1 DEF Heeded
    <3>2. CASE p \notin modified
      <4>1. PICK before \in old, after \in new :
               p = <<before, after>> /\ {before, after} = Ends(d) /\ d.verdict = "paired"
        BY <1>1, <2>4, <3>2 DEF RuleOut, PairAsRecorded, Ends
      <4>2. d \in Paired(Done')
        BY <2>1, <4>1 DEF Paired, Done, Recorded
      <4>3. PairSet(p) = Ends(d) /\ Ends(d) \subseteq Changed
        BY <4>1 DEF PairSet, Recorded, Changed
      <4> QED
        BY <4>2, <4>3
    <3> QED
      BY <3>1, <3>2
  <2> QED
    BY <2>1, <2>2, <2>3, <2>4 DEF Heeded
<1>2. ASSUME UNCHANGED <<input, verdicts, toApply, old, new, distinct>>,
             stage' # "verdicts"
      PROVE  Changed' = Changed /\ Paired(Done') = Paired(Done)
  BY <1>2 DEF Changed, Done, Paired
<1>3. CASE PairSections
  <2>1. /\ UNCHANGED <<input, verdicts, toApply, old, new, distinct, scored, rest, candidates>>
        /\ stage' = "sections" /\ modified' = modified \cup SectionPairs
        /\ stage = "verdicts"
    BY <1>3 DEF PairSections
  <2>2. \A p \in SectionPairs : PairSet(p) \notin distinct
    BY DEF SectionPairs, PairSet
  <2> QED
    BY <1>2, <2>1, <2>2 DEF Heeded
<1>4. CASE ScorePairs
  <2>1. /\ UNCHANGED <<input, verdicts, toApply, old, new, distinct, modified, candidates>>
        /\ stage = "sections" /\ stage' = "wording" /\ rest' = scored'
    BY <1>4 DEF ScorePairs
  <2>2. \A p \in scored' : PairSet(p) \notin distinct /\ p \in old \X new
    BY <1>4 DEF ScorePairs, ScoreablePairs, PairSet
  <2> QED
    BY <1>2, <2>1, <2>2 DEF Heeded
<1>5. ASSUME NEW pair \in rest, Consider(pair)
      PROVE  Heeded'
  <2>1. /\ UNCHANGED <<input, verdicts, toApply, old, new, distinct, scored, stage>>
        /\ stage = "wording" /\ rest' \subseteq rest
        /\ modified' \subseteq modified \cup {pair}
        /\ candidates' = candidates \cup {<<pair[1], pair[2], Outcome(pair)>>}
    BY <1>5 DEF Consider
  <2>2. PairSet(pair) \notin distinct /\ pair \in old \X new
    BY DEF Heeded
  <2>3. PICK c : c = <<pair[1], pair[2], Outcome(pair)>>
    OBVIOUS
  <2>4. PairSet(c) \notin distinct /\ c[1] \in old /\ c[2] \in new
    BY <2>2, <2>3 DEF PairSet
  <2>5. candidates' = candidates \cup {c}
    BY <2>1, <2>3
  <2> QED
    BY <1>2, <2>1, <2>2, <2>4, <2>5 DEF Heeded
<1>6. CASE RecordDeclines
  <2>1. /\ UNCHANGED <<input, verdicts, toApply, old, new, distinct, scored, rest, modified>>
        /\ stage = "wording" /\ stage' = "leftovers"
        /\ candidates' = candidates \cup
              {<<p[1], p[2], "below_threshold">> : p \in {p \in SubThreshold : WorthALook(p)}}
    BY <1>6 DEF RecordDeclines
  <2>2. ASSUME NEW c \in candidates'
        PROVE  PairSet(c) \notin distinct /\ c[1] \in old /\ c[2] \in new
    <3>1. CASE c \in candidates
      BY <3>1 DEF Heeded
    <3>2. CASE c \notin candidates
      <4>1. PICK p \in SubThreshold : c = <<p[1], p[2], "below_threshold">>
        BY <2>1, <2>2, <3>2
      <4>2. PairSet(p) \notin distinct /\ p[1] \in old /\ p[2] \in new
        BY DEF SubThreshold, ScoreablePairs, PairSet
      <4> QED
        BY <4>1, <4>2 DEF PairSet
    <3> QED
      BY <3>1, <3>2
  <2> QED
    BY <1>2, <2>1, <2>2 DEF Heeded
<1>7. CASE Leftovers
  <2>1. /\ UNCHANGED <<input, verdicts, toApply, old, new, distinct, scored, rest, modified,
                       candidates>>
        /\ stage = "leftovers" /\ stage' = "planned"
    BY <1>7 DEF Leftovers
  <2> QED
    BY <1>2, <2>1 DEF Heeded
<1>8. CASE UNCHANGED vars
  <2>1. Changed' = Changed /\ Paired(Done') = Paired(Done)
    BY <1>8 DEF vars, Changed, Done, Paired
  <2> QED
    BY <1>8, <2>1 DEF vars, Heeded
<1> QED
  BY <1>1, <1>3, <1>4, <1>5, <1>6, <1>7, <1>8 DEF Next

LEMMA RecordedInit == Init => Recorded /\ Ruled /\ Heeded
<1> SUFFICES ASSUME Init
             PROVE  Recorded /\ Ruled /\ Heeded
  OBVIOUS
<1> DEFINE ends == (input.old \X input.new) \cup (input.new \X input.old)
           all == {[first |-> e[1], second |-> e[2], verdict |-> v] :
                      e \in ends, v \in Verdict}
<1>1. verdicts \in UNION {kSubset(k, all) : k \in 0 .. MaxVerdicts}
  BY DEF Init, Recordable
<1>2. verdicts \subseteq all
  BY <1>1 DEF kSubset
<1>3. \A d \in all : \/ d.first \in input.old /\ d.second \in input.new
                     \/ d.first \in input.new /\ d.second \in input.old
  BY <1>1
<1>4. IsFiniteSet(all)
  <2> DEFINE f == [x \in ends \X Verdict |->
                      [first |-> x[1][1], second |-> x[1][2], verdict |-> x[2]]]
  <2>1. IsFiniteSet(input.old) /\ IsFiniteSet(input.new)
    BY CaseAssumption DEF Init
  <2>2. IsFiniteSet(ends)
    <3>1. IsFiniteSet(input.old \X input.new) /\ IsFiniteSet(input.new \X input.old)
      BY <2>1, FS_Product
    <3> QED
      BY <3>1, FS_Union
  <2>3. IsFiniteSet(Verdict)
    <3>1. Verdict = {"paired"} \cup {"distinct"}
      BY DEF Verdict
    <3>2. IsFiniteSet({"paired"})
      BY FS_Singleton
    <3> QED
      BY <3>1, <3>2, FS_AddElement
  <2>4. IsFiniteSet(ends \X Verdict)
    <3> HIDE DEF ends
    <3> QED
      BY <2>2, <2>3, FS_Product
  <2>5. f \in [ends \X Verdict -> all]
    <3> HIDE DEF ends
    <3> QED
      OBVIOUS
  <2>6. ASSUME NEW d \in all
        PROVE  \E x \in ends \X Verdict : f[x] = d
    <3> HIDE DEF ends
    <3>1. PICK e \in ends, v \in Verdict :
             d = [first |-> e[1], second |-> e[2], verdict |-> v]
      BY <2>6
    <3>2. f[<<e, v>>] = d
      BY <3>1
    <3> QED
      BY <3>2
  <2>7. f \in Surjection(ends \X Verdict, all)
    <3> HIDE DEF f, all, ends
    <3> QED
      BY <2>5, <2>6 DEF Surjection
  <2> HIDE DEF f, all, ends
  <2> QED
    BY <2>4, <2>7, FS_Surjection
<1>5. Recorded
  BY <1>2, <1>3, <1>4, FS_Subset DEF Init, Recorded
<1>6. Done = {} /\ Paired(Done) = {} /\ Void(Done) = {}
  BY DEF Init, Done, Paired, Void
<1>7. \A d \in Paired(toApply) : Ends(d) \subseteq Changed => Ends(d) \subseteq old \cup new
  BY DEF Init, Changed
<1>8. Ruled
  BY <1>6, <1>7, FS_EmptySet DEF Init, Ruled
<1>9. Heeded
  BY DEF Init, Heeded
<1> QED
  BY <1>5, <1>8, <1>9

\* In whatever order they are read, and whatever the rules would have said: a
\* paired verdict is applied unless one of its clauses did not change, and only
\* such are counted; what is ruled out is not paired; and what is settled is not
\* asked again.
THEOREM ReviewersOutrank == Spec => []VerdictsOutrankRules
<1> DEFINE I == /\ Recorded
                /\ ~ClashingVerdicts => Ruled /\ Heeded
<1>1. Init => I
  BY RecordedInit
<1>2. ASSUME I, [Next]_vars
      PROVE  I'
  <2>1. verdicts' = verdicts
    BY <1>2 DEF Next, RuleOut, PairAsRecorded, Apply, PairSections, ScorePairs,
       Consider, RecordDeclines, Leftovers, vars
  <2>2. ClashingVerdicts' = ClashingVerdicts
    BY <2>1 DEF ClashingVerdicts
  <2>3. Recorded'
    BY <1>2, RecordedStep
  <2>4. CASE ~ClashingVerdicts
    BY <1>2, <2>2, <2>3, <2>4, RuledStep, HeededStep
  <2>5. CASE ClashingVerdicts
    BY <2>2, <2>3, <2>5
  <2> QED
    BY <2>4, <2>5
<1>3. I => VerdictsOutrankRules
  <2> DEFINE pairs == {{p[1], p[2]} : p \in modified}
             asked == {{c[1], c[2]} : c \in candidates}
             settled(v) == {Ends(d) : d \in {d \in verdicts : d.verdict = v}}
             apply == {e \in settled("paired") : e \subseteq Changed}
  <2> SUFFICES ASSUME Recorded, Ruled, Heeded, Planned
               PROVE  /\ apply \subseteq pairs
                      /\ pairs \cap settled("distinct") \subseteq apply
                      /\ asked \cap (settled("paired") \cup settled("distinct")) = {}
                      /\ unapplied = Cardinality({d \in verdicts :
                                        d.verdict = "paired" /\ Ends(d) \notin apply})
    BY DEF VerdictsOutrankRules, Changed
  <2>1. Done = verdicts
    BY DEF Done, Recorded, Planned
  <2>2. distinct = settled("distinct")
    BY <2>1 DEF Ruled
  <2>3. \A d \in verdicts : d.verdict = "paired" =>
           (Ends(d) \in apply <=> Ends(d) \subseteq Changed)
    OBVIOUS
  <2>4. apply \subseteq pairs
    <3> SUFFICES ASSUME NEW d \in verdicts, d.verdict = "paired", Ends(d) \subseteq Changed
                 PROVE  Ends(d) \in pairs
      OBVIOUS
    <3>1. PICK p \in modified : PairSet(p) = Ends(d)
      BY <2>1 DEF Ruled, Paired
    <3> QED
      BY <3>1 DEF PairSet
  <2>5. pairs \cap settled("distinct") \subseteq apply
    <3> SUFFICES ASSUME NEW p \in modified, PairSet(p) \in distinct
                 PROVE  PairSet(p) \in apply
      BY <2>2 DEF PairSet
    <3>1. PICK d \in Paired(Done) : PairSet(p) = Ends(d) /\ Ends(d) \subseteq Changed
      BY DEF Heeded
    <3> QED
      BY <2>1, <3>1 DEF Paired
  <2>6. ASSUME NEW c \in candidates
        PROVE  PairSet(c) \notin settled("distinct") /\ PairSet(c) \notin settled("paired")
    <3>1. PairSet(c) \notin settled("distinct") /\ c[1] \in old /\ c[2] \in new
      BY <2>2 DEF Heeded
    <3>2. ASSUME NEW d \in verdicts, d.verdict = "paired", PairSet(c) = Ends(d)
          PROVE  FALSE
      <4>1. Ends(d) \subseteq Changed
        BY <3>1, <3>2 DEF PairSet, Recorded, Changed
      <4>2. Ends(d) \cap (old \cup new) = {}
        BY <2>1, <3>2, <4>1 DEF Ruled, Paired
      <4>3. c[1] \in Ends(d)
        BY <3>2 DEF PairSet
      <4> QED
        BY <3>1, <4>2, <4>3
    <3> QED
      BY <3>1, <3>2
  <2>7. asked \cap (settled("paired") \cup settled("distinct")) = {}
    BY <2>6 DEF PairSet
  <2>8. {d \in verdicts : d.verdict = "paired" /\ Ends(d) \notin apply} = Void(Done)
    BY <2>1, <2>3 DEF Void, Paired
  <2> QED
    BY <2>4, <2>5, <2>7, <2>8 DEF Ruled
<1> QED
  BY <1>1, <1>2, <1>3, PTL DEF Spec
=============================================================================
