------------------------------ MODULE DiffPlan ------------------------------
(***************************************************************************)
(* How a diff of two editions decides which clause became which: the       *)
(* planning run that DerivedLayer's Diff leaves open.                      *)
(*                                                                         *)
(* A clause in both editions has not changed.  Of the rest, a reviewer's   *)
(* `paired` verdicts consume their clauses first; a section with one       *)
(* clause left on each side pairs them; what is still over is paired by    *)
(* wording, best score first, unless a rival is too close.  Every pair the *)
(* wording pass looked at is recorded as a candidate for the pairing       *)
(* queue, labelled with the rule that fired; all that stays unpaired is    *)
(* REMOVED or ADDED.  Dictionaries and equal scores are walked in any      *)
(* order.                                                                  *)
(*                                                                         *)
(* A definition marked "Variant" is a plausible mistake in the definition  *)
(* after it, used by no one.                                               *)
(***************************************************************************)
EXTENDS Integers, FiniteSets, FiniteSetsExt

CONSTANTS
    Section,        \* section paths
    Statement,      \* normalized statements
    Case,           \* inputs: [old, new, score], two editions and their scores
    MaxVerdicts,    \* verdicts on clauses of the two editions (bound)
    Floor,          \* MIN_CONFIDENCE, in hundredths
    Bar,            \* PAIRING_CONFIDENCE
    Margin          \* PAIRING_MARGIN

Clause == [side: {"old", "new"}, section: Section, statement: Statement]

Verdict == {"paired", "distinct"}

ASSUME CaseAssumption ==
    \A c \in Case : /\ c.old \subseteq {o \in Clause : o.side = "old"}
                    /\ c.new \subseteq {n \in Clause : n.side = "new"}
                    /\ IsFiniteSet(c.old) /\ IsFiniteSet(c.new)
                    /\ c.score \in [c.old \X c.new -> 0 .. 100]

ASSUME ThresholdAssumption ==
    /\ Floor \in Nat /\ Bar \in Nat /\ Margin \in Nat
    /\ 0 < Floor /\ Floor < Bar /\ 0 < Margin

VARIABLES
    input,          \* the case: old, new, score
    verdicts,       \* read_pairings: [first, second, verdict], one per ordered pair
    toApply,        \* verdicts the plan has not come to yet
    stage,          \* "verdicts", "sections", "wording", "leftovers", "planned"
    old, new,       \* unmatched_old, unmatched_new
    distinct,       \* pairs ruled out, each a set of two clauses
    unapplied,      \* pairings_unapplied
    modified,       \* MODIFIED changes, as pairs <<before, after>>
    pairedOld,      \* paired_old
    pairedNew,      \* paired_new
    scored,         \* pairs at or above the bar, when scoring was done
    rest,           \* those the greedy loop has not come to yet
    candidates,     \* PAIRING_CANDIDATE edges, <<before, after, outcome>>
    removed, added  \* the other changes

vars == <<input, verdicts, toApply, stage, old, new, distinct, unapplied, modified,
          pairedOld, pairedNew, scored, rest, candidates, removed, added>>

\* A clause's content key: where it stands and what it says, not its edition.
SameContent(o, n) == o.section = n.section /\ o.statement = n.statement

UnmatchedOld(c) == {o \in c.old : ~\E n \in c.new : SameContent(o, n)}
UnmatchedNew(c) == {n \in c.new : ~\E o \in c.old : SameContent(o, n)}

\* The verdicts a graph may hold on the clauses of a case.  A record is directional,
\* so one pair may have one in each direction.
Recordable(c) ==
    LET ends == (c.old \X c.new) \cup (c.new \X c.old)
        all == {[first |-> e[1], second |-> e[2], verdict |-> v] :
                    e \in ends, v \in Verdict}
    IN {ds \in UNION {kSubset(k, all) : k \in 0 .. MaxVerdicts} :
            \A d, e \in ds : d.first = e.first /\ d.second = e.second => d = e}

Init ==
    /\ input \in Case
    /\ verdicts \in Recordable(input)
    /\ toApply = verdicts
    /\ stage = "verdicts"
    /\ old = UnmatchedOld(input)
    /\ new = UnmatchedNew(input)
    /\ distinct = {}
    /\ unapplied = 0
    /\ modified = {}
    /\ pairedOld = {}
    /\ pairedNew = {}
    /\ scored = {}
    /\ rest = {}
    /\ candidates = {}
    /\ removed = {}
    /\ added = {}

-----------------------------------------------------------------------------
(* The reviewer's verdicts *)

Apply(d) ==
    /\ stage = "verdicts"
    /\ d \in toApply
    /\ toApply' = toApply \ {d}
    /\ UNCHANGED <<input, verdicts, stage, pairedOld, pairedNew, scored, rest,
                   candidates, removed, added>>

RuleOut(d) ==
    /\ Apply(d)
    /\ d.verdict = "distinct"
    /\ distinct' = distinct \cup {{d.first, d.second}}
    /\ UNCHANGED <<old, new, unapplied, modified>>

\* Variant: the clauses are marked, and stay in the sets later rules read.
ConsumedLater(before, after) == UNCHANGED <<old, new>>

\* A settled clause is no longer there for any later rule to see.
Consumed(before, after) ==
    /\ old' = old \ {before}
    /\ new' = new \ {after}

\* A record's direction is chronology, the plan's is the request's: both are tried.
PairAsRecorded(d) ==
    /\ Apply(d)
    /\ d.verdict = "paired"
    /\ UNCHANGED distinct
    /\ IF \E before \in old, after \in new : {before, after} = {d.first, d.second}
       THEN \E before \in old, after \in new :
              /\ {before, after} = {d.first, d.second}
              /\ Consumed(before, after)
              /\ modified' = modified \cup {<<before, after>>}
              /\ UNCHANGED unapplied
       ELSE /\ unapplied' = unapplied + 1
            /\ UNCHANGED <<old, new, modified>>

-----------------------------------------------------------------------------
(* Sections *)

In(section, clauses) == {c \in clauses : c.section = section}

\* Variant: structure outranks the reviewer.
SectionPairsUnruled ==
    {p \in old \X new : \E s \in Section : In(s, old) = {p[1]} /\ In(s, new) = {p[2]}}

\* A section holding exactly one changed clause on each side has been edited,
\* unless a reviewer said they are not one clause.
SectionPairs ==
    {p \in old \X new :
        /\ \E s \in Section : In(s, old) = {p[1]} /\ In(s, new) = {p[2]}
        /\ {p[1], p[2]} \notin distinct}

PairSections ==
    /\ stage = "verdicts"
    /\ toApply = {}
    /\ stage' = "sections"
    /\ modified' = modified \cup SectionPairs
    /\ pairedOld' = {p[1] : p \in SectionPairs}
    /\ pairedNew' = {p[2] : p \in SectionPairs}
    /\ UNCHANGED <<input, verdicts, toApply, old, new, distinct, unapplied, scored,
                   rest, candidates, removed, added>>

-----------------------------------------------------------------------------
(* Wording *)

\* A pair ruled out is skipped before it is scored.
ScoreablePairs(o, n) == {p \in o \X n : {p[1], p[2]} \notin distinct}

ScorePairs ==
    LET pairs == ScoreablePairs(old \ pairedOld, new \ pairedNew) IN
    /\ stage = "sections"
    /\ stage' = "wording"
    /\ scored' = {p \in pairs : input.score[p] >= Bar}
    /\ rest' = scored'
    /\ UNCHANGED <<input, verdicts, toApply, old, new, distinct, unapplied, modified,
                   pairedOld, pairedNew, candidates, removed, added>>

\* The best score either clause of a pair reached with another partner.
BestElsewhere(pair) ==
    LET rivals == {p \in scored \ {pair} : p[1] = pair[1] \/ p[2] = pair[2]} IN
    Max({0} \cup {input.score[p] : p \in rivals})

\* Variant: a tie is settled by the order of the dictionary.
OutcomeUnlessBeaten(pair) ==
    CASE pair[1] \in pairedOld \/ pair[2] \in pairedNew -> "partner_taken"
      [] input.score[pair] < BestElsewhere(pair) -> "contested"
      [] OTHER -> "auto_paired"

\* The first rule that fires for a pair when the loop comes to it.
Outcome(pair) ==
    IF pair[1] \in pairedOld \/ pair[2] \in pairedNew THEN "partner_taken"
    ELSE IF input.score[pair] - BestElsewhere(pair) < Margin THEN "contested"
    ELSE "auto_paired"

\* One turn of the greedy loop, best score first.
Consider(pair) ==
    LET won == IF Outcome(pair) = "auto_paired" THEN {pair} ELSE {} IN
    /\ stage = "wording"
    /\ pair \in rest
    /\ \A p \in rest : input.score[p] <= input.score[pair]
    /\ rest' = rest \ {pair}
    /\ candidates' = candidates \cup {<<pair[1], pair[2], Outcome(pair)>>}
    /\ modified' = modified \cup won
    /\ pairedOld' = pairedOld \cup {p[1] : p \in won}
    /\ pairedNew' = pairedNew \cup {p[2] : p \in won}
    /\ UNCHANGED <<input, verdicts, toApply, stage, old, new, distinct, unapplied,
                   scored, removed, added>>

\* The pairs under the bar, as they were found before the loop: none of them has
\* an endpoint the section rule had paired.
SubThreshold ==
    LET sections == {p \in modified : p \notin scored} IN
    {p \in ScoreablePairs(old \ {q[1] : q \in sections}, new \ {q[2] : q \in sections}) :
        Floor <= input.score[p] /\ input.score[p] < Bar}

\* Variant: the best is taken over every pair, those ruled out included.
WorthALookShadowed(pair) ==
    LET Under == {p \in old \X new : Floor <= input.score[p] /\ input.score[p] < Bar}
        Best(end) == Max({input.score[p] : p \in {p \in Under : p[end] = pair[end]}})
        Near(end) == Best(end) - input.score[pair] < Margin
    IN \/ pair[1] \notin pairedOld /\ Near(1)
       \/ pair[2] \notin pairedNew /\ Near(2)

\* A pair under the bar is worth a look where one of its clauses ended unpaired
\* and has none much better.
WorthALook(pair) ==
    LET Best(end) == Max({input.score[p] : p \in {p \in SubThreshold : p[end] = pair[end]}})
        Near(end) == Best(end) - input.score[pair] < Margin
    IN \/ pair[1] \notin pairedOld /\ Near(1)
       \/ pair[2] \notin pairedNew /\ Near(2)

RecordDeclines ==
    /\ stage = "wording"
    /\ rest = {}
    /\ stage' = "leftovers"
    /\ candidates' = candidates \cup
        {<<p[1], p[2], "below_threshold">> : p \in {p \in SubThreshold : WorthALook(p)}}
    /\ UNCHANGED <<input, verdicts, toApply, old, new, distinct, unapplied, modified,
                   pairedOld, pairedNew, scored, rest, removed, added>>

Leftovers ==
    /\ stage = "leftovers"
    /\ stage' = "planned"
    /\ removed' = old \ pairedOld
    /\ added' = new \ pairedNew
    /\ UNCHANGED <<input, verdicts, toApply, old, new, distinct, unapplied, modified,
                   pairedOld, pairedNew, scored, rest, candidates>>

Next ==
    \/ \E d \in toApply : RuleOut(d) \/ PairAsRecorded(d)
    \/ PairSections
    \/ ScorePairs
    \/ \E pair \in rest : Consider(pair)
    \/ RecordDeclines
    \/ Leftovers

Spec == Init /\ [][Next]_vars

-----------------------------------------------------------------------------
Planned == stage = "planned"

\* What DerivedLayer's Diff asks of a plan: each clause that is not in both
\* editions is in exactly one change, and MODIFIED pairs clauses one to one.
EveryClauseOnce ==
    Planned =>
        /\ \A p, q \in modified : p[1] = q[1] \/ p[2] = q[2] => p = q
        /\ removed \cap {p[1] : p \in modified} = {}
        /\ added \cap {p[2] : p \in modified} = {}
        /\ removed \cup {p[1] : p \in modified} = UnmatchedOld(input)
        /\ added \cup {p[2] : p \in modified} = UnmatchedNew(input)

Ends(d) == {d.first, d.second}

\* Two paired verdicts on one clause, or two on one pair in opposite directions.
ClashingVerdicts ==
    \E d, e \in verdicts :
        /\ d # e
        /\ d.verdict = "paired" /\ e.verdict = "paired"
        /\ Ends(d) \cap Ends(e) # {}

\* A person outranks every rule.  In whatever order they are read, a paired
\* verdict is applied unless one of its clauses did not change, and only such
\* are counted as unapplied; a pair ruled out is not paired; and no settled pair
\* is offered to a reviewer again ("every candidate edge between these two
\* editions is an open question by construction", routers/pairings.py).
VerdictsOutrankRules ==
    Planned /\ ~ClashingVerdicts =>
        LET changed == UnmatchedOld(input) \cup UnmatchedNew(input)
            pairs == {{p[1], p[2]} : p \in modified}
            asked == {{c[1], c[2]} : c \in candidates}
            settled(v) == {Ends(d) : d \in {d \in verdicts : d.verdict = v}}
            apply == {e \in settled("paired") : e \subseteq changed}
        IN /\ apply \subseteq pairs
           /\ pairs \cap settled("distinct") \subseteq apply
           /\ asked \cap (settled("paired") \cup settled("distinct")) = {}
           /\ unapplied = Cardinality({d \in verdicts : /\ d.verdict = "paired"
                                                        /\ Ends(d) \notin apply})

\* What the wording pass pairs and how it labels the rest does not depend on the
\* order of equal scores: a pair is made exactly when no other pair of either
\* clause comes within the margin, and "partner_taken" is said exactly of the
\* pairs that have an auto_paired winner to point at.
WordingIsOrderFree ==
    LET clear == {p \in scored : input.score[p] - BestElsewhere(p) >= Margin}
        taken == {p \in scored \ clear : \E q \in clear : p[1] = q[1] \/ p[2] = q[2]}
        labelled(outcome) ==
            {<<c[1], c[2]>> : c \in {c \in candidates : c[3] = outcome}}
    IN Planned =>
        /\ labelled("auto_paired") = clear
        /\ labelled("partner_taken") = taken
        /\ labelled("contested") = scored \ (clear \cup taken)

\* Nothing a reviewer could settle is out of their reach: each clause reported
\* as gone or new that resembles a clause the earlier rules left over, and not
\* one ruled out for it, is named by some candidate; "a score the reviewer
\* rejected must not shadow the endpoint's next-best live candidate".
EveryQuestionIsAsked ==
    Planned =>
        LET open == {p \in old \X new :
                        /\ {p[1], p[2]} \notin distinct
                        /\ input.score[p] >= Floor
                        /\ \A q \in modified \ scored : p[1] # q[1] /\ p[2] # q[2]}
        IN \A p \in open :
            /\ p[1] \in removed => \E c \in candidates : c[1] = p[1]
            /\ p[2] \in added => \E c \in candidates : c[2] = p[2]
=============================================================================
