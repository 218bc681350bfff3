----------------------------- MODULE MCDiffPlan -----------------------------
(* Two clauses in each edition, in every arrangement over two sections; each *)
(* pair scores nothing, under the bar (near its rival or well below), at the *)
(* bar or clear of it.                                                       *)
EXTENDS DiffPlan

CONSTANTS s1, s2

ClauseAt(side, section, statement) ==
    [side |-> side, section |-> section, statement |-> statement]

O1 == ClauseAt("old", s1, 1)
O2(section) == ClauseAt("old", section, 2)
N1(section) == ClauseAt("new", section, 3)
N2(section) == ClauseAt("new", section, 4)
Kept == ClauseAt("new", s1, 1)

Scores(o1, o2, n1, n2, grades) ==
    {s \in [{o1, o2} \X {n1, n2} -> {0, 60, 72, 76, 90}] :
        /\ s[<<o1, n1>>] # 60
        /\ s[<<o2, n1>>] # 60
        /\ s[<<o1, n2>>] # 72
        /\ s[<<o2, n2>>] \in grades}

Reworded ==
    UNION {{[old |-> {O1, O2(a)}, new |-> {N1(b), N2(c)}, score |-> score] :
                score \in Scores(O1, O2(a), N1(b), N2(c), {0, 76})} :
           a \in {s1, s2}, b \in {s1, s2}, c \in {s1, s2}}

\* The first clause is in both editions.
Unchanged ==
    UNION {{[old |-> {O1, O2(a)}, new |-> {Kept, N2(c)}, score |-> score] :
                score \in {s \in Scores(O1, O2(a), Kept, N2(c), {0, 72, 76}) :
                              \A p \in DOMAIN s : p # <<O2(a), N2(c)>> => s[p] = 90}} :
           a \in {s1, s2}, c \in {s1, s2}}

MCCase == Reworded \cup Unchanged
=============================================================================
