---------------------------- MODULE ReviewLedger ----------------------------
(***************************************************************************)
(* What the derived layer promises a reviewer, without editions, chunks,   *)
(* rebuilds or requests: a ledger of verdicts on pairs of clauses, a set   *)
(* of clauses that comes and goes, and links that are always exactly the   *)
(* approvals whose two clauses are present.  When the clauses are written  *)
(* anew a verdict stays on its pair or follows a clause to the new id of   *)
(* the same wording; it is never lost, merged or turned.                   *)
(***************************************************************************)
CONSTANTS
    Clause,     \* clause ids
    Wording,    \* what a clause says and in which edition, whatever its id
    Entry,      \* ledger entries
    Blank       \* an entry not yet used

Judgement == [source: Clause, target: Clause, verdict: {"approve", "reject"}]

VARIABLES
    present,    \* clauses the graph holds
    ledger,     \* the verdicts
    linked      \* the links in force

vars == <<present, ledger, linked>>

Linked(entries, clauses) ==
    {[source |-> entries[i].source, target |-> entries[i].target] :
        i \in {j \in Entry :
                 /\ entries[j] # Blank
                 /\ entries[j].verdict = "approve"
                 /\ entries[j].source \in clauses
                 /\ entries[j].target \in clauses}}

OnePerPair(entries) ==
    \A i, j \in Entry :
        /\ entries[i] # Blank
        /\ entries[j] # Blank
        /\ entries[i].source = entries[j].source
        /\ entries[i].target = entries[j].target
        => i = j

Init ==
    /\ present = {}
    /\ ledger = [i \in Entry |-> Blank]
    /\ linked = {}

\* A reviewer answers for a pair: a new entry, or a change of mind.
Judge(i, judgement) ==
    /\ ledger' = [ledger EXCEPT ![i] = judgement]
    /\ ledger[i] # Blank =>
         /\ ledger[i].source = judgement.source
         /\ ledger[i].target = judgement.target
    /\ OnePerPair(ledger')
    /\ linked' = Linked(ledger', present)
    /\ UNCHANGED present

Follows(old, new) ==
    \/ new = old
    \/ /\ old # Blank
       /\ new # Blank
       /\ Wording[new.source] = Wording[old.source]
       /\ Wording[new.target] = Wording[old.target]
       /\ new.verdict = old.verdict

\* Clauses come and go, and verdicts follow those that only changed their id.
Rewrite ==
    /\ present' \subseteq Clause
    /\ \A i \in Entry : Follows(ledger[i], ledger'[i])
    /\ ledger' \in [Entry -> Judgement \cup {Blank}]
    /\ OnePerPair(ledger')
    /\ linked' = Linked(ledger', present')

Next ==
    \/ Rewrite
    \/ \E i \in Entry, judgement \in Judgement : Judge(i, judgement)

Spec == Init /\ [][Next]_vars
=============================================================================
