------------------------------ MODULE BuildLog ------------------------------
(***************************************************************************)
(* What the build record of an edition promises its reader, without queue, *)
(* workers or requests: the record is of the last run that started on the  *)
(* edition; a run that is recorded as finished is the one whose output the *)
(* edition holds; and whatever throws the output away forgets the record.  *)
(***************************************************************************)
CONSTANTS
    Version,    \* editions
    Run,        \* rebuild runs
    None        \* no output, no record

VARIABLES
    present,    \* the editions the graph holds
    layer,      \* the run whose output an edition holds
    record      \* the current or last build of an edition

vars == <<present, layer, record>>

Entry(r, state) == [run |-> r, state |-> state]

Init ==
    /\ present \in SUBSET Version
    /\ layer = [v \in Version |-> None]
    /\ record = [v \in Version |-> None]

\* A run starts on an edition, and becomes the one its record is of.
Open(v, r) ==
    /\ v \in present
    /\ record' = [record EXCEPT ![v] = Entry(r, "started")]
    /\ UNCHANGED <<present, layer>>

\* It replaces the edition's layer; or, when the record was forgotten under it,
\* it writes a layer nothing is recorded of.
Build(v, r) ==
    /\ v \in present
    /\ record[v] \in {Entry(r, "started"), None}
    /\ layer' = [layer EXCEPT ![v] = r]
    /\ UNCHANGED <<present, record>>

Finish(v, r) ==
    /\ record[v] = Entry(r, "started")
    /\ layer[v] = r
    /\ record' = [record EXCEPT ![v] = Entry(r, "finished")]
    /\ UNCHANGED <<present, layer>>

Fail(v, r) ==
    /\ record[v] = Entry(r, "started")
    /\ record' = [record EXCEPT ![v] = Entry(r, "failed")]
    /\ UNCHANGED <<present, layer>>

\* The edition is chunked anew, or arrives, or goes with its document.
Wipe(v) ==
    /\ present' \in {present \cup {v}, present \ {v}}
    /\ layer' = [layer EXCEPT ![v] = None]
    /\ record' = [record EXCEPT ![v] = None]

Next ==
    \E v \in Version :
        \/ Wipe(v)
        \/ \E r \in Run : Open(v, r) \/ Build(v, r) \/ Finish(v, r) \/ Fail(v, r)

Spec == Init /\ [][Next]_vars
=============================================================================
