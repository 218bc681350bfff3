------------------------------- MODULE MCRuns -------------------------------
(* Runs over a few editions: with two workers, and with the one of compose. *)
EXTENDS RebuildRuns, TLC

\* Runs, requests, workers and editions are interchangeable (safety only).
MCSymmetry ==
    Permutations(Run) \cup Permutations(Request) \cup Permutations(Worker)
    \cup Permutations(Version)
=============================================================================
