----------------------------- MODULE MCScanJobs -----------------------------
(***************************************************************************)
(* ScanJobs for the model checker.                                         *)
(***************************************************************************)
EXTENDS ScanJobsInductive, TLC

CONSTANTS j1, j2, h1, h2

\* One request names both hosts, the other one of them.
MCRequested == j1 :> {h1, h2} @@ j2 :> {h1}

\* The threads that cancel are interchangeable.
Symmetry == Permutations(Cancellers)
=============================================================================
