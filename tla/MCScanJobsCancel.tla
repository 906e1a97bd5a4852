-------------------------- MODULE MCScanJobsCancel --------------------------
(***************************************************************************)
(* ScanJobsCancel for the model checker.                                   *)
(***************************************************************************)
EXTENDS ScanJobsCancel, MCScanJobs
=============================================================================
