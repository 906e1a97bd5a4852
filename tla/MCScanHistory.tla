---------------------------- MODULE MCScanHistory ----------------------------
(***************************************************************************)
(* ScanHistory for the model checker.                                      *)
(***************************************************************************)
EXTENDS ScanHistory

CONSTANTS user, counted, kernel
=============================================================================
