------------------------------- MODULE MCSync -------------------------------
(* A machine, a row that may be deleted, and two syncs.                    *)
EXTENDS Sync

CONSTANTS host, finding, here, there
=============================================================================
