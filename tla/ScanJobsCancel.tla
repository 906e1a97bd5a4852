--------------------------- MODULE ScanJobsCancel ---------------------------
(***************************************************************************)
(* ScanJobs with a history variable that follows the cancels that were     *)
(* accepted, and the invariant that ties it to the jobs' own state.        *)
(***************************************************************************)
EXTENDS ScanJobsInductive

VARIABLE allowance  \* how many hosts of a job may still begin: 2 stands for any

cancelVars == <<vars, allowance>>

Begins(j) == \E h \in Hosts : rows[j][h] # "RUNNING" /\ rows'[j][h] = "RUNNING"

CancelInit == Init /\ allowance = [j \in Jobs |-> 2]

\* An accepted cancel leaves a job that has started the host the engine has
\* already decided on, and one whose credentials it took none.
Allow ==
  allowance' = [j \in Jobs |->
    IF status'[j] \notin Active THEN 2
    ELSE IF j \in credentials \ credentials' /\ Writers(j)' # {} THEN 0
    ELSE IF allowance[j] = 2 /\ j \in cancelRequested' \ cancelRequested THEN 1
    ELSE IF allowance[j] = 1 /\ Begins(j) THEN 0 ELSE allowance[j]]

CancelNext == Next /\ Allow

CancelSpec == CancelInit /\ [][CancelNext]_cancelVars

\* A cancelled job scans no further host: none if it had not started, and else
\* at most the one the engine had decided on when the cancel came (Req 19.7,
\* 19.8).
CancelStopsTheScan == [][\A j \in Jobs : Begins(j) => allowance[j] > 0]_cancelVars

-----------------------------------------------------------------------------
\* Where a job with nothing left to begin can be: in the hands of a run_job that
\* will ask before it goes on, or out of reach of any, its credentials gone.
Stopped(j) ==
  \/ run[j] \in {"loop", "scan", "close"} /\ j \in cancelRequested
  \/ /\ j \notin credentials /\ request[j] \notin {"idle", "created"}
     /\ run[j] \notin {"start", "loop", "next", "scan", "close"}

AllowanceOf(j) ==
  /\ status[j] \notin Active => allowance[j] = 2
  /\ allowance[j] = 0 => Stopped(j)
  /\ allowance[j] = 1 => j \in cancelRequested \/ run[j] \in {"returned", "raised"} \/ ~up
  /\ allowance[j] = 1 => NoHolder(j)

AllowanceInv ==
  /\ allowance \in [Jobs -> 0 .. 2]
  /\ \A j \in Jobs : AllowanceOf(j)
=============================================================================
