---------------------------- MODULE JobLifecycle ----------------------------
(***************************************************************************)
(* What CveDeck promises about a scan job, as a poller of                  *)
(* GET /api/scans/jobs sees it: two tables, scan_jobs and                  *)
(* scan_job_targets, and the moves their rows may make.  Nothing is said   *)
(* here of threads, queues, credentials or locks: ScanJobs implements this *)
(* specification with those, and ScanJobs_proofs proves that it does.      *)
(***************************************************************************)
CONSTANTS
  Jobs,     \* identities a scan job can be given (uuid4 values, never reused)
  Hosts     \* the machines a job can list as targets

VARIABLES
  status,   \* status[j]: the scan_jobs row, or where there is none, why
  rows      \* rows[j][h]: the state of host h's scan_job_targets row in j

vars == <<status, rows>>

\* A job with no row has not been created yet, or was pruned.
Active == {"QUEUED", "RUNNING"}
Ended  == {"FINISHED", "INTERRUPTED", "CANCELLED"}
Status == {"ABSENT", "PRUNED"} \cup Active \cup Ended

\* A host the job does not list has no row.
RowState == {"NOROW", "QUEUED", "RUNNING", "DONE", "CANCELLED"}

NoRows == [h \in Hosts |-> "NOROW"]

\* The rows with every host the job has not reached marked cancelled.
CancelRows(rs) == [h \in Hosts |-> IF rs[h] = "QUEUED" THEN "CANCELLED" ELSE rs[h]]

-----------------------------------------------------------------------------
Init ==
  /\ status = [j \in Jobs |-> "ABSENT"]
  /\ rows = [j \in Jobs |-> NoRows]

\* A job is written down with the hosts it will scan, and those it could not
\* resolve a credential for already done; it is over at once if it has none to
\* scan.  Ended jobs may be pruned in the same transaction, active ones never.
Create(j, listed, todo, doomed) ==
  /\ status[j] = "ABSENT"
  /\ status' = [k \in Jobs |->
                  IF k = j THEN (IF todo = {} THEN "FINISHED" ELSE "QUEUED")
                  ELSE IF k \in doomed THEN "PRUNED" ELSE status[k]]
  /\ rows' = [k \in Jobs |->
                IF k = j THEN [h \in Hosts |-> IF h \in todo THEN "QUEUED"
                                               ELSE IF h \in listed THEN "DONE"
                                               ELSE "NOROW"]
                ELSE IF k \in doomed THEN NoRows ELSE rows[k]]

Begin(j) ==
  /\ status[j] = "QUEUED"
  /\ status' = [status EXCEPT ![j] = "RUNNING"]
  /\ UNCHANGED rows

\* Hosts are scanned one after another: none starts while another is running.
HostBegins(j, h) ==
  /\ status[j] = "RUNNING"
  /\ rows[j][h] = "QUEUED"
  /\ \A g \in Hosts : rows[j][g] # "RUNNING"
  /\ rows' = [rows EXCEPT ![j][h] = "RUNNING"]
  /\ UNCHANGED status

HostEnds(j, h) ==
  /\ status[j] = "RUNNING"
  /\ rows[j][h] = "RUNNING"
  /\ rows' = [rows EXCEPT ![j][h] = "DONE"]
  /\ UNCHANGED status

\* A job is finished when every host it lists has an outcome.
Finish(j) ==
  /\ status[j] = "RUNNING"
  /\ \A h \in Hosts : rows[j][h] \in {"NOROW", "DONE"}
  /\ status' = [status EXCEPT ![j] = "FINISHED"]
  /\ UNCHANGED rows

\* A job is cancelled before it starts or between two hosts: no host is left
\* half scanned, and at least one was not reached.
Cancel(j) ==
  /\ status[j] \in Active
  /\ \A h \in Hosts : rows[j][h] # "RUNNING"
  /\ \E h \in Hosts : rows[j][h] = "QUEUED"
  /\ status' = [status EXCEPT ![j] = "CANCELLED"]
  /\ rows' = [rows EXCEPT ![j] = CancelRows(@)]

\* Jobs that cannot go on are marked so, their rows left as they stand.
Interrupt(js) ==
  /\ js # {}
  /\ status' = [j \in Jobs |-> IF j \in js THEN "INTERRUPTED" ELSE status[j]]
  /\ UNCHANGED rows

Next ==
  \/ \E j \in Jobs : /\ status[j] = "ABSENT"
                     /\ \E listed \in SUBSET Hosts, doomed \in SUBSET {k \in Jobs : status[k] \in Ended} :
                          \E todo \in SUBSET listed : Create(j, listed, todo, doomed)
  \/ \E j \in Jobs : Begin(j) \/ Finish(j) \/ Cancel(j)
  \/ \E j \in Jobs, h \in Hosts : HostBegins(j, h) \/ HostEnds(j, h)
  \/ \E js \in SUBSET {j \in Jobs : status[j] \in Active} : Interrupt(js)

Spec == Init /\ [][Next]_vars
=============================================================================
