-------------------------- MODULE ScanJobsInductive --------------------------
(***************************************************************************)
(* The inductive invariant of ScanJobs: what its theorems rest on, stated  *)
(* apart from their proofs so that the model checker evaluates it too.     *)
(***************************************************************************)
EXTENDS ScanJobs

\* run_job between its read of the job and its end: it holds the slot.
InSlot == {"claim", "orphan", "start", "loop", "next", "scan", "close", "unwind", "cleanup", "cleanupErr"}
\* run_job past its claim on the credentials.
Claimed == InSlot \ {"claim"}
\* run_job once the job's row reads RUNNING and until it is closed.
Scanning == {"loop", "next", "scan", "close", "unwind"}

\* A canceller that took the credentials of j, until it has left cancel_job.
Holds(c, j) == cancel[c].at \in {"write", "finally"} /\ cancel[c].job = j
NoHolder(j) == \A c \in Cancellers : ~Holds(c, j)

\* A process that is down has no memory and no threads.
DownInv ==
  ~up => /\ credentials = {} /\ cancelRequested = {} /\ handoffs = {}
         /\ slot = NoJob /\ busy = NoJob /\ queue = <<>>
         /\ \A j \in Jobs : run[j] = "none" /\ request[j] \notin {"created", "held", "waited", "waiting"}
         /\ \A c \in Cancellers : cancel[c] = NoCancel

\* The slot is held by the thread that runs the job, and by it alone.
SlotInv == \A j \in Jobs : run[j] \in InSlot => slot = j

\* A job is handed over once, after it was written down, and runs once.
HandoverInv ==
  /\ \A j \in Jobs : request[j] = "idle" <=> status[j] = "ABSENT"
  /\ \A j \in Jobs : request[j] \in {"idle", "created", "held", "waited"} => run[j] = "none"
  /\ \A i \in DOMAIN queue : run[queue[i]] = "none"
                             /\ request[queue[i]] \notin {"idle", "created", "held", "waited"}
  /\ \A i, k \in DOMAIN queue : queue[i] = queue[k] => i = k

\* The credentials have one owner at a time, and once taken never come back.
OwnerInv ==
  /\ \A j \in credentials :
       /\ request[j] \notin {"idle", "created"}
       /\ run[j] \notin Claimed
       /\ status[j] = "QUEUED"
       /\ NoHolder(j)
  /\ \A j \in Jobs, c \in Cancellers : Holds(c, j) =>
       /\ request[j] \notin {"idle", "created"}
       /\ run[j] \notin Claimed
       /\ j \in cancelRequested
       /\ cancel[c].at = "write" => status[j] = "QUEUED"
       /\ \A d \in Cancellers : Holds(d, j) => c = d

\* What the row says of a job whose credentials are not held yet, and of one
\* run_job has in hand.
StatusInv ==
  \A j \in Jobs :
    /\ request[j] = "created" => status[j] = "QUEUED"
    /\ run[j] = "start" => status[j] = "QUEUED"
    /\ run[j] \in Scanning => status[j] = "RUNNING"

\* What the target rows say: at most one host is being scanned, and only while
\* run_job scans it; a job that is queued has a host to scan.
RowsOf(j) ==
  /\ status[j] = "QUEUED" => /\ \A h \in Hosts : rows[j][h] \in {"NOROW", "QUEUED", "DONE"}
                             /\ \E h \in Hosts : rows[j][h] = "QUEUED"
  /\ run[j] \in {"loop", "next", "close"} => \A h \in Hosts : rows[j][h] \in {"NOROW", "QUEUED", "DONE"}
  /\ run[j] = "scan" => \A h \in Hosts : rows[j][h] # "CANCELLED"
  /\ run[j] = "scan" => \A g, h \in Hosts : rows[j][g] = "RUNNING" /\ rows[j][h] = "RUNNING" => g = h
  /\ run[j] = "close" => Waiting(j) = {} \/ j \in cancelRequested
RowsInv == \A j \in Jobs : RowsOf(j)

\* A session that read the job as it was written down read what still stands
\* while the row says so.
BornInv == \A j \in Jobs : status[j] = "QUEUED" => born[j].as = "QUEUED"

\* Where a job that has not ended is: on its way from the request through the
\* queue to run_job, and its credentials with one of those who may own it.
InQueue(j) == \E i \in DOMAIN queue : queue[i] = j
Carried(j) ==
  /\ status[j] = "QUEUED" =>
       \/ request[j] \in {"created", "held", "waited"} \/ InQueue(j)
       \/ run[j] \in {"entry", "claim", "orphan", "start"} \/ Writers(j) # {}
  /\ status[j] = "QUEUED" =>
       \/ request[j] = "created" \/ j \in credentials
       \/ run[j] \in {"orphan", "start"} \/ Writers(j) # {}
  /\ status[j] = "RUNNING" => run[j] \in Scanning
CarriedInv == up /\ workerUp /\ faults = 0 => \A j \in Jobs : Carried(j)

IInv ==
  /\ TypeOK /\ DownInv /\ SlotInv /\ HandoverInv
  /\ OwnerInv /\ StatusInv /\ RowsInv /\ BornInv /\ CarriedInv
=============================================================================
