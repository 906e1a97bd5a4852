------------------------------ MODULE ScanJobs ------------------------------
(***************************************************************************)
(* services/scan_jobs.py: scans run in the background as jobs, one at a    *)
(* time, with per-host progress, cancellation and interruption.            *)
(*                                                                         *)
(* Four kinds of thread move a job, and each keeps a program counter here: *)
(*   request[j]  the request (or schedule tick) that writes j down, holds  *)
(*               its credentials, hands it to the worker and, for          *)
(*               POST /api/scans, waits for it;                            *)
(*   busy        the worker, which takes jobs off its queue in order;      *)
(*   run[j]      run_job(j), on the worker's thread or, where there is no  *)
(*               worker, on the request's;                                 *)
(*   cancel[c]   a request executing cancel_job.                           *)
(* An action is what one of them does between two points where another can *)
(* be seen to act: a commit, a critical section under _credentials_lock,   *)
(* the acquisition of _scan_slot, a read of shared state.                  *)
(*                                                                         *)
(* Abstracted: a host's outcome, its counts and messages (the row is DONE  *)
(* whatever the outcome), who asked for a cancel, and the order of the     *)
(* hosts in a job (any order).  A graceful shutdown puts a stop marker     *)
(* behind the queued jobs and waits 5 seconds: a few more steps of the     *)
(* worker, then Crash.                                                     *)
(***************************************************************************)
EXTENDS Naturals, Sequences, FiniteSets

CONSTANTS
  Jobs,         \* identities a scan job can be given (uuid4 values)
  Hosts,        \* the machines a job can list as targets
  Requested,    \* Requested[j]: the machines the request behind job j names
  Cancellers,   \* request threads that may execute cancel_job
  NoJob,        \* no job
  MaxJobs,      \* MAX_JOBS: how many jobs are kept, 100 in the code
  WorkerModes,  \* may the process run with a worker (TRUE) or without (FALSE)
  MaxFaults,    \* bound: commits refused, engines that cannot be built, and stops
  MaxCrashes    \* bound: times the process stops

ASSUME JobsAssumption == IsFiniteSet(Jobs) /\ NoJob \notin Jobs
ASSUME RequestedAssumption == Requested \in [Jobs -> (SUBSET Hosts) \ {{}}]
ASSUME BoundsAssumption ==
  /\ MaxJobs \in Nat \ {0}
  /\ MaxFaults \in Nat
  /\ MaxCrashes \in Nat
  /\ WorkerModes \subseteq BOOLEAN

VARIABLES
  \* The database
  status,           \* status[j]: ScanJob.status, "ABSENT" or "PRUNED" where no row
  rows,             \* rows[j][h]: ScanJobTarget.state, "NOROW" where no row
  born,             \* born[j]: how j was written down, the rank of its created_at and its status
  \* The process's memory
  credentials,      \* _credentials: the jobs whose credentials are held
  cancelRequested,  \* _cancel_requested: the jobs someone asked to cancel
  handoffs,         \* _handoffs: the jobs a request is waiting on
  slot,             \* _scan_slot: the job whose run_job holds it
  workerUp,         \* _worker is not None
  queue,            \* ScanJobWorker._queue
  \* Its threads
  busy, request, run, cancel,
  \* The environment
  up, faults, crashes

dbVars     == <<status, rows, born>>
memoryVars == <<credentials, cancelRequested, handoffs, slot, workerUp, queue>>
threadVars == <<busy, request, run, cancel>>
envVars    == <<up, faults, crashes>>
vars       == <<dbVars, memoryVars, threadVars, envVars>>

Active == {"QUEUED", "RUNNING"}
Ended  == {"FINISHED", "INTERRUPTED", "CANCELLED"}
Status == {"ABSENT", "PRUNED"} \cup Active \cup Ended
RowState == {"NOROW", "QUEUED", "RUNNING", "DONE", "CANCELLED"}

\* The rows run_job still has to deal with: those not DONE.
Pending(j) == {h \in Hosts : rows[j][h] \notin {"NOROW", "DONE"}}
\* The hosts the engine has not come to yet.
Waiting(j) == {h \in Hosts : rows[j][h] = "QUEUED"}

CancelRows(rs) == [h \in Hosts |-> IF rs[h] = "QUEUED" THEN "CANCELLED" ELSE rs[h]]

\* Where a request is with its job.  "held": written down and its credentials
\* held, from where start_scan_job and the schedule submit it and are "done",
\* while initiate_scan (POST /api/scans) lists it in _handoffs ("waited") and
\* blocks on its _Handoff ("waiting").
RequestAt == {"idle", "created", "held", "waited", "waiting", "done", "answered", "failed", "lost"}
\* Where run_job is.  "unwind" is its except clause, "cleanup" and "cleanupErr"
\* its finally clause, returning or re-raising; "returned" and "raised" its end.
RunAt == {"none", "entry", "claim", "orphan", "start", "loop", "next", "scan", "close",
          "unwind", "cleanup", "cleanupErr", "returned", "raised"}
CancelAt == {"asked", "write", "finally"}
NoCancel == [at |-> "idle", job |-> NoJob]
CancelThread == [at : CancelAt, job : Jobs] \cup {NoCancel}

-----------------------------------------------------------------------------
\* A commit the database refuses ("database is locked" past the busy timeout),
\* or an engine that cannot be built from its configuration.
Fault == faults + crashes < MaxFaults /\ faults' = faults + 1
NoFault == UNCHANGED faults

Init ==
  /\ status = [j \in Jobs |-> "ABSENT"]
  /\ rows = [j \in Jobs |-> [h \in Hosts |-> "NOROW"]]
  /\ born = [j \in Jobs |-> [at |-> 0, as |-> "ABSENT"]]
  /\ credentials = {} /\ cancelRequested = {} /\ handoffs = {}
  /\ slot = NoJob
  /\ workerUp \in WorkerModes
  /\ queue = <<>>
  /\ busy = NoJob
  /\ request = [j \in Jobs |-> "idle"]
  /\ run = [j \in Jobs |-> "none"]
  /\ cancel = [c \in Cancellers |-> NoCancel]
  /\ up = TRUE /\ faults = 0 /\ crashes = 0

-----------------------------------------------------------------------------
(* The request: create_job, then submit or run_in_turn.                    *)

Created == {j \in Jobs : status[j] # "ABSENT"}
Kept == {j \in Jobs : status[j] \notin {"ABSENT", "PRUNED"}}

\* _prune, run in the transaction that adds a job: of the rows there are then,
\* the new one included, all but the newest MaxJobs, unless active.
\* Mutant: active jobs are pruned too.
DoomedActive == {k \in Kept : 1 + Cardinality({i \in Kept : born[i].at > born[k].at}) >= MaxJobs}
Doomed == {k \in Kept : /\ status[k] \in Ended
                        /\ 1 + Cardinality({i \in Kept : born[i].at > born[k].at}) >= MaxJobs}

\* create_job to its commit.  The hosts no credentials could be worked out for
\* are done already; with no other the job is finished on the spot, and has no
\* credentials to hold.
CreateJob(j, todo) ==
  /\ up
  /\ status[j] = "ABSENT" /\ request[j] = "idle"
  /\ todo \subseteq Requested[j]
  /\ status' = [k \in Jobs |->
                  IF k = j THEN (IF todo = {} THEN "FINISHED" ELSE "QUEUED")
                  ELSE IF k \in Doomed THEN "PRUNED" ELSE status[k]]
  /\ rows' = [k \in Jobs |->
                IF k = j THEN [h \in Hosts |-> IF h \in todo THEN "QUEUED"
                                               ELSE IF h \in Requested[j] THEN "DONE"
                                               ELSE "NOROW"]
                ELSE IF k \in Doomed THEN [h \in Hosts |-> "NOROW"] ELSE rows[k]]
  /\ born' = [born EXCEPT ![j] = [at |-> 1 + Cardinality(Created), as |-> status'[j]]]
  /\ request' = [request EXCEPT ![j] = IF todo = {} THEN "held" ELSE "created"]
  /\ UNCHANGED <<memoryVars, busy, run, cancel, envVars>>

\* The credentials are put aside after the commit: for a moment the job can be
\* seen, and cancelled, with nothing held for it.
HoldCredentials(j) ==
  /\ request[j] = "created"
  /\ credentials' = credentials \cup {j}
  /\ request' = [request EXCEPT ![j] = "held"]
  /\ UNCHANGED <<dbVars, cancelRequested, handoffs, slot, workerUp, queue, busy, run, cancel, envVars>>

\* start_scan_job and the schedule's _start: the job goes to the worker if it is
\* QUEUED in their session, which read it back once, after create_job's commit.
\* Without a worker it stays where it is.
Submit(j) ==
  /\ request[j] = "held"
  /\ queue' = IF born[j].as = "QUEUED" /\ workerUp THEN Append(queue, j) ELSE queue
  /\ request' = [request EXCEPT ![j] = "done"]
  /\ UNCHANGED <<dbVars, credentials, cancelRequested, handoffs, slot, workerUp, busy, run, cancel, envVars>>

\* _waited_on, entered by run_in_turn once create_job has returned.
WaitOn(j) ==
  /\ request[j] = "held"
  /\ handoffs' = handoffs \cup {j}
  /\ request' = [request EXCEPT ![j] = "waited"]
  /\ UNCHANGED <<dbVars, credentials, cancelRequested, slot, workerUp, queue, busy, run, cancel, envVars>>

\* run_in_turn: the job takes its place in the queue, whatever its status; or,
\* without a worker, this thread runs it.
HandOver(j) ==
  /\ request[j] = "waited"
  /\ request' = [request EXCEPT ![j] = "waiting"]
  /\ IF workerUp
     THEN queue' = Append(queue, j) /\ UNCHANGED run
     ELSE run' = [run EXCEPT ![j] = "entry"] /\ UNCHANGED queue
  /\ UNCHANGED <<dbVars, credentials, cancelRequested, handoffs, slot, workerUp, busy, cancel, envVars>>

\* After the commit the job is read back from the database, for its id, and that
\* read may fail: the request ends with the job written down but not handed to
\* anyone.
RequestFails(j) ==
  /\ request[j] = "created"
  /\ Fault
  /\ request' = [request EXCEPT ![j] = "failed"]
  /\ UNCHANGED <<dbVars, memoryVars, busy, run, cancel, up, crashes>>

\* run_job has returned or raised: its caller goes on.
\* Mutant: an exception does not end the wait.
OverUnlessRaised(j) == run[j] = "returned"
Over(j) == run[j] \in {"returned", "raised"}

\* The wait is over: the request answers, or raises what run_job raised.
HandoffReturns(j) ==
  /\ request[j] = "waiting"
  /\ Over(j) /\ busy # j
  /\ handoffs' = handoffs \ {j}
  /\ request' = [request EXCEPT ![j] = IF run[j] = "raised" THEN "failed" ELSE "answered"]
  /\ UNCHANGED <<dbVars, credentials, cancelRequested, slot, workerUp, queue, busy, run, cancel, envVars>>

-----------------------------------------------------------------------------
(* The worker: ScanJobWorker._run.                                         *)

\* An item is taken only once run_job has left the one before it.  A handoff
\* brings its own session and engine; for any other job they are built here,
\* and a failure to do so is logged and nothing else.
WorkerTakes ==
  /\ workerUp /\ busy = NoJob /\ queue # <<>>
  /\ busy' = Head(queue)
  /\ queue' = Tail(queue)
  /\ \/ run' = [run EXCEPT ![Head(queue)] = "entry"] /\ NoFault
     \/ request[Head(queue)] # "waiting" /\ run' = [run EXCEPT ![Head(queue)] = "raised"] /\ Fault
  /\ UNCHANGED <<dbVars, credentials, cancelRequested, handoffs, slot, workerUp, request, cancel, up, crashes>>

\* Whatever run_job did, the worker carries on with the next item; a waiting
\* request is woken.
WorkerDone ==
  /\ busy # NoJob /\ Over(busy)
  /\ busy' = NoJob
  /\ UNCHANGED <<dbVars, memoryVars, request, run, cancel, envVars>>

-----------------------------------------------------------------------------
(* run_job.                                                                *)

Goto(j, at) == run' = [run EXCEPT ![j] = at]
\* Leaving the with-block gives the slot back.
Leave(j, how) == Goto(j, how) /\ slot' = NoJob

\* Mutant: no lock is taken.
NoSlotNeeded == TRUE
SlotFree == slot = NoJob

\* What run_job reads.  A handoff runs in the session of its request, which has
\* read the job already and keeps what it read.
ReadsQueued(j) == IF request[j] = "waiting" THEN born[j].as = "QUEUED" ELSE status[j] = "QUEUED"

\* The slot is waited for; then a job that is not queued is left alone.
EnterSlot(j) ==
  /\ run[j] = "entry" /\ SlotFree
  /\ IF ReadsQueued(j)
     THEN slot' = j /\ Goto(j, "claim")
     ELSE Leave(j, "returned")
  /\ UNCHANGED <<dbVars, credentials, cancelRequested, handoffs, workerUp, queue, busy, request, cancel, envVars>>

\* _credentials once a job's have been popped.
\* Mutant: they are read and left where they are.
LeftHeld(j) == credentials
Taken(j) == credentials \ {j}

\* Whoever takes the credentials owns the job.  If a canceller has them, it
\* writes the job down itself; if nobody has, the job cannot be run.
\* Mutant: the cancel is looked at first.
ClaimCancelFirst(j) ==
  IF j \in cancelRequested THEN "returned" ELSE IF j \in credentials THEN "start" ELSE "orphan"
ClaimOutcome(j) ==
  IF j \in credentials THEN "start" ELSE IF j \in cancelRequested THEN "returned" ELSE "orphan"

ClaimCredentials(j) ==
  /\ run[j] = "claim"
  /\ credentials' = Taken(j)
  /\ IF ClaimOutcome(j) = "returned"
     THEN Leave(j, "returned")
     ELSE Goto(j, ClaimOutcome(j)) /\ UNCHANGED slot
  /\ UNCHANGED <<dbVars, cancelRequested, handoffs, workerUp, queue, busy, request, cancel, envVars>>

\* Nobody holds the credentials.  The job is read again: it was cancelled, and
\* perhaps pruned, which the read reports; or it cannot be run.
InterruptOrphan(j) ==
  /\ run[j] = "orphan"
  /\ status' = [status EXCEPT ![j] = IF @ = "QUEUED" THEN "INTERRUPTED" ELSE @]
  /\ Leave(j, IF status[j] = "PRUNED" THEN "raised" ELSE "returned")
  /\ UNCHANGED <<rows, born, credentials, cancelRequested, handoffs, workerUp, queue, busy, request, cancel, envVars>>

StartRunning(j) ==
  /\ run[j] = "start"
  /\ status' = [status EXCEPT ![j] = "RUNNING"]
  /\ Goto(j, "loop")
  /\ UNCHANGED <<rows, born, memoryVars, busy, request, cancel, envVars>>

\* engine.should_stop, asked before each target and without the lock.
\* Mutant: the engine is never told.
NeverStop(j) == FALSE
ShouldStop(j) == j \in cancelRequested

\* engine.scan's loop: it ends with the last target, or stops before the next.
AskStop(j) ==
  /\ run[j] = "loop"
  /\ Goto(j, IF Waiting(j) = {} \/ ShouldStop(j) THEN "close" ELSE "next")
  /\ UNCHANGED <<dbVars, memoryVars, busy, request, cancel, envVars>>

\* on_target_start: the host is marked before it is scanned.
StartHost(j, h) ==
  /\ run[j] = "next" /\ rows[j][h] = "QUEUED"
  /\ rows' = [rows EXCEPT ![j][h] = "RUNNING"]
  /\ Goto(j, "scan")
  /\ UNCHANGED <<status, born, memoryVars, busy, request, cancel, envVars>>

\* on_target_done: the host's outcome, success or failure, is written after.
FinishHost(j, h) ==
  /\ run[j] = "scan" /\ rows[j][h] = "RUNNING"
  /\ rows' = [rows EXCEPT ![j][h] = "DONE"]
  /\ Goto(j, "loop")
  /\ UNCHANGED <<status, born, memoryVars, busy, request, cancel, envVars>>

\* An exception escapes engine.scan: registering the targets failed, or a
\* commit of a host's progress, or recording its outcome.  What was not
\* committed is rolled back.
ScanRaises(j) ==
  /\ run[j] \in {"loop", "next", "scan"}
  /\ Goto(j, "unwind")
  /\ UNCHANGED <<dbVars, memoryVars, busy, request, cancel, envVars>>

InterruptFailedScan(j) ==
  /\ run[j] = "unwind"
  /\ status' = [status EXCEPT ![j] = "INTERRUPTED"]
  /\ Goto(j, "cleanupErr")
  /\ UNCHANGED <<rows, born, memoryVars, busy, request, cancel, envVars>>

\* The scan is over.  If it was cancelled and hosts were left out, they and the
\* job are cancelled; a cancel that came too late to matter changes nothing.
CloseJob(j) ==
  /\ run[j] = "close"
  /\ IF j \in cancelRequested /\ Pending(j) # {}
     THEN /\ rows' = [rows EXCEPT ![j] = [h \in Hosts |-> IF h \in Pending(j) THEN "CANCELLED"
                                                           ELSE rows[j][h]]]
          /\ status' = [status EXCEPT ![j] = "CANCELLED"]
     ELSE /\ status' = [status EXCEPT ![j] = "FINISHED"]
          /\ UNCHANGED rows
  /\ Goto(j, "cleanup")
  /\ UNCHANGED <<born, memoryVars, busy, request, cancel, envVars>>

\* The finally clause, then the end of the with-block.
Cleanup(j) ==
  /\ run[j] \in {"cleanup", "cleanupErr"}
  /\ cancelRequested' = cancelRequested \ {j}
  /\ Leave(j, IF run[j] = "cleanup" THEN "returned" ELSE "raised")
  /\ UNCHANGED <<dbVars, credentials, handoffs, workerUp, queue, busy, request, cancel, envVars>>

\* A commit of run_job is refused.  Before the try the exception leaves run_job
\* as it is; the commits of the except clause and of the closing status are
\* inside the outer try, whose finally runs and which catches nothing.
CommitFails(j) ==
  /\ Fault
  /\ \/ run[j] \in {"orphan", "start"} /\ Leave(j, "raised")
     \/ run[j] \in {"unwind", "close"} /\ Goto(j, "cleanupErr") /\ UNCHANGED slot
  /\ UNCHANGED <<dbVars, credentials, cancelRequested, handoffs, workerUp, queue, busy, request, cancel, up, crashes>>

RunJob(j) ==
  \/ EnterSlot(j) \/ ClaimCredentials(j) \/ InterruptOrphan(j) \/ StartRunning(j)
  \/ AskStop(j) \/ CloseJob(j) \/ InterruptFailedScan(j) \/ Cleanup(j)
  \/ \E h \in Hosts : StartHost(j, h) \/ FinishHost(j, h)

-----------------------------------------------------------------------------
(* cancel_job.                                                             *)

AtCancel(c, at, j) == cancel' = [cancel EXCEPT ![c] = [at |-> at, job |-> j]]

\* The job is read, and refused if it has ended.
ReadForCancel(c, j) ==
  /\ up
  /\ cancel[c].at = "idle" /\ status[j] \in Active
  /\ AtCancel(c, "asked", j)
  /\ UNCHANGED <<dbVars, memoryVars, busy, request, run, envVars>>

\* The credentials taken by the cancel make the job this thread's to write down;
\* without them it is left to run_job.
CancelOwns(j) == j \in credentials

\* Under the lock: refused if a request waits on the job.  Otherwise the cancel
\* is asked for, and the credentials, if still held, are taken.
AskCancel(c) ==
  LET j == cancel[c].job IN
  /\ cancel[c].at = "asked"
  /\ IF j \in handoffs
     THEN cancel' = [cancel EXCEPT ![c] = NoCancel] /\ UNCHANGED <<credentials, cancelRequested>>
     ELSE /\ cancelRequested' = cancelRequested \cup {j}
          /\ credentials' = Taken(j)
          /\ IF CancelOwns(j) THEN AtCancel(c, "write", j)
             ELSE cancel' = [cancel EXCEPT ![c] = NoCancel]
  /\ UNCHANGED <<dbVars, handoffs, slot, workerUp, queue, busy, request, run, envVars>>

\* The cancelled job is written down, or the commit is refused; the finally
\* clause follows either way.
WriteCancelled(c) ==
  LET j == cancel[c].job IN
  /\ cancel[c].at = "write"
  /\ AtCancel(c, "finally", j)
  /\ \/ /\ rows' = [rows EXCEPT ![j] = CancelRows(@)]
        /\ status' = [status EXCEPT ![j] = "CANCELLED"]
        /\ NoFault
     \/ Fault /\ UNCHANGED <<rows, status>>
  /\ UNCHANGED <<born, memoryVars, busy, request, run, up, crashes>>

FinallyCancel(c) ==
  /\ cancel[c].at = "finally"
  /\ cancelRequested' = cancelRequested \ {cancel[c].job}
  /\ cancel' = [cancel EXCEPT ![c] = NoCancel]
  /\ UNCHANGED <<dbVars, credentials, handoffs, slot, workerUp, queue, busy, request, run, envVars>>

-----------------------------------------------------------------------------
(* The process stops and is started again.                                 *)

\* Everything but the database is lost, at any point.
Crash ==
  /\ up /\ crashes < MaxCrashes /\ faults + crashes < MaxFaults
  /\ up' = FALSE /\ crashes' = crashes + 1
  /\ credentials' = {} /\ cancelRequested' = {} /\ handoffs' = {}
  /\ slot' = NoJob /\ workerUp' = FALSE /\ queue' = <<>> /\ busy' = NoJob
  /\ request' = [j \in Jobs |-> IF request[j] \in {"created", "held", "waited", "waiting"}
                                 THEN "lost" ELSE request[j]]
  /\ run' = [j \in Jobs |-> "none"]
  /\ cancel' = [c \in Cancellers |-> NoCancel]
  /\ UNCHANGED <<dbVars, faults>>

\* The jobs a restart caught.
\* Mutant: only those that had started.
CaughtRunning == {j \in Jobs : status[j] = "RUNNING"}
Caught == {j \in Jobs : status[j] \in Active}

\* interrupt_unfinished, then start_worker, before the first request.
Startup ==
  /\ ~up
  /\ up' = TRUE /\ workerUp' = TRUE
  /\ status' = [j \in Jobs |-> IF j \in Caught THEN "INTERRUPTED" ELSE status[j]]
  /\ UNCHANGED <<rows, born, credentials, cancelRequested, handoffs, slot, queue, threadVars, faults, crashes>>

-----------------------------------------------------------------------------
Next ==
  \/ \E j \in Jobs : \E todo \in SUBSET Requested[j] : CreateJob(j, todo)
  \/ \E j \in Jobs :
       \/ HoldCredentials(j) \/ Submit(j) \/ WaitOn(j) \/ HandOver(j) \/ HandoffReturns(j)
       \/ RequestFails(j) \/ RunJob(j) \/ ScanRaises(j) \/ CommitFails(j)
  \/ WorkerTakes \/ WorkerDone
  \/ \E c \in Cancellers :
       \/ \E j \in Jobs : ReadForCancel(c, j)
       \/ AskCancel(c) \/ WriteCancelled(c) \/ FinallyCancel(c)
  \/ Crash \/ Startup

Spec == Init /\ [][Next]_vars

(***************************************************************************)
(* Fairness: every thread runs.  A request in progress and a canceller are *)
(* not abandoned by the server, the worker and run_job go on, each remote  *)
(* command and query ends within its timeout, and the container is         *)
(* restarted (docker-compose.yml: restart: unless-stopped).  Nobody is     *)
(* obliged to ask for a scan or a cancel, and nothing has to fail.         *)
(***************************************************************************)
Fairness ==
  /\ \A j \in Jobs :
       /\ WF_vars(HoldCredentials(j) \/ Submit(j) \/ WaitOn(j) \/ HandOver(j) \/ HandoffReturns(j))
       /\ WF_vars(RunJob(j)) /\ SF_vars(EnterSlot(j))
  /\ WF_vars(WorkerTakes \/ WorkerDone)
  /\ \A c \in Cancellers : WF_vars(AskCancel(c) \/ WriteCancelled(c) \/ FinallyCancel(c))
  /\ WF_vars(Startup)

FairSpec == Spec /\ Fairness

-----------------------------------------------------------------------------
(* Properties.                                                             *)

\* Every variable has its type (the columns and module-level containers of
\* scan_jobs.py).
TypeOK ==
  /\ status \in [Jobs -> Status]
  /\ rows \in [Jobs -> [Hosts -> RowState]]
  /\ born \in [Jobs -> [at : Nat, as : {"ABSENT", "QUEUED", "FINISHED"}]]
  /\ credentials \subseteq Jobs /\ cancelRequested \subseteq Jobs /\ handoffs \subseteq Jobs
  /\ slot \in Jobs \cup {NoJob} /\ busy \in Jobs \cup {NoJob}
  /\ workerUp \in BOOLEAN /\ up \in BOOLEAN
  /\ queue \in Seq(Jobs)
  /\ request \in [Jobs -> RequestAt]
  /\ run \in [Jobs -> RunAt]
  /\ cancel \in [Cancellers -> CancelThread]
  /\ faults \in Nat /\ crashes \in Nat

\* run_job owns a job from the moment it takes its credentials; a canceller
\* owns it while it writes it down.
Running == {"start", "loop", "next", "scan", "close", "unwind"}
Writers(j) == {c \in Cancellers : cancel[c].at = "write" /\ cancel[c].job = j}

\* Two scans never overlap, whichever threads run the jobs (Req 13.9, 19.1).
OneScanAtATime ==
  \A i, j \in Jobs : run[i] \in Running /\ run[j] \in Running => i = j

\* "Whichever side gets them owns the job": the credentials of a job are held,
\* or taken by run_job, or taken by one canceller, and never two of these.
OneOwner ==
  \A j \in Jobs :
    /\ j \in credentials => run[j] \notin Running /\ Writers(j) = {}
    /\ run[j] \in Running => Writers(j) = {}
    /\ \A c, d \in Writers(j) : c = d

\* Credentials are held only for a job that has yet to start: they are gone
\* when it starts, is cancelled, or is caught by a restart (Req 19.3, 19.7).
CredentialsOnlyWhileQueued ==
  \A j \in credentials : status[j] = "QUEUED"

\* A job is scanned only while its row says RUNNING: a cancelled job can
\* neither start nor go on, and no thread runs a job a restart interrupted.
ScansOnlyRunning ==
  \A j \in Jobs : run[j] \in {"loop", "next", "scan", "close", "unwind"} => status[j] = "RUNNING"

\* As long as nothing has failed, a job shown as queued or running is in some
\* thread's hands: the request that has yet to pass it on, the worker's queue,
\* run_job, or the canceller writing it down.  (A job queued without a worker
\* is the exception the code makes.)
InHand(j) ==
  \/ request[j] \in {"created", "held", "waited"}
  \/ \E i \in DOMAIN queue : queue[i] = j
  \/ run[j] \notin {"none", "returned", "raised"}
  \/ Writers(j) # {}
NoJobForgotten ==
  up /\ workerUp /\ faults = 0 => \A j \in Jobs : status[j] \in Active => InHand(j)

\* An exception that reaches the worker's log is "recorded on the job by
\* run_job" (scan_jobs.py:461).  It does not hold where a commit or the engine's
\* making fails: see the README.
FailureRecorded ==
  \A j \in Jobs : run[j] = "raised" => status[j] \notin Active

\* The caller of POST /api/scans is answered with every host's outcome: its
\* job cannot be cancelled (scan_jobs.py:62, Req 19.9).  It does not hold: see
\* the README.
HandoffGetsEveryOutcome ==
  \A j \in Jobs : request[j] = "answered" /\ status[j] # "PRUNED" =>
    \A h \in Hosts : rows[j][h] \in {"NOROW", "DONE"}

\* What a poller sees of a job is a life the lifecycle allows.
Lifecycle == INSTANCE JobLifecycle WITH Jobs <- Jobs, Hosts <- Hosts, status <- status, rows <- rows
ImplementsLifecycle == Lifecycle!Spec

\* Every job the worker can be given ends, and none is left reading "running"
\* forever, but for one whose own request, cancel or run_job met a failure; and
\* that one does not keep another from its turn (Req 19.1, 19.4).
Abandoned(j) == faults > 0 /\ (request[j] = "failed" \/ run[j] \in {"raised", "returned"})
EveryJobEnds ==
  \A j \in Jobs : status[j] \in Active /\ workerUp ~> status[j] \notin Active \/ Abandoned(j)

\* Every POST /api/scans that waits is answered, or told of the error.
EveryHandoffAnswered ==
  \A j \in Jobs : request[j] = "waiting" ~> request[j] # "waiting"
=============================================================================
