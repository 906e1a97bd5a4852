--------------------------- MODULE ScanJobs_proofs ---------------------------
EXTENDS ScanJobsCancel, TLAPS, FiniteSetTheorems

\* The number of jobs in any set of them is a natural number.
LEMMA CountIsNat ==
  ASSUME NEW S \in SUBSET Jobs
  PROVE  Cardinality(S) \in Nat
BY JobsAssumption, FS_Subset, FS_CardinalityType

LEMMA InitTypeOK == Init => TypeOK
BY JobsAssumption, BoundsAssumption
   DEF Init, TypeOK, Status, RowState, Active, Ended, RequestAt, RunAt, CancelThread

LEMMA TypeOKStep == TypeOK /\ [Next]_vars => TypeOK'
<1> SUFFICES ASSUME TypeOK, [Next]_vars PROVE TypeOK'
  OBVIOUS
<1> USE DEF TypeOK, Status, RowState, Active, Ended
<1>1. ASSUME NEW j \in Jobs, NEW todo \in SUBSET Requested[j], CreateJob(j, todo) PROVE TypeOK'
  <2>1. Created \in SUBSET Jobs
    BY DEF Created
  <2>2. Cardinality(Created) \in Nat
    BY <2>1, CountIsNat
  <2>3. 1 + Cardinality(Created) \in Nat
    BY <2>2
  <2> QED
    BY <1>1, <2>3, RequestedAssumption DEF CreateJob, memoryVars, envVars, RequestAt
<1>2. ASSUME NEW j \in Jobs, HoldCredentials(j) PROVE TypeOK'
  BY <1>2 DEF HoldCredentials, dbVars, envVars, RequestAt
<1>3. ASSUME NEW j \in Jobs, Submit(j) PROVE TypeOK'
  BY <1>3 DEF Submit, dbVars, envVars, RequestAt
<1>4. ASSUME NEW j \in Jobs, WaitOn(j) PROVE TypeOK'
  BY <1>4 DEF WaitOn, dbVars, envVars, RequestAt
<1>5. ASSUME NEW j \in Jobs, HandOver(j) PROVE TypeOK'
  <2>1. Append(queue, j) \in Seq(Jobs)
    OBVIOUS
  <2>2. queue' \in Seq(Jobs)
    BY <1>5, <2>1 DEF HandOver
  <2>3. run' \in [Jobs -> RunAt]
    BY <1>5 DEF HandOver, RunAt
  <2> QED
    BY <1>5, <2>2, <2>3 DEF HandOver, dbVars, envVars, RequestAt
<1>6. ASSUME NEW j \in Jobs, HandoffReturns(j) PROVE TypeOK'
  BY <1>6 DEF HandoffReturns, dbVars, envVars, RequestAt
<1>7. ASSUME NEW j \in Jobs, RequestFails(j) PROVE TypeOK'
  BY <1>7 DEF RequestFails, Fault, dbVars, memoryVars, RequestAt
<1>8. CASE WorkerTakes
  <2>1. Head(queue) \in Jobs /\ Tail(queue) \in Seq(Jobs)
    BY <1>8 DEF WorkerTakes
  <2> QED
    <3>1. run' \in [Jobs -> RunAt]
      BY <1>8, <2>1 DEF WorkerTakes, RunAt
    <3>2. faults' \in Nat
      BY <1>8 DEF WorkerTakes, Fault, NoFault
    <3> QED
      BY <1>8, <2>1, <3>1, <3>2 DEF WorkerTakes, dbVars
<1>9. CASE WorkerDone
  BY <1>9 DEF WorkerDone, dbVars, memoryVars, envVars
<1>10. ASSUME NEW j \in Jobs, RunJob(j) PROVE TypeOK'
  <2> USE DEF Goto, Leave, dbVars, memoryVars, envVars
  <2>1. CASE EnterSlot(j)
    BY <2>1 DEF EnterSlot, RunAt
  <2>2. CASE ClaimCredentials(j)
    BY <2>2 DEF ClaimCredentials, ClaimOutcome, Taken, RunAt
  <2>3. CASE InterruptOrphan(j)
    BY <2>3 DEF InterruptOrphan, RunAt
  <2>4. CASE StartRunning(j)
    BY <2>4 DEF StartRunning, RunAt
  <2>5. CASE AskStop(j)
    BY <2>5 DEF AskStop, RunAt
  <2>6. CASE CloseJob(j)
    <3>1. status' \in [Jobs -> Status]
      BY <2>6 DEF CloseJob
    <3>2. rows' \in [Jobs -> [Hosts -> RowState]]
      <4>1. [h \in Hosts |-> IF h \in Pending(j) THEN "CANCELLED" ELSE rows[j][h]] \in [Hosts -> RowState]
        OBVIOUS
      <4>2. \/ UNCHANGED rows
            \/ rows' = [rows EXCEPT ![j] = [h \in Hosts |-> IF h \in Pending(j) THEN "CANCELLED"
                                                          ELSE rows[j][h]]]
        BY <2>6 DEF CloseJob
      <4> QED
        BY <4>1, <4>2
    <3>3. run' \in [Jobs -> RunAt]
      BY <2>6 DEF CloseJob, RunAt
    <3> QED
      BY <2>6, <3>1, <3>2, <3>3 DEF CloseJob
  <2>7. CASE InterruptFailedScan(j)
    BY <2>7 DEF InterruptFailedScan, RunAt
  <2>8. CASE Cleanup(j)
    BY <2>8 DEF Cleanup, RunAt
  <2>9. ASSUME NEW h \in Hosts, StartHost(j, h) PROVE TypeOK'
    BY <2>9 DEF StartHost, RunAt
  <2>10. ASSUME NEW h \in Hosts, FinishHost(j, h) PROVE TypeOK'
    BY <2>10 DEF FinishHost, RunAt
  <2> QED
    BY <1>10, <2>1, <2>2, <2>3, <2>4, <2>5, <2>6, <2>7, <2>8, <2>9, <2>10 DEF RunJob
<1>11. ASSUME NEW j \in Jobs, ScanRaises(j) PROVE TypeOK'
  BY <1>11 DEF ScanRaises, Goto, dbVars, memoryVars, envVars, RunAt
<1>12. ASSUME NEW j \in Jobs, CommitFails(j) PROVE TypeOK'
  <2>1. run' \in [Jobs -> RunAt]
    BY <1>12 DEF CommitFails, Goto, Leave, RunAt
  <2>2. faults' \in Nat
    BY <1>12 DEF CommitFails, Fault
  <2>3. slot' \in Jobs \cup {NoJob}
    BY <1>12 DEF CommitFails, Leave
  <2> QED
    BY <1>12, <2>1, <2>2, <2>3 DEF CommitFails, dbVars
<1>13. ASSUME NEW c \in Cancellers, NEW j \in Jobs, ReadForCancel(c, j) PROVE TypeOK'
  BY <1>13 DEF ReadForCancel, AtCancel, dbVars, memoryVars, envVars, CancelThread, CancelAt
<1>14. ASSUME NEW c \in Cancellers, AskCancel(c) PROVE TypeOK'
  <2>1. cancel[c].job \in Jobs
    BY <1>14 DEF AskCancel, CancelThread, NoCancel
  <2>2. cancel' \in [Cancellers -> CancelThread]
    <3>1. \/ cancel' = [cancel EXCEPT ![c] = NoCancel]
          \/ cancel' = [cancel EXCEPT ![c] = [at |-> "write", job |-> cancel[c].job]]
      BY <1>14 DEF AskCancel, AtCancel
    <3>2. [at |-> "write", job |-> cancel[c].job] \in CancelThread
      BY <2>1 DEF CancelThread, CancelAt
    <3>3. NoCancel \in CancelThread
      BY DEF CancelThread
    <3> QED
      BY <3>1, <3>2, <3>3
  <2>3. credentials' \subseteq Jobs /\ cancelRequested' \subseteq Jobs
    BY <1>14, <2>1 DEF AskCancel, Taken
  <2> QED
    BY <1>14, <2>2, <2>3 DEF AskCancel, dbVars, envVars
<1>15. ASSUME NEW c \in Cancellers, WriteCancelled(c) PROVE TypeOK'
  <2>1. cancel[c].job \in Jobs
    BY <1>15 DEF WriteCancelled, CancelThread, NoCancel
  <2>2. cancel' \in [Cancellers -> CancelThread]
    BY <1>15, <2>1 DEF WriteCancelled, AtCancel, CancelThread, CancelAt
  <2>3. CancelRows(rows[cancel[c].job]) \in [Hosts -> RowState]
    BY <2>1 DEF CancelRows
  <2>4. rows' \in [Jobs -> [Hosts -> RowState]]
    <3>1. \/ rows' = [rows EXCEPT ![cancel[c].job] = CancelRows(rows[cancel[c].job])]
          \/ UNCHANGED rows
      BY <1>15 DEF WriteCancelled
    <3> QED
      BY <2>1, <2>3, <3>1
  <2>6. status' \in [Jobs -> Status]
    <3>1. \/ status' = [status EXCEPT ![cancel[c].job] = "CANCELLED"]
          \/ UNCHANGED status
      BY <1>15 DEF WriteCancelled
    <3> QED
      BY <2>1, <3>1
  <2>5. faults' \in Nat
    BY <1>15 DEF WriteCancelled, Fault, NoFault
  <2> QED
    BY <1>15, <2>2, <2>4, <2>5, <2>6 DEF WriteCancelled, memoryVars
<1>16. ASSUME NEW c \in Cancellers, FinallyCancel(c) PROVE TypeOK'
  BY <1>16 DEF FinallyCancel, dbVars, envVars, CancelThread
<1>17. CASE Crash
  <2>1. /\ run' \in [Jobs -> RunAt]
        /\ request' \in [Jobs -> RequestAt]
        /\ cancel' \in [Cancellers -> CancelThread]
    BY <1>17 DEF Crash, RunAt, RequestAt, CancelThread
  <2>2. queue' \in Seq(Jobs) /\ crashes' \in Nat
    BY <1>17 DEF Crash
  <2>3. /\ UNCHANGED <<status, rows, born, faults>>
        /\ credentials' = {} /\ cancelRequested' = {} /\ handoffs' = {}
        /\ slot' = NoJob /\ busy' = NoJob /\ workerUp' = FALSE /\ up' = FALSE
    BY <1>17 DEF Crash, dbVars
  <2> QED
    BY <2>1, <2>2, <2>3
<1>18. CASE Startup
  BY <1>18 DEF Startup, threadVars
<1>19. CASE UNCHANGED vars
  BY <1>19 DEF vars, dbVars, memoryVars, threadVars, envVars
<1> QED
  BY <1>1, <1>2, <1>3, <1>4, <1>5, <1>6, <1>7, <1>8, <1>9, <1>10, <1>11, <1>12, <1>13, <1>14,
     <1>15, <1>16, <1>17, <1>18, <1>19 DEF Next

-----------------------------------------------------------------------------
\* Only Crash stops the process, and a process that is down can do nothing but
\* start again.
LEMMA DownStep == TypeOK /\ DownInv /\ [Next]_vars => DownInv'
<1> SUFFICES ASSUME TypeOK, DownInv, [Next]_vars PROVE DownInv'
  OBVIOUS
<1> USE DEF DownInv
<1>1. CASE UNCHANGED vars
  BY <1>1 DEF vars, dbVars, memoryVars, threadVars, envVars
<1>2. CASE Crash
  BY <1>2 DEF Crash, TypeOK
<1>3. CASE Startup
  BY <1>3 DEF Startup
<1>4. ASSUME NEW j \in Jobs, NEW todo \in SUBSET Requested[j], CreateJob(j, todo) PROVE up'
  BY <1>4 DEF CreateJob, envVars
<1>5. ASSUME NEW j \in Jobs,
             \/ HoldCredentials(j) \/ Submit(j) \/ WaitOn(j) \/ HandOver(j) \/ HandoffReturns(j)
             \/ RequestFails(j)
      PROVE  up'
  BY <1>5 DEF HoldCredentials, Submit, WaitOn, HandOver, HandoffReturns, RequestFails, envVars
<1>6. ASSUME NEW j \in Jobs, RunJob(j) \/ ScanRaises(j) \/ CommitFails(j) PROVE up'
  <2>1. run[j] # "none" /\ up' = up
    BY <1>6 DEF RunJob, EnterSlot, ClaimCredentials, InterruptOrphan, StartRunning, AskStop, CloseJob,
       InterruptFailedScan, Cleanup, StartHost, FinishHost, ScanRaises, CommitFails, envVars
  <2> QED
    BY <2>1 DEF TypeOK
<1>7. ASSUME WorkerTakes \/ WorkerDone PROVE up'
  BY <1>7 DEF WorkerTakes, WorkerDone, envVars
<1>8. ASSUME NEW c \in Cancellers, NEW j \in Jobs, ReadForCancel(c, j) PROVE up'
  BY <1>8 DEF ReadForCancel, envVars
<1>9. ASSUME NEW c \in Cancellers, AskCancel(c) \/ WriteCancelled(c) \/ FinallyCancel(c) PROVE up'
  <2>1. cancel[c] # NoCancel /\ up' = up
    BY <1>9 DEF AskCancel, WriteCancelled, FinallyCancel, NoCancel, envVars
  <2> QED
    BY <2>1 DEF TypeOK
<1> QED
  BY <1>1, <1>2, <1>3, <1>4, <1>5, <1>6, <1>7, <1>8, <1>9 DEF Next

\* The slot is entered when it is free and left by the thread that holds it.
LEMMA SlotStep == TypeOK /\ DownInv /\ SlotInv /\ [Next]_vars => SlotInv'
<1> SUFFICES ASSUME TypeOK, DownInv, SlotInv, [Next]_vars PROVE SlotInv'
  OBVIOUS
<1> USE JobsAssumption DEF SlotInv, InSlot, TypeOK
<1>1. CASE UNCHANGED <<run, slot>>
  BY <1>1
<1>2. CASE Crash
  BY <1>2 DEF Crash
<1>3. CASE WorkerTakes
  <2>1. Head(queue) \in Jobs
    BY <1>3 DEF WorkerTakes
  <2> QED
    BY <1>3, <2>1 DEF WorkerTakes
<1>4. ASSUME NEW j \in Jobs, HandOver(j) PROVE SlotInv'
  BY <1>4 DEF HandOver
<1>5. ASSUME NEW j \in Jobs, RunJob(j) \/ ScanRaises(j) PROVE SlotInv'
  <2> USE DEF Goto, Leave, memoryVars
  <2>1. CASE EnterSlot(j)
    BY <2>1 DEF EnterSlot, SlotFree
  <2>2. CASE ClaimCredentials(j)
    BY <2>2 DEF ClaimCredentials, ClaimOutcome
  <2>3. CASE InterruptOrphan(j) \/ Cleanup(j)
    BY <2>3 DEF InterruptOrphan, Cleanup
  <2>4. CASE StartRunning(j) \/ AskStop(j) \/ CloseJob(j) \/ InterruptFailedScan(j) \/ ScanRaises(j)
    BY <2>4 DEF StartRunning, AskStop, CloseJob, InterruptFailedScan, ScanRaises
  <2>5. ASSUME NEW h \in Hosts, StartHost(j, h) \/ FinishHost(j, h) PROVE SlotInv'
    BY <2>5 DEF StartHost, FinishHost
  <2> QED
    BY <1>5, <2>1, <2>2, <2>3, <2>4, <2>5 DEF RunJob
<1>6. ASSUME NEW j \in Jobs, CommitFails(j) PROVE SlotInv'
  BY <1>6 DEF CommitFails, Leave, Goto
<1>7. ASSUME NEW j \in Jobs, NEW todo \in SUBSET Requested[j], CreateJob(j, todo)
      PROVE  UNCHANGED <<run, slot>>
  BY <1>7 DEF CreateJob, memoryVars
<1>8. ASSUME NEW j \in Jobs,
             HoldCredentials(j) \/ Submit(j) \/ WaitOn(j) \/ HandoffReturns(j) \/ RequestFails(j)
      PROVE  UNCHANGED <<run, slot>>
  BY <1>8 DEF HoldCredentials, Submit, WaitOn, HandoffReturns, RequestFails, memoryVars
<1>9. ASSUME WorkerDone \/ Startup PROVE UNCHANGED <<run, slot>>
  BY <1>9 DEF WorkerDone, Startup, memoryVars, threadVars
<1>10. ASSUME NEW c \in Cancellers,
              \/ \E j \in Jobs : ReadForCancel(c, j)
              \/ AskCancel(c) \/ WriteCancelled(c) \/ FinallyCancel(c)
       PROVE  UNCHANGED <<run, slot>>
  BY <1>10 DEF ReadForCancel, AskCancel, WriteCancelled, FinallyCancel, memoryVars
<1>11. CASE UNCHANGED vars
  BY <1>1, <1>11 DEF vars, memoryVars, threadVars
<1> QED
  BY <1>1, <1>2, <1>3, <1>4, <1>5, <1>6, <1>7, <1>8, <1>9, <1>10, <1>11 DEF Next

-----------------------------------------------------------------------------
\* What appending to a queue of jobs leaves in it.
LEMMA AppendFacts ==
  ASSUME NEW q \in Seq(Jobs), NEW j \in Jobs
  PROVE  \A i \in DOMAIN Append(q, j) :
           \/ i \in DOMAIN q /\ Append(q, j)[i] = q[i]
           \/ i = Len(q) + 1 /\ i \notin DOMAIN q /\ Append(q, j)[i] = j
OBVIOUS

\* What taking the first of a queue of jobs leaves in it.
LEMMA TailFacts ==
  ASSUME NEW q \in Seq(Jobs), q # <<>>
  PROVE  /\ Head(q) \in Jobs /\ 1 \in DOMAIN q /\ q[1] = Head(q)
         /\ \A i \in DOMAIN Tail(q) : i \in Nat /\ i + 1 \in DOMAIN q /\ i + 1 # 1 /\ Tail(q)[i] = q[i + 1]
OBVIOUS

\* A step of run_job moves the job's own counter and touches no other thread's.
LEMMA RunStep ==
  ASSUME TypeOK, NEW j \in Jobs, RunJob(j) \/ ScanRaises(j) \/ CommitFails(j)
  PROVE  /\ run[j] \notin {"none", "returned", "raised"}
         /\ \E at \in RunAt \ {"none"} : run' = [run EXCEPT ![j] = at]
         /\ \/ UNCHANGED status
            \/ \E st \in Status \ {"ABSENT", "QUEUED"} : status' = [status EXCEPT ![j] = st]
         /\ UNCHANGED <<queue, request, handoffs, cancel, born, workerUp, busy>>
<1> USE DEF TypeOK, Status, Active, Ended, RunAt, Goto, Leave, dbVars, memoryVars
<1>1. CASE EnterSlot(j)
  BY <1>1 DEF EnterSlot
<1>2. CASE ClaimCredentials(j)
  BY <1>2 DEF ClaimCredentials, ClaimOutcome
<1>3. CASE InterruptOrphan(j)
  BY <1>3 DEF InterruptOrphan
<1>4. CASE StartRunning(j)
  BY <1>4 DEF StartRunning
<1>5. CASE AskStop(j)
  BY <1>5 DEF AskStop
<1>6. CASE CloseJob(j)
  BY <1>6 DEF CloseJob
<1>7. CASE InterruptFailedScan(j)
  BY <1>7 DEF InterruptFailedScan
<1>8. CASE Cleanup(j)
  BY <1>8 DEF Cleanup
<1>9. CASE \E h \in Hosts : StartHost(j, h) \/ FinishHost(j, h)
  BY <1>9 DEF StartHost, FinishHost
<1>10. CASE ScanRaises(j)
  BY <1>10 DEF ScanRaises
<1>11. CASE CommitFails(j)
  BY <1>11 DEF CommitFails
<1> QED
  BY <1>1, <1>2, <1>3, <1>4, <1>5, <1>6, <1>7, <1>8, <1>9, <1>10, <1>11 DEF RunJob

-----------------------------------------------------------------------------
\* A job is handed over by its request, and by it alone, to the queue or to
\* run_job; the worker moves it from the one to the other.
LEMMA HandoverStep == TypeOK /\ DownInv /\ HandoverInv /\ OwnerInv /\ [Next]_vars => HandoverInv'
<1> SUFFICES ASSUME TypeOK, DownInv, HandoverInv, OwnerInv, [Next]_vars PROVE HandoverInv'
  OBVIOUS
<1> USE DEF TypeOK, HandoverInv
<1>1. CASE UNCHANGED <<status, request, run, queue>>
  BY <1>1
<1>2. ASSUME NEW j \in Jobs, NEW todo \in SUBSET Requested[j], CreateJob(j, todo) PROVE HandoverInv'
  BY <1>2 DEF CreateJob, memoryVars, Doomed, Kept
<1>3. ASSUME NEW j \in Jobs, HoldCredentials(j) \/ WaitOn(j) PROVE HandoverInv'
  BY <1>3 DEF HoldCredentials, WaitOn, dbVars
<1>4. ASSUME NEW j \in Jobs, RequestFails(j) \/ HandoffReturns(j) PROVE HandoverInv'
  BY <1>4 DEF RequestFails, HandoffReturns, dbVars, memoryVars
<1>5. ASSUME NEW j \in Jobs, Submit(j) \/ HandOver(j) PROVE HandoverInv'
  <2>1. /\ request[j] \in {"held", "waited"} /\ UNCHANGED status
        /\ request' = [request EXCEPT ![j] = IF @ = "held" THEN "done" ELSE "waiting"]
        /\ \/ queue' = Append(queue, j) /\ UNCHANGED run
           \/ UNCHANGED queue /\ (UNCHANGED run \/ run' = [run EXCEPT ![j] = "entry"])
    BY <1>5 DEF Submit, HandOver, dbVars
  <2>2. run[j] = "none" /\ \A i \in DOMAIN queue : queue[i] # j
    BY <2>1
  <2>3. CASE queue' = Append(queue, j) /\ UNCHANGED run
    BY <2>1, <2>2, <2>3, AppendFacts
  <2>4. CASE UNCHANGED queue
    BY <2>1, <2>2, <2>4
  <2> QED
    BY <2>1, <2>3, <2>4
<1>6. CASE WorkerTakes
  <2>1. /\ Head(queue) \in Jobs
        /\ \A i \in DOMAIN Tail(queue) : Tail(queue)[i] # Head(queue)
        /\ \A i \in DOMAIN Tail(queue) : \E k \in DOMAIN queue : Tail(queue)[i] = queue[k]
        /\ \A i, k \in DOMAIN Tail(queue) : Tail(queue)[i] = Tail(queue)[k] => i = k
        /\ request[Head(queue)] \notin {"idle", "created", "held", "waited"}
    BY <1>6, TailFacts DEF WorkerTakes
  <2>2. /\ queue' = Tail(queue) /\ UNCHANGED <<status, request>>
        /\ \/ run' = [run EXCEPT ![Head(queue)] = "entry"]
           \/ run' = [run EXCEPT ![Head(queue)] = "raised"]
    BY <1>6 DEF WorkerTakes, dbVars
  <2> QED
    BY <2>1, <2>2
<1>7. ASSUME NEW j \in Jobs, RunJob(j) \/ ScanRaises(j) \/ CommitFails(j) PROVE HandoverInv'
  <2>1. /\ run[j] # "none" /\ UNCHANGED <<queue, request>>
        /\ \E at \in RunAt \ {"none"} : run' = [run EXCEPT ![j] = at]
        /\ \/ UNCHANGED status
           \/ \E st \in Status \ {"ABSENT"} : status' = [status EXCEPT ![j] = st]
    BY <1>7, RunStep
  <2> QED
    BY <2>1
<1>8. ASSUME NEW c \in Cancellers, WriteCancelled(c) PROVE HandoverInv'
  <2>1. /\ cancel[c].job \in Jobs /\ request[cancel[c].job] # "idle"
    BY <1>8 DEF WriteCancelled, CancelThread, NoCancel, OwnerInv, Holds
  <2> QED
    BY <1>8, <2>1 DEF WriteCancelled, memoryVars
<1>9. CASE Crash
  BY <1>9 DEF Crash, dbVars
<1>10. CASE Startup
  BY <1>10 DEF Startup, Caught, Active, threadVars
<1>11. ASSUME \/ WorkerDone \/ UNCHANGED vars
              \/ \E c \in Cancellers : \/ \E j \in Jobs : ReadForCancel(c, j)
                                       \/ AskCancel(c) \/ FinallyCancel(c)
       PROVE  UNCHANGED <<status, request, run, queue>>
  BY <1>11 DEF WorkerDone, ReadForCancel, AskCancel, FinallyCancel, vars, dbVars, memoryVars, threadVars
<1> QED
  BY <1>1, <1>2, <1>3, <1>4, <1>5, <1>6, <1>7, <1>8, <1>9, <1>10, <1>11 DEF Next

-----------------------------------------------------------------------------
\* The credentials are put aside once, by the request that wrote the job down,
\* and then taken once: by the run_job that claims them or by the canceller
\* that finds them first.
LEMMA OwnerStep ==
  TypeOK /\ DownInv /\ HandoverInv /\ OwnerInv /\ StatusInv /\ [Next]_vars => OwnerInv'
<1> SUFFICES ASSUME TypeOK, DownInv, HandoverInv, OwnerInv, StatusInv, [Next]_vars PROVE OwnerInv'
  OBVIOUS
<1> USE DEF TypeOK, OwnerInv, NoHolder, Holds, Claimed, InSlot
<1>1. ASSUME UNCHANGED <<status, credentials, cancelRequested, request, cancel>>,
             \A k \in Jobs : run'[k] \in Claimed => run[k] \in Claimed
      PROVE  OwnerInv'
  BY <1>1
<1>2. ASSUME NEW j \in Jobs, NEW todo \in SUBSET Requested[j], CreateJob(j, todo) PROVE OwnerInv'
  BY <1>2 DEF CreateJob, memoryVars, Doomed, Ended
<1>3. ASSUME NEW j \in Jobs, HoldCredentials(j) PROVE OwnerInv'
  BY <1>3 DEF HoldCredentials, dbVars, HandoverInv, StatusInv
<1>4. ASSUME NEW j \in Jobs, Submit(j) \/ WaitOn(j) \/ HandoffReturns(j) PROVE OwnerInv'
  BY <1>4 DEF Submit, WaitOn, HandoffReturns, dbVars
<1>5. ASSUME NEW j \in Jobs, HandOver(j) PROVE OwnerInv'
  BY <1>5 DEF HandOver, dbVars
<1>6. ASSUME NEW j \in Jobs, RequestFails(j) PROVE OwnerInv'
  BY <1>6 DEF RequestFails, dbVars, memoryVars
<1>7. CASE WorkerTakes
  <2>1. \A k \in Jobs : run'[k] \in Claimed => run[k] \in Claimed
    BY <1>7, TailFacts DEF WorkerTakes
  <2> QED
    BY <1>1, <1>7, <2>1 DEF WorkerTakes, dbVars
<1>8. ASSUME NEW j \in Jobs, RunJob(j) \/ ScanRaises(j) PROVE OwnerInv'
  <2> USE DEF Goto, Leave, dbVars, memoryVars
  <2>1. CASE EnterSlot(j)
    <3>1. \A k \in Jobs : run'[k] \in Claimed => run[k] \in Claimed
      BY <2>1 DEF EnterSlot
    <3> QED
      BY <1>1, <2>1, <3>1 DEF EnterSlot
  <2>2. CASE ClaimCredentials(j)
    <3>1. /\ run[j] = "claim" /\ credentials' = credentials \ {j}
          /\ UNCHANGED <<status, cancelRequested, request, cancel>>
      BY <2>2 DEF ClaimCredentials, Taken
    <3>2. \A k \in Jobs \ {j} : run'[k] = run[k]
      BY <2>2 DEF ClaimCredentials
    <3>3. run'[j] \in Claimed => NoHolder(j)
      BY <2>2 DEF ClaimCredentials, ClaimOutcome
    <3>4. \A k \in credentials' : k # j /\ run'[k] \notin Claimed
      BY <3>1, <3>2
    <3>5. \A k \in Jobs, c \in Cancellers : Holds(c, k) => run'[k] \notin Claimed
      BY <3>2, <3>3
    <3> QED
      BY <3>1, <3>4, <3>5
  <2>3. CASE InterruptOrphan(j)
    BY <2>3 DEF InterruptOrphan
  <2>4. CASE StartRunning(j) \/ InterruptFailedScan(j)
    <3>1. /\ run[j] \in Claimed /\ \A k \in Jobs \ {j} : status'[k] = status[k] /\ run'[k] = run[k]
          /\ UNCHANGED <<credentials, cancelRequested, request, cancel>>
      BY <2>4 DEF StartRunning, InterruptFailedScan
    <3> QED
      BY <3>1
  <2>8. CASE AskStop(j) \/ ScanRaises(j)
    <3>1. \A k \in Jobs : run'[k] \in Claimed => run[k] \in Claimed
      BY <2>8 DEF AskStop, ScanRaises
    <3> QED
      BY <1>1, <2>8, <3>1 DEF AskStop, ScanRaises
  <2>5. CASE CloseJob(j)
    BY <2>5 DEF CloseJob
  <2>6. CASE Cleanup(j)
    BY <2>6 DEF Cleanup
  <2>7. ASSUME NEW h \in Hosts, StartHost(j, h) \/ FinishHost(j, h) PROVE OwnerInv'
    <3>1. \A k \in Jobs : run'[k] \in Claimed => run[k] \in Claimed
      BY <2>7 DEF StartHost, FinishHost
    <3> QED
      BY <1>1, <2>7, <3>1 DEF StartHost, FinishHost
  <2> QED
    BY <1>8, <2>1, <2>2, <2>3, <2>4, <2>5, <2>6, <2>7, <2>8 DEF RunJob
<1>9. ASSUME NEW j \in Jobs, CommitFails(j) PROVE OwnerInv'
  <2>1. \A k \in Jobs : run'[k] \in Claimed => run[k] \in Claimed
    BY <1>9 DEF CommitFails, Goto, Leave
  <2> QED
    BY <1>1, <1>9, <2>1 DEF CommitFails, dbVars
<1>10. ASSUME NEW c \in Cancellers, NEW j \in Jobs, ReadForCancel(c, j) PROVE OwnerInv'
  BY <1>10 DEF ReadForCancel, AtCancel, NoCancel, dbVars, memoryVars
<1>11. ASSUME NEW c \in Cancellers, AskCancel(c) PROVE OwnerInv'
  <2>1. cancel[c].job \in Jobs
    BY <1>11 DEF AskCancel, CancelThread, NoCancel
  <2>2. CASE cancel' = [cancel EXCEPT ![c] = NoCancel]
    BY <1>11, <2>1, <2>2 DEF AskCancel, Taken, NoCancel, dbVars
  <2>3. CASE /\ cancel[c].job \in credentials
             /\ cancel' = [cancel EXCEPT ![c] = [at |-> "write", job |-> cancel[c].job]]
             /\ credentials' = Taken(cancel[c].job)
             /\ cancelRequested' = cancelRequested \cup {cancel[c].job}
    BY <1>11, <2>1, <2>3 DEF AskCancel, Taken, dbVars
  <2> QED
    BY <1>11, <2>2, <2>3 DEF AskCancel, AtCancel, CancelOwns
<1>12. ASSUME NEW c \in Cancellers, WriteCancelled(c) PROVE OwnerInv'
  BY <1>12 DEF WriteCancelled, AtCancel, CancelThread, NoCancel, memoryVars
<1>13. ASSUME NEW c \in Cancellers, FinallyCancel(c) PROVE OwnerInv'
  BY <1>13 DEF FinallyCancel, CancelThread, NoCancel, dbVars
<1>14. CASE Crash
  BY <1>14 DEF Crash, NoCancel, dbVars
<1>15. CASE Startup
  BY <1>15 DEF Startup, DownInv, NoCancel, threadVars
<1>16. ASSUME WorkerDone \/ UNCHANGED vars
       PROVE  UNCHANGED <<status, credentials, cancelRequested, request, run, cancel>>
  BY <1>16 DEF WorkerDone, vars, dbVars, memoryVars, threadVars
<1> QED
  BY <1>1, <1>2, <1>3, <1>4, <1>5, <1>6, <1>7, <1>8, <1>9, <1>10, <1>11, <1>12, <1>13, <1>14,
     <1>15, <1>16 DEF Next

\* Nobody but run_job writes the row of a job it has claimed.
LEMMA StatusStep ==
  TypeOK /\ DownInv /\ HandoverInv /\ OwnerInv /\ StatusInv /\ [Next]_vars => StatusInv'
<1> SUFFICES ASSUME TypeOK, DownInv, HandoverInv, OwnerInv, StatusInv, [Next]_vars PROVE StatusInv'
  OBVIOUS
<1> USE DEF TypeOK, StatusInv, Scanning
<1>1. CASE UNCHANGED <<status, request, run>>
  BY <1>1
<1>2. ASSUME NEW j \in Jobs, NEW todo \in SUBSET Requested[j], CreateJob(j, todo) PROVE StatusInv'
  BY <1>2 DEF CreateJob, Doomed, Ended, HandoverInv
<1>3. ASSUME NEW j \in Jobs,
             \/ HoldCredentials(j) \/ Submit(j) \/ WaitOn(j) \/ HandOver(j) \/ HandoffReturns(j)
             \/ RequestFails(j)
      PROVE  StatusInv'
  BY <1>3 DEF HoldCredentials, Submit, WaitOn, HandOver, HandoffReturns, RequestFails, dbVars
<1>4. CASE WorkerTakes
  BY <1>4, TailFacts DEF WorkerTakes, dbVars
<1>5. ASSUME NEW j \in Jobs, RunJob(j) \/ ScanRaises(j) PROVE StatusInv'
  <2> USE DEF Goto, Leave, dbVars, memoryVars, HandoverInv
  <2>1. CASE EnterSlot(j)
    BY <2>1 DEF EnterSlot
  <2>2. CASE ClaimCredentials(j)
    BY <2>2 DEF ClaimCredentials, ClaimOutcome, OwnerInv
  <2>3. CASE InterruptOrphan(j)
    BY <2>3 DEF InterruptOrphan
  <2>4. CASE StartRunning(j)
    BY <2>4 DEF StartRunning
  <2>8. CASE AskStop(j)
    BY <2>8 DEF AskStop
  <2>9. CASE InterruptFailedScan(j)
    BY <2>9 DEF InterruptFailedScan
  <2>10. CASE ScanRaises(j)
    BY <2>10 DEF ScanRaises
  <2>5. CASE CloseJob(j)
    BY <2>5 DEF CloseJob
  <2>6. CASE Cleanup(j)
    BY <2>6 DEF Cleanup
  <2>7. ASSUME NEW h \in Hosts, StartHost(j, h) \/ FinishHost(j, h) PROVE StatusInv'
    BY <2>7 DEF StartHost, FinishHost
  <2> QED
    BY <1>5, <2>1, <2>2, <2>3, <2>4, <2>5, <2>6, <2>7, <2>8, <2>9, <2>10 DEF RunJob
<1>6. ASSUME NEW j \in Jobs, CommitFails(j) PROVE StatusInv'
  BY <1>6 DEF CommitFails, Goto, Leave, dbVars
<1>7. ASSUME NEW c \in Cancellers, WriteCancelled(c) PROVE StatusInv'
  <2>1. /\ cancel[c].job \in Jobs /\ request[cancel[c].job] # "created"
        /\ run[cancel[c].job] \notin Scanning \cup {"start"}
    BY <1>7 DEF WriteCancelled, CancelThread, NoCancel, OwnerInv, Holds, Claimed, InSlot
  <2> QED
    BY <1>7, <2>1 DEF WriteCancelled
<1>8. CASE Crash
  BY <1>8 DEF Crash
<1>9. CASE Startup
  BY <1>9 DEF Startup, Caught, DownInv, threadVars
<1>10. ASSUME \/ WorkerDone \/ UNCHANGED vars
              \/ \E c \in Cancellers : \/ \E j \in Jobs : ReadForCancel(c, j)
                                       \/ AskCancel(c) \/ FinallyCancel(c)
       PROVE  UNCHANGED <<status, request, run>>
  BY <1>10 DEF WorkerDone, ReadForCancel, AskCancel, FinallyCancel, vars, dbVars, threadVars
<1> QED
  BY <1>1, <1>2, <1>3, <1>4, <1>5, <1>6, <1>7, <1>8, <1>9, <1>10 DEF Next

-----------------------------------------------------------------------------
\* One host of a job is marked at a time, and only by the run_job scanning it.
LEMMA RowsStep ==
  TypeOK /\ DownInv /\ HandoverInv /\ OwnerInv /\ StatusInv /\ RowsInv /\ [Next]_vars => RowsInv'
<1> SUFFICES ASSUME TypeOK, DownInv, HandoverInv, OwnerInv, StatusInv, RowsInv, [Next]_vars
             PROVE  RowsInv'
  OBVIOUS
<1> USE DEF TypeOK, RowsInv
<1>1. ASSUME UNCHANGED <<status, rows>>,
             \A k \in Jobs : run'[k] \in {"loop", "next", "scan", "close"} => run'[k] = run[k],
             \A k \in Jobs : run'[k] = "close" /\ k \in cancelRequested => k \in cancelRequested'
      PROVE  RowsInv'
  BY <1>1 DEF RowsOf, Waiting
<1>2. ASSUME NEW j \in Jobs, NEW todo \in SUBSET Requested[j], CreateJob(j, todo) PROVE RowsInv'
  <2>1. run[j] = "none" /\ UNCHANGED <<run, cancelRequested>>
    BY <1>2 DEF CreateJob, HandoverInv, memoryVars
  <2>2. todo \subseteq Hosts
    BY RequestedAssumption
  <2>3. /\ status'[j] = "QUEUED" => todo # {}
        /\ \A h \in Hosts : rows'[j][h] \in {"NOROW", "QUEUED", "DONE"}
        /\ \A h \in todo : rows'[j][h] = "QUEUED"
    BY <1>2, <2>2 DEF CreateJob
  <2>4. ASSUME NEW k \in Jobs \ {j}
        PROVE  \/ status'[k] = status[k] /\ rows'[k] = rows[k]
               \/ /\ status'[k] = "PRUNED" /\ \A h \in Hosts : rows'[k][h] = "NOROW"
                  /\ status[k] \in Ended
    BY <1>2 DEF CreateJob, Doomed
  <2> QED
    <3>1. RowsOf(j)'
      BY <2>1, <2>2, <2>3 DEF RowsOf
    <3>2. ASSUME NEW k \in Jobs \ {j} PROVE RowsOf(k)'
      <4>1. RowsOf(k) /\ run'[k] = run[k]
        BY <2>1
      <4>2. CASE status'[k] = status[k] /\ rows'[k] = rows[k]
        BY <2>1, <4>1, <4>2 DEF RowsOf, Waiting
      <4>3. CASE status'[k] = "PRUNED" /\ status[k] \in Ended
        BY <2>4, <4>1, <4>3 DEF RowsOf, StatusInv, Scanning, Ended
      <4> QED
        BY <2>4, <4>2, <4>3
    <3> QED
      BY <3>1, <3>2
<1>3. ASSUME NEW j \in Jobs,
             \/ HoldCredentials(j) \/ Submit(j) \/ WaitOn(j) \/ HandOver(j) \/ HandoffReturns(j)
             \/ RequestFails(j)
      PROVE  RowsInv'
  <2>1. UNCHANGED <<status, rows, cancelRequested>>
    BY <1>3 DEF HoldCredentials, Submit, WaitOn, HandOver, HandoffReturns, RequestFails, dbVars, memoryVars
  <2>2. \A k \in Jobs : run'[k] \in {"loop", "next", "scan", "close"} => run'[k] = run[k]
    BY <1>3 DEF HoldCredentials, Submit, WaitOn, HandOver, HandoffReturns, RequestFails
  <2> QED
    BY <1>1, <2>1, <2>2
<1>4. CASE WorkerTakes
  <2>1. \A k \in Jobs : run'[k] \in {"loop", "next", "scan", "close"} => run'[k] = run[k]
    BY <1>4, TailFacts DEF WorkerTakes
  <2> QED
    BY <1>1, <1>4, <2>1 DEF WorkerTakes, dbVars
<1>5. ASSUME NEW j \in Jobs, RunJob(j) \/ ScanRaises(j) \/ CommitFails(j) PROVE RowsInv'
  <2> USE DEF Goto, Leave, dbVars, memoryVars
  <2>1. CASE EnterSlot(j)
    BY <1>1, <2>1 DEF EnterSlot
  <2>2. CASE ClaimCredentials(j)
    BY <1>1, <2>2 DEF ClaimCredentials, ClaimOutcome
  <2>3. CASE InterruptOrphan(j)
    BY <2>3 DEF InterruptOrphan, RowsOf, Waiting
  <2>4. CASE StartRunning(j)
    BY <2>4 DEF StartRunning, StatusInv, RowsOf, Waiting
  <2>5. CASE AskStop(j)
    BY <2>5 DEF AskStop, ShouldStop, RowsOf, Waiting
  <2>6. CASE InterruptFailedScan(j)
    BY <2>6 DEF InterruptFailedScan, RowsOf, Waiting
  <2>7. CASE CloseJob(j)
    BY <2>7 DEF CloseJob, RowsOf, Waiting
  <2>8. CASE Cleanup(j)
    BY <2>8 DEF Cleanup, RowsOf, Waiting
  <2>9. ASSUME NEW h \in Hosts, StartHost(j, h) PROVE RowsInv'
    <3>1. RowsOf(j)'
      BY <2>9 DEF StartHost, StatusInv, Scanning, RowsOf, Waiting
    <3>2. ASSUME NEW k \in Jobs \ {j} PROVE RowsOf(k)'
      BY <2>9 DEF StartHost, RowsOf, Waiting
    <3> QED
      BY <3>1, <3>2
  <2>10. ASSUME NEW h \in Hosts, FinishHost(j, h) PROVE RowsInv'
    <3>1. RowsOf(j)'
      <4>1. run[j] = "scan" /\ run'[j] = "loop" /\ status'[j] = "RUNNING" /\ rows[j][h] = "RUNNING"
        BY <2>10 DEF FinishHost, StatusInv, Scanning
      <4>2. \A g \in Hosts \ {h} : rows'[j][g] = rows[j][g] /\ rows[j][g] \notin {"RUNNING", "CANCELLED"}
        BY <2>10, <4>1 DEF FinishHost, RowsOf
      <4>3. \A g \in Hosts : rows'[j][g] \in {"NOROW", "QUEUED", "DONE"}
        BY <2>10, <4>2 DEF FinishHost, RowState
      <4> QED
        BY <4>1, <4>3 DEF RowsOf
    <3>2. ASSUME NEW k \in Jobs \ {j} PROVE RowsOf(k)'
      BY <2>10 DEF FinishHost, RowsOf, Waiting
    <3> QED
      BY <3>1, <3>2
  <2>11. CASE ScanRaises(j)
    BY <1>1, <2>11 DEF ScanRaises
  <2>12. CASE CommitFails(j)
    BY <1>1, <2>12 DEF CommitFails
  <2> QED
    BY <1>5, <2>1, <2>2, <2>3, <2>4, <2>5, <2>6, <2>7, <2>8, <2>9, <2>10, <2>11, <2>12 DEF RunJob
<1>6. ASSUME NEW c \in Cancellers, AskCancel(c) PROVE RowsInv'
  BY <1>1, <1>6 DEF AskCancel, dbVars
<1>7. ASSUME NEW c \in Cancellers, WriteCancelled(c) \/ FinallyCancel(c) PROVE RowsInv'
  <2>1. cancel[c].job \in Jobs /\ run[cancel[c].job] \notin Claimed
    BY <1>7 DEF WriteCancelled, FinallyCancel, CancelThread, NoCancel, OwnerInv, Holds
  <2>2. CASE WriteCancelled(c)
    <3>1. PICK j \in Jobs : j = cancel[c].job
      BY <2>1
    <3>2. UNCHANGED <<run, cancelRequested>>
      BY <2>2 DEF WriteCancelled, memoryVars
    <3>3. RowsOf(j)'
      <4>1. run'[j] \notin {"loop", "next", "scan", "close"}
        BY <2>1, <3>1, <3>2 DEF Claimed, InSlot
      <4>2. status'[j] = "CANCELLED" \/ (RowsOf(j) /\ UNCHANGED <<status, rows>>)
        BY <2>2, <3>1 DEF WriteCancelled
      <4> QED
        BY <4>1, <4>2 DEF RowsOf, Waiting
    <3>4. ASSUME NEW k \in Jobs \ {j} PROVE RowsOf(k)'
      <4>1. RowsOf(k) /\ status'[k] = status[k] /\ rows'[k] = rows[k]
        BY <2>2, <3>1 DEF WriteCancelled
      <4> QED
        BY <3>2, <4>1 DEF RowsOf, Waiting
    <3> QED
      BY <3>3, <3>4
  <2>3. CASE FinallyCancel(c)
    BY <2>1, <2>3, <1>1 DEF FinallyCancel, Claimed, InSlot, dbVars
  <2> QED
    BY <1>7, <2>2, <2>3
<1>8. CASE Crash
  BY <1>8 DEF Crash, dbVars, RowsOf, Waiting
<1>9. CASE Startup
  BY <1>9 DEF Startup, Caught, Active, DownInv, threadVars, RowsOf, Waiting
<1>10. ASSUME \/ WorkerDone \/ UNCHANGED vars
              \/ \E c \in Cancellers, j \in Jobs : ReadForCancel(c, j)
       PROVE  UNCHANGED <<status, rows, run, cancelRequested>>
  BY <1>10 DEF WorkerDone, ReadForCancel, vars, dbVars, memoryVars, threadVars
<1> QED
  BY <1>1, <1>2, <1>3, <1>4, <1>5, <1>6, <1>7, <1>8, <1>9, <1>10 DEF Next

-----------------------------------------------------------------------------
\* Only create_job writes a job down as queued, and it is what the request's
\* session reads back.
LEMMA BornStep == TypeOK /\ BornInv /\ [Next]_vars => BornInv'
<1> SUFFICES ASSUME TypeOK, BornInv, [Next]_vars PROVE BornInv'
  OBVIOUS
<1> USE DEF TypeOK, BornInv
<1>1. ASSUME UNCHANGED born, \A k \in Jobs : status'[k] = "QUEUED" => status[k] = "QUEUED"
      PROVE  BornInv'
  BY <1>1
<1>2. ASSUME NEW j \in Jobs, NEW todo \in SUBSET Requested[j], CreateJob(j, todo) PROVE BornInv'
  <2>1. born'[j].as = status'[j] /\ \A k \in Jobs \ {j} : born'[k] = born[k]
    BY <1>2 DEF CreateJob
  <2>2. \A k \in Jobs \ {j} : status'[k] = "QUEUED" => status[k] = "QUEUED"
    BY <1>2 DEF CreateJob
  <2> QED
    BY <2>1, <2>2
<1>3. ASSUME NEW j \in Jobs, RunJob(j) \/ ScanRaises(j) \/ CommitFails(j) PROVE BornInv'
  <2>1. /\ UNCHANGED born
        /\ \/ UNCHANGED status
           \/ \E st \in Status \ {"ABSENT", "QUEUED"} : status' = [status EXCEPT ![j] = st]
    BY <1>3, RunStep
  <2> QED
    BY <1>1, <2>1
<1>4. ASSUME NEW c \in Cancellers, WriteCancelled(c) PROVE BornInv'
  BY <1>1, <1>4 DEF WriteCancelled
<1>5. CASE Startup
  BY <1>1, <1>5 DEF Startup
<1>6. ASSUME \/ WorkerTakes \/ WorkerDone \/ Crash \/ UNCHANGED vars
             \/ \E j \in Jobs : \/ HoldCredentials(j) \/ Submit(j) \/ WaitOn(j) \/ HandOver(j)
                                \/ HandoffReturns(j) \/ RequestFails(j)
             \/ \E c \in Cancellers : \/ \E j \in Jobs : ReadForCancel(c, j)
                                      \/ AskCancel(c) \/ FinallyCancel(c)
      PROVE  UNCHANGED <<status, born>>
  BY <1>6 DEF WorkerTakes, WorkerDone, Crash, HoldCredentials, Submit, WaitOn, HandOver,
     HandoffReturns, RequestFails, ReadForCancel, AskCancel, FinallyCancel, vars, dbVars
<1> QED
  BY <1>1, <1>2, <1>3, <1>4, <1>5, <1>6 DEF Next

\* A step that leaves a job's carriers to it leaves it carried.
LEMMA CarriedKept ==
  ASSUME TypeOK, NEW j \in Jobs, Carried(j),
         status'[j] = "QUEUED" => status[j] = "QUEUED",
         status'[j] = "RUNNING" => status[j] = "RUNNING",
         request[j] \in {"created", "held", "waited"} =>
           request'[j] = request[j] \/ (request[j] = "created" /\ request'[j] = "held" /\ j \in credentials'),
         InQueue(j) => InQueue(j)',
         run'[j] = run[j],
         j \in credentials => j \in credentials' \/ Writers(j)' # {},
         Writers(j) # {} => Writers(j)' # {}
  PROVE  Carried(j)'
BY DEF Carried, Scanning

\* Only a crash and a restart change whether the process and its worker are up.
LEMMA CalmStep ==
  ASSUME TypeOK, [Next]_vars, ~Startup, ~Crash
  PROVE  UNCHANGED <<up, workerUp>> /\ (faults' = faults \/ faults' = faults + 1)
<1> USE DEF memoryVars, envVars, Fault, NoFault
<1>1. ASSUME NEW j \in Jobs, NEW todo \in SUBSET Requested[j], CreateJob(j, todo)
      PROVE  UNCHANGED <<up, workerUp, faults>>
  BY <1>1 DEF CreateJob
<1>2. ASSUME NEW j \in Jobs, HoldCredentials(j) \/ Submit(j) \/ WaitOn(j) \/ HandOver(j) \/ HandoffReturns(j)
      PROVE  UNCHANGED <<up, workerUp, faults>>
  BY <1>2 DEF HoldCredentials, Submit, WaitOn, HandOver, HandoffReturns
<1>3. ASSUME NEW j \in Jobs, RunJob(j) \/ ScanRaises(j) PROVE UNCHANGED <<up, workerUp, faults>>
  BY <1>3 DEF RunJob, EnterSlot, ClaimCredentials, InterruptOrphan, StartRunning, AskStop, CloseJob,
     InterruptFailedScan, Cleanup, StartHost, FinishHost, ScanRaises
<1>4. ASSUME NEW j \in Jobs, RequestFails(j) \/ CommitFails(j)
      PROVE  UNCHANGED <<up, workerUp>> /\ faults' = faults + 1
  BY <1>4 DEF RequestFails, CommitFails
<1>5. CASE WorkerTakes
  BY <1>5 DEF WorkerTakes
<1>6. ASSUME NEW c \in Cancellers,
             (\E j \in Jobs : ReadForCancel(c, j)) \/ AskCancel(c) \/ FinallyCancel(c)
      PROVE  UNCHANGED <<up, workerUp, faults>>
  BY <1>6 DEF ReadForCancel, AskCancel, FinallyCancel
<1>7. ASSUME NEW c \in Cancellers, WriteCancelled(c)
      PROVE  UNCHANGED <<up, workerUp>> /\ (faults' = faults \/ faults' = faults + 1)
  BY <1>7 DEF WriteCancelled
<1>8. CASE WorkerDone \/ UNCHANGED vars
  BY <1>8 DEF WorkerDone, vars
<1> QED
  BY <1>1, <1>2, <1>3, <1>4, <1>5, <1>6, <1>7, <1>8 DEF Next

\* While nothing fails, a job that has not ended is passed on from hand to hand
\* and its credentials are always with someone: what no thread has let go of,
\* none can lose.
LEMMA CarriedStep ==
  IInv /\ [Next]_vars => CarriedInv'
<1> SUFFICES ASSUME IInv, [Next]_vars, (up /\ workerUp /\ faults = 0)', NEW k \in Jobs
             PROVE  Carried(k)'
  BY DEF CarriedInv
<1> USE DEF IInv, TypeOK
<1>1. CASE Startup
  BY <1>1 DEF Startup, Caught, Active, Carried
<1>2. CASE Crash
  BY <1>2 DEF Crash
<1>3. ASSUME ~Startup, ~Crash PROVE Carried(k)
  <2>1. UNCHANGED <<up, workerUp>> /\ (faults' = faults \/ faults' = faults + 1)
    BY <1>3, CalmStep
  <2> QED
    BY <2>1 DEF CarriedInv
<1>4. ASSUME NEW j \in Jobs, NEW todo \in SUBSET Requested[j], CreateJob(j, todo) PROVE Carried(k)'
  <2>1. ~Startup /\ ~Crash
    BY <1>4 DEF CreateJob, Startup, Crash, envVars
  <2>2. CASE k = j
    BY <1>4, <2>2 DEF CreateJob, Carried
  <2>3. CASE k # j
    <3>1. /\ status'[k] \in Active => status'[k] = status[k]
          /\ request'[k] = request[k]
          /\ UNCHANGED <<queue, credentials, cancel, run>>
      BY <1>4, <2>3 DEF CreateJob, memoryVars, Active
    <3> QED
      BY <1>3, <2>1, <3>1, CarriedKept DEF InQueue, Writers, Active
  <2> QED
    BY <2>2, <2>3
<1>5. ASSUME NEW j \in Jobs, HoldCredentials(j) \/ WaitOn(j) PROVE Carried(k)'
  BY <1>3, <1>5 DEF HoldCredentials, WaitOn, dbVars, envVars, Startup, Crash, Carried, InQueue, Writers
<1>6. ASSUME NEW j \in Jobs, Submit(j) \/ HandOver(j) PROVE Carried(k)'
  <2>1. ~Startup /\ ~Crash /\ workerUp
    BY <1>6 DEF Submit, HandOver, Startup, Crash, envVars
  <2>2. /\ request[j] \in {"held", "waited"} /\ \A i \in Jobs \ {j} : request'[i] = request[i]
        /\ UNCHANGED <<status, credentials, cancel, run>>
    BY <1>6, <2>1 DEF Submit, HandOver, dbVars
  <2>3. InQueue(k) => InQueue(k)'
    <3>1. queue' = queue \/ queue' = Append(queue, j)
      BY <1>6 DEF Submit, HandOver
    <3>2. \A i \in DOMAIN queue : i \in DOMAIN Append(queue, j) /\ Append(queue, j)[i] = queue[i]
      OBVIOUS
    <3> QED
      BY <3>1, <3>2 DEF InQueue
  <2>4. CASE k = j /\ status[j] = "QUEUED"
    <3>1. queue' = Append(queue, j)
      BY <1>6, <2>1, <2>4 DEF Submit, HandOver, BornInv
    <3>2. Len(queue) + 1 \in DOMAIN Append(queue, j) /\ Append(queue, j)[Len(queue) + 1] = j
      OBVIOUS
    <3>3. InQueue(j)'
      BY <3>1, <3>2 DEF InQueue
    <3> QED
      BY <1>3, <2>1, <2>2, <2>4, <3>3 DEF Carried, Writers
  <2>5. CASE k # j \/ status[j] # "QUEUED"
    BY <1>3, <2>1, <2>2, <2>3, <2>5 DEF Carried, Writers
  <2> QED
    BY <2>4, <2>5
<1>7. ASSUME NEW j \in Jobs, HandoffReturns(j) PROVE Carried(k)'
  BY <1>3, <1>7 DEF HandoffReturns, dbVars, envVars, Startup, Crash, Carried, InQueue, Writers
<1>8. ASSUME NEW j \in Jobs, RequestFails(j) \/ CommitFails(j) PROVE FALSE
  <2>1. faults' = faults + 1 /\ faults \in Nat
    BY <1>8 DEF RequestFails, CommitFails, Fault
  <2> QED
    BY <2>1
<1>9. CASE WorkerTakes
  <2>1. /\ ~Startup /\ ~Crash /\ Head(queue) \in Jobs
        /\ run' = [run EXCEPT ![Head(queue)] = "entry"] /\ queue' = Tail(queue)
        /\ UNCHANGED <<status, request, credentials, cancel>>
    BY <1>9, TailFacts DEF WorkerTakes, Startup, Crash, Fault, dbVars
  <2>2. run[Head(queue)] = "none"
    BY <1>9, TailFacts DEF WorkerTakes, HandoverInv
  <2>3. InQueue(k) => k = Head(queue) \/ InQueue(k)'
    <3>1. \A i \in DOMAIN queue : i = 1 \/ (i - 1 \in DOMAIN Tail(queue) /\ Tail(queue)[i - 1] = queue[i])
      BY <1>9 DEF WorkerTakes
    <3> QED
      BY <1>9, <2>1, <3>1, TailFacts DEF InQueue, WorkerTakes
  <2>4. CASE k = Head(queue)
    BY <1>3, <2>1, <2>2, <2>4 DEF Carried, Writers, Scanning
  <2>5. CASE k # Head(queue)
    BY <1>3, <2>1, <2>3, <2>5 DEF Carried, Writers
  <2> QED
    BY <2>4, <2>5
<1>10. CASE WorkerDone \/ UNCHANGED vars
  BY <1>3, <1>10 DEF WorkerDone, vars, dbVars, memoryVars, threadVars, envVars, Startup, Crash, Carried,
     InQueue, Writers
<1>11. ASSUME NEW j \in Jobs, RunJob(j) \/ ScanRaises(j) PROVE Carried(k)'
  <2>1. ~Startup /\ ~Crash
    <3>1. run[j] # "none" /\ UNCHANGED workerUp
      BY <1>11, RunStep
    <3> QED
      BY <3>1 DEF Startup, Crash, DownInv
  <2>2. CASE k # j
    <3>1. /\ status'[k] = status[k] /\ run'[k] = run[k] /\ UNCHANGED <<queue, request, cancel>>
          /\ k \in credentials => k \in credentials'
      <4>1. status'[k] = status[k] /\ run'[k] = run[k] /\ UNCHANGED <<queue, request, cancel>>
        <5>1. /\ \E at \in RunAt \ {"none"} : run' = [run EXCEPT ![j] = at]
              /\ UNCHANGED status \/ \E st \in Status : status' = [status EXCEPT ![j] = st]
              /\ UNCHANGED <<queue, request, cancel>>
          BY <1>11, RunStep
        <5> QED
          BY <2>2, <5>1
      <4>2. k \in credentials => k \in credentials'
        BY <1>11, <2>2 DEF RunJob, EnterSlot, ClaimCredentials, Taken, InterruptOrphan, StartRunning,
           AskStop, CloseJob, InterruptFailedScan, Cleanup, StartHost, FinishHost, ScanRaises, memoryVars
      <4> QED
        BY <4>1, <4>2
    <3> QED
      BY <1>3, <2>1, <3>1, CarriedKept DEF InQueue, Writers
  <2>3. Carried(j) /\ UNCHANGED <<queue, request, cancel>> /\ Writers(j)' = Writers(j)
    <3>1. UNCHANGED <<queue, request, cancel>>
      BY <1>11, RunStep
    <3>2. up /\ workerUp /\ faults = 0
      <4>1. UNCHANGED <<up, workerUp>> /\ (faults' = faults \/ faults' = faults + 1)
        BY <2>1, CalmStep
      <4> QED
        BY <4>1
    <3> QED
      BY <3>1, <3>2 DEF CarriedInv, Writers
  <2>4. CASE k = j /\ EnterSlot(j)
    BY <2>3, <2>4 DEF EnterSlot, Goto, Leave, ReadsQueued, BornInv, dbVars, Carried, InQueue, Scanning
  <2>5. CASE k = j /\ ClaimCredentials(j)
    <3>1. /\ run[j] = "claim" /\ request[j] # "created" /\ credentials' = credentials \ {j}
          /\ run'[j] = ClaimOutcome(j) /\ UNCHANGED status
      BY <2>5 DEF ClaimCredentials, ClaimOutcome, Taken, Goto, Leave, HandoverInv, dbVars
    <3>2. status[j] # "RUNNING"
      BY <2>3, <3>1 DEF Carried, Scanning
    <3>3. CASE j \in credentials
      BY <2>3, <2>5, <3>1, <3>2, <3>3 DEF ClaimOutcome, Carried
    <3>4. CASE j \notin credentials /\ status[j] = "QUEUED"
      BY <2>3, <2>5, <3>1, <3>4 DEF Carried
    <3> QED
      BY <2>5, <3>1, <3>2, <3>3, <3>4 DEF Carried
  <2>6. CASE k = j /\ (InterruptOrphan(j) \/ StartRunning(j))
    BY <2>3, <2>6 DEF InterruptOrphan, StartRunning, Goto, Leave, Carried, Scanning
  <2>7. CASE k = j /\ (CloseJob(j) \/ InterruptFailedScan(j))
    BY <2>7 DEF CloseJob, InterruptFailedScan, Carried
  <2>8. CASE k = j /\ Cleanup(j)
    <3>1. /\ run[j] \in {"cleanup", "cleanupErr"} /\ UNCHANGED <<status, credentials>>
      BY <2>8 DEF Cleanup, dbVars
    <3> QED
      BY <2>3, <2>8, <3>1 DEF Carried, Scanning, InQueue, OwnerInv, Claimed, InSlot, HandoverInv
  <2>9. CASE k = j /\ (AskStop(j) \/ ScanRaises(j))
    BY <2>9 DEF AskStop, ScanRaises, Goto, StatusInv, dbVars, Carried, Scanning
  <2>10. CASE k = j /\ \E h \in Hosts : StartHost(j, h) \/ FinishHost(j, h)
    BY <2>10 DEF StartHost, FinishHost, Goto, StatusInv, dbVars, Carried, Scanning
  <2> QED
    BY <1>11, <2>2, <2>4, <2>5, <2>6, <2>7, <2>8, <2>9, <2>10 DEF RunJob
<1>12. ASSUME NEW c \in Cancellers, NEW j \in Jobs, ReadForCancel(c, j) PROVE Carried(k)'
  <2>1. ~Startup /\ ~Crash /\ Writers(k)' = Writers(k)
    BY <1>12 DEF ReadForCancel, Startup, Crash, AtCancel, NoCancel, Writers, envVars
  <2> QED
    BY <1>3, <1>12, <2>1 DEF ReadForCancel, dbVars, memoryVars, Carried, InQueue
<1>13. ASSUME NEW c \in Cancellers, AskCancel(c) PROVE Carried(k)'
  <2>1. ~Startup /\ ~Crash /\ UNCHANGED <<status, request, run, queue>> /\ cancel[c].at = "asked"
    BY <1>13 DEF AskCancel, Startup, Crash, NoCancel, dbVars, envVars
  <2>2. Writers(k) # {} => Writers(k)' # {}
    <3>1. \A d \in Cancellers \ {c} : cancel'[d] = cancel[d]
      BY <1>13 DEF AskCancel, AtCancel
    <3> QED
      BY <2>1, <3>1 DEF Writers
  <2>3. k \in credentials => k \in credentials' \/ Writers(k)' # {}
    <3>1. ASSUME k \in credentials, k \notin credentials' PROVE c \in Writers(k)'
      BY <1>13, <3>1 DEF AskCancel, AtCancel, CancelOwns, Taken, Writers
    <3> QED
      BY <3>1
  <2> QED
    BY <1>3, <2>1, <2>2, <2>3, CarriedKept DEF InQueue
<1>14. ASSUME NEW c \in Cancellers, WriteCancelled(c) PROVE Carried(k)'
  <2>1. /\ ~Startup /\ ~Crash /\ cancel[c].job \in Jobs /\ cancel[c].at = "write"
        /\ status' = [status EXCEPT ![cancel[c].job] = "CANCELLED"]
        /\ UNCHANGED <<credentials, request, run, queue>>
        /\ \A d \in Cancellers \ {c} : cancel'[d] = cancel[d]
    BY <1>14 DEF WriteCancelled, AtCancel, CancelThread, NoCancel, Startup, Crash, Fault, memoryVars
  <2>2. CASE k = cancel[c].job
    BY <2>1, <2>2 DEF Carried
  <2>3. CASE k # cancel[c].job
    <3>1. Writers(k) # {} => Writers(k)' # {}
      BY <2>1, <2>3 DEF Writers
    <3> QED
      BY <1>3, <2>1, <2>3, <3>1, CarriedKept DEF InQueue
  <2> QED
    BY <2>2, <2>3
<1>15. ASSUME NEW c \in Cancellers, FinallyCancel(c) PROVE Carried(k)'
  <2>1. ~Startup /\ ~Crash /\ Writers(k)' = Writers(k)
    BY <1>15 DEF FinallyCancel, Startup, Crash, NoCancel, Writers, envVars
  <2> QED
    BY <1>3, <1>15, <2>1 DEF FinallyCancel, dbVars, Carried, InQueue
<1> QED
  BY <1>1, <1>2, <1>4, <1>5, <1>6, <1>7, <1>8, <1>9, <1>10, <1>11, <1>12, <1>13, <1>14, <1>15 DEF Next

-----------------------------------------------------------------------------
LEMMA InitIInv == Init => IInv
<1> SUFFICES ASSUME Init PROVE IInv
  OBVIOUS
<1>1. TypeOK
  BY InitTypeOK
<1>2. DownInv /\ SlotInv /\ HandoverInv
  BY DEF Init, DownInv, SlotInv, InSlot, HandoverInv
<1>3. OwnerInv /\ StatusInv /\ RowsInv
  BY DEF Init, OwnerInv, Holds, NoCancel, StatusInv, Scanning, RowsInv, RowsOf
<1>4. BornInv /\ CarriedInv
  BY DEF Init, BornInv, CarriedInv, Carried
<1> QED
  BY <1>1, <1>2, <1>3, <1>4 DEF IInv

LEMMA IInvStep == IInv /\ [Next]_vars => IInv'
BY TypeOKStep, DownStep, SlotStep, HandoverStep, OwnerStep, StatusStep, RowsStep, BornStep, CarriedStep
   DEF IInv

\* The invariant the theorems below are read off.
THEOREM Inductive == Spec => []IInv
BY InitIInv, IInvStep, PTL DEF Spec

\* Every variable of the scan jobs has its type, in every reachable state.
THEOREM TypeCorrect == Spec => []TypeOK
<1>1. IInv => TypeOK
  BY DEF IInv
<1> QED
  BY <1>1, Inductive, PTL

\* Two scans never overlap, for any number of jobs, requests and cancellers.
THEOREM NoTwoScans == Spec => []OneScanAtATime
<1>1. IInv => OneScanAtATime
  BY DEF IInv, SlotInv, InSlot, OneScanAtATime, Running
<1> QED
  BY <1>1, Inductive, PTL

\* Whichever of run_job and the cancellers takes a job's credentials owns the
\* job, and no other thread does.
THEOREM Ownership == Spec => []OneOwner
<1>1. IInv => OneOwner
  BY DEF IInv, OwnerInv, NoHolder, Holds, Claimed, InSlot, OneOwner, Running, Writers
<1> QED
  BY <1>1, Inductive, PTL

\* No credentials outlive the wait of their job.
THEOREM CredentialsReleased == Spec => []CredentialsOnlyWhileQueued
<1>1. IInv => CredentialsOnlyWhileQueued
  BY DEF IInv, OwnerInv, CredentialsOnlyWhileQueued
<1> QED
  BY <1>1, Inductive, PTL

\* A job is scanned only while its row says it is running.
THEOREM NoHiddenScan == Spec => []ScansOnlyRunning
<1>1. IInv => ScansOnlyRunning
  BY DEF IInv, StatusInv, Scanning, ScansOnlyRunning
<1> QED
  BY <1>1, Inductive, PTL

\* As long as nothing has failed, a job shown as queued or running is in the
\* hands of some thread that will carry it on.
THEOREM NothingForgotten == Spec => []NoJobForgotten
<1>1. IInv => NoJobForgotten
  BY DEF IInv, CarriedInv, Carried, Scanning, InQueue, NoJobForgotten, InHand, Active
<1> QED
  BY <1>1, Inductive, PTL

-----------------------------------------------------------------------------
(* The detailed specification implements the lifecycle.                    *)

LEMMA InitLifecycle == Init => Lifecycle!Init
BY DEF Init, Lifecycle!Init, Lifecycle!NoRows

LEMMA CloseIsLifecycle ==
  ASSUME IInv, NEW j \in Jobs, CloseJob(j)
  PROVE  Lifecycle!Finish(j) \/ Lifecycle!Cancel(j)
<1> USE DEF IInv, TypeOK
<1>1. status[j] = "RUNNING" /\ RowsOf(j)
  BY DEF CloseJob, StatusInv, Scanning, RowsInv
<1>2. \A h \in Hosts : rows[j][h] \in {"NOROW", "QUEUED", "DONE"}
  BY <1>1 DEF CloseJob, RowsOf
<1>3. \A h \in Hosts : h \in Pending(j) <=> rows[j][h] = "QUEUED"
  BY <1>2 DEF Pending
<1>4. CASE j \in cancelRequested /\ Pending(j) # {}
  <2>1. \E h \in Hosts : rows[j][h] = "QUEUED"
    BY <1>3, <1>4 DEF Pending
  <2>2. [h \in Hosts |-> IF h \in Pending(j) THEN "CANCELLED" ELSE rows[j][h]] = Lifecycle!CancelRows(rows[j])
    BY <1>3 DEF Lifecycle!CancelRows
  <2>3. /\ status' = [status EXCEPT ![j] = "CANCELLED"]
        /\ rows' = [rows EXCEPT ![j] = Lifecycle!CancelRows(@)]
    BY <1>4, <2>2 DEF CloseJob
  <2> QED
    BY <1>1, <1>2, <2>1, <2>3 DEF Lifecycle!Cancel, Lifecycle!Active
<1>5. CASE ~(j \in cancelRequested /\ Pending(j) # {})
  <2>1. \A h \in Hosts : rows[j][h] # "QUEUED"
    BY <1>1, <1>3, <1>5 DEF CloseJob, RowsOf, Waiting, Pending
  <2>2. status' = [status EXCEPT ![j] = "FINISHED"] /\ UNCHANGED rows
    BY <1>5 DEF CloseJob
  <2> QED
    BY <1>1, <1>2, <2>1, <2>2 DEF Lifecycle!Finish
<1> QED
  BY <1>4, <1>5

LEMMA WriteCancelledIsLifecycle ==
  ASSUME IInv, NEW c \in Cancellers, WriteCancelled(c)
  PROVE  (\E j \in Jobs : Lifecycle!Cancel(j)) \/ UNCHANGED <<status, rows>>
<1> USE DEF IInv, TypeOK
<1>1. PICK j \in Jobs : j = cancel[c].job
  BY DEF WriteCancelled, CancelThread, NoCancel
<1>2. status[j] = "QUEUED" /\ RowsOf(j)
  BY <1>1 DEF WriteCancelled, OwnerInv, Holds, RowsInv
<1>3. \A h \in Hosts : rows[j][h] # "RUNNING"
  BY <1>2 DEF RowsOf
<1>4. \E h \in Hosts : rows[j][h] = "QUEUED"
  BY <1>2 DEF RowsOf
<1>5. CASE UNCHANGED <<status, rows>>
  BY <1>5
<1>6. CASE /\ rows' = [rows EXCEPT ![j] = CancelRows(@)]
           /\ status' = [status EXCEPT ![j] = "CANCELLED"]
  BY <1>2, <1>3, <1>4, <1>6 DEF Lifecycle!Cancel, Lifecycle!Active, CancelRows, Lifecycle!CancelRows
<1> QED
  BY <1>1, <1>5, <1>6 DEF WriteCancelled

LEMMA LifecycleStep == IInv /\ [Next]_vars => [Lifecycle!Next]_Lifecycle!vars
<1> SUFFICES ASSUME IInv, [Next]_vars PROVE Lifecycle!Next \/ UNCHANGED <<status, rows>>
  BY DEF Lifecycle!vars
<1> USE DEF IInv, TypeOK, Lifecycle!Active, Lifecycle!Ended
<1>1. ASSUME NEW j \in Jobs, NEW todo \in SUBSET Requested[j], CreateJob(j, todo) PROVE Lifecycle!Next
  <2>1. Requested[j] \in SUBSET Hosts /\ Doomed \in SUBSET {k \in Jobs : status[k] \in Ended}
    BY RequestedAssumption DEF Doomed, Kept
  <2>2. Lifecycle!Create(j, Requested[j], todo, Doomed)
    BY <1>1 DEF CreateJob, Lifecycle!Create, Lifecycle!NoRows
  <2> QED
    BY <1>1, <2>1, <2>2 DEF CreateJob, Lifecycle!Next, Ended
<1>2. ASSUME NEW j \in Jobs,
             \/ HoldCredentials(j) \/ Submit(j) \/ WaitOn(j) \/ HandOver(j) \/ HandoffReturns(j)
             \/ RequestFails(j) \/ EnterSlot(j) \/ ClaimCredentials(j) \/ AskStop(j) \/ Cleanup(j)
             \/ ScanRaises(j) \/ CommitFails(j)
      PROVE  UNCHANGED <<status, rows>>
  BY <1>2 DEF HoldCredentials, Submit, WaitOn, HandOver, HandoffReturns, RequestFails, EnterSlot,
     ClaimCredentials, AskStop, Cleanup, ScanRaises, CommitFails, dbVars
<1>3. ASSUME NEW j \in Jobs, StartRunning(j) PROVE Lifecycle!Next
  <2>1. Lifecycle!Begin(j)
    BY <1>3 DEF StartRunning, StatusInv, Lifecycle!Begin
  <2> QED
    BY <2>1 DEF Lifecycle!Next
<1>4. ASSUME NEW j \in Jobs, NEW h \in Hosts, StartHost(j, h) PROVE Lifecycle!Next
  <2>1. status[j] = "RUNNING" /\ \A g \in Hosts : rows[j][g] # "RUNNING"
    BY <1>4 DEF StartHost, StatusInv, Scanning, RowsInv, RowsOf
  <2>2. Lifecycle!HostBegins(j, h)
    BY <1>4, <2>1 DEF StartHost, Lifecycle!HostBegins
  <2> QED
    BY <2>2 DEF Lifecycle!Next
<1>5. ASSUME NEW j \in Jobs, NEW h \in Hosts, FinishHost(j, h) PROVE Lifecycle!Next
  <2>1. Lifecycle!HostEnds(j, h)
    BY <1>5 DEF FinishHost, StatusInv, Scanning, Lifecycle!HostEnds
  <2> QED
    BY <2>1 DEF Lifecycle!Next
<1>6. ASSUME NEW j \in Jobs, CloseJob(j) PROVE Lifecycle!Next
  BY <1>6, CloseIsLifecycle DEF Lifecycle!Next
<1>7. ASSUME NEW j \in Jobs, InterruptOrphan(j) \/ InterruptFailedScan(j)
      PROVE  Lifecycle!Next \/ UNCHANGED <<status, rows>>
  <2>1. UNCHANGED rows
    BY <1>7 DEF InterruptOrphan, InterruptFailedScan
  <2>2. UNCHANGED status \/ (status[j] \in Active /\ status' = [status EXCEPT ![j] = "INTERRUPTED"])
    BY <1>7 DEF InterruptOrphan, InterruptFailedScan, StatusInv, Scanning, Active
  <2>3. CASE status[j] \in Active /\ status' = [status EXCEPT ![j] = "INTERRUPTED"]
    <3>1. Lifecycle!Interrupt({j})
      BY <2>1, <2>3 DEF Lifecycle!Interrupt
    <3> QED
      BY <2>3, <3>1 DEF Lifecycle!Next, Active
  <2> QED
    BY <2>1, <2>2, <2>3
<1>8. ASSUME NEW c \in Cancellers, WriteCancelled(c) PROVE Lifecycle!Next \/ UNCHANGED <<status, rows>>
  BY <1>8, WriteCancelledIsLifecycle DEF Lifecycle!Next
<1>9. CASE Startup
  <2>1. CASE Caught = {}
    BY <1>9, <2>1 DEF Startup
  <2>2. CASE Caught # {}
    <3>1. Lifecycle!Interrupt(Caught)
      BY <1>9, <2>2 DEF Startup, Lifecycle!Interrupt
    <3>2. Caught \in SUBSET {k \in Jobs : status[k] \in Lifecycle!Active}
      BY DEF Caught, Active
    <3> QED
      BY <3>1, <3>2 DEF Lifecycle!Next
  <2> QED
    BY <2>1, <2>2
<1>10. ASSUME \/ WorkerTakes \/ WorkerDone \/ Crash \/ UNCHANGED vars
              \/ \E c \in Cancellers : \/ \E j \in Jobs : ReadForCancel(c, j)
                                       \/ AskCancel(c) \/ FinallyCancel(c)
       PROVE  UNCHANGED <<status, rows>>
  BY <1>10 DEF WorkerTakes, WorkerDone, Crash, ReadForCancel, AskCancel, FinallyCancel, vars, dbVars
<1> QED
  BY <1>1, <1>2, <1>3, <1>4, <1>5, <1>6, <1>7, <1>8, <1>9, <1>10 DEF Next, RunJob

\* Every behaviour of the jobs, seen through their two tables, is one the
\* lifecycle allows.
THEOREM Refinement == Spec => ImplementsLifecycle
<1>1. Init => Lifecycle!Init
  BY InitLifecycle
<1>2. IInv /\ [Next]_vars => [Lifecycle!Next]_Lifecycle!vars
  BY LifecycleStep
<1> QED
  BY <1>1, <1>2, Inductive, PTL DEF Spec, ImplementsLifecycle, Lifecycle!Spec
-----------------------------------------------------------------------------
(* An accepted cancel stops the scan: the history of accepted cancels.     *)

\* A host is marked by its job's run_job, when the engine has decided on it.
LEMMA BeginsFacts ==
  ASSUME TypeOK, [Next]_vars, NEW k \in Jobs, Begins(k)
  PROVE  run[k] = "next" /\ run'[k] = "scan" /\ UNCHANGED cancelRequested
<1> USE DEF TypeOK, Begins
<1>1. PICK h \in Hosts : rows[k][h] # "RUNNING" /\ rows'[k][h] = "RUNNING"
  OBVIOUS
<1>2. ASSUME NEW j \in Jobs, NEW todo \in SUBSET Requested[j], CreateJob(j, todo) PROVE FALSE
  <2>1. rows'[k][h] \in {"NOROW", "QUEUED", "DONE", rows[k][h]}
    BY <1>2 DEF CreateJob
  <2> QED
    BY <1>1, <2>1
<1>3. ASSUME NEW j \in Jobs, NEW g \in Hosts, StartHost(j, g)
      PROVE  run[k] = "next" /\ run'[k] = "scan" /\ UNCHANGED cancelRequested
  <2>1. k = j
    BY <1>1, <1>3 DEF StartHost
  <2> QED
    BY <1>3, <2>1 DEF StartHost, Goto, memoryVars
<1>4. ASSUME NEW j \in Jobs, NEW g \in Hosts, FinishHost(j, g) PROVE FALSE
  BY <1>1, <1>4 DEF FinishHost
<1>5. ASSUME NEW j \in Jobs, CloseJob(j) PROVE FALSE
  <2>1. \/ UNCHANGED rows
        \/ rows' = [rows EXCEPT ![j] = [g \in Hosts |-> IF g \in Pending(j) THEN "CANCELLED"
                                                       ELSE rows[j][g]]]
    BY <1>5 DEF CloseJob
  <2>2. CASE k = j
    BY <1>1, <2>1, <2>2
  <2>3. CASE k # j
    <3>1. rows'[k] = rows[k]
      BY <2>1, <2>3
    <3> QED
      BY <1>1, <3>1
  <2> QED
    BY <2>2, <2>3
<1>6. ASSUME NEW c \in Cancellers, WriteCancelled(c) PROVE FALSE
  <2>1. \/ UNCHANGED rows
        \/ rows' = [rows EXCEPT ![cancel[c].job] = CancelRows(rows[cancel[c].job])]
    BY <1>6 DEF WriteCancelled
  <2>2. CASE k = cancel[c].job
    <3>1. rows'[k] = rows[k] \/ rows'[k] = CancelRows(rows[k])
      BY <2>1, <2>2
    <3> QED
      BY <1>1, <3>1 DEF CancelRows
  <2>3. CASE k # cancel[c].job
    <3>1. rows'[k] = rows[k]
      BY <2>1, <2>3
    <3> QED
      BY <1>1, <3>1
  <2> QED
    BY <2>2, <2>3
<1>7. ASSUME \/ \E j \in Jobs :
                  \/ HoldCredentials(j) \/ Submit(j) \/ WaitOn(j) \/ HandOver(j) \/ HandoffReturns(j)
                  \/ RequestFails(j) \/ EnterSlot(j) \/ ClaimCredentials(j) \/ InterruptOrphan(j)
                  \/ StartRunning(j) \/ AskStop(j) \/ InterruptFailedScan(j) \/ Cleanup(j)
                  \/ ScanRaises(j) \/ CommitFails(j)
             \/ WorkerTakes \/ WorkerDone \/ Crash \/ Startup \/ UNCHANGED vars
             \/ \E c \in Cancellers : \/ \E j \in Jobs : ReadForCancel(c, j)
                                      \/ AskCancel(c) \/ FinallyCancel(c)
      PROVE  FALSE
  <2>1. UNCHANGED rows
    BY <1>7 DEF HoldCredentials, Submit, WaitOn, HandOver, HandoffReturns, RequestFails, EnterSlot,
       ClaimCredentials, InterruptOrphan, StartRunning, AskStop, InterruptFailedScan, Cleanup,
       ScanRaises, CommitFails, WorkerTakes, WorkerDone, Crash, Startup, ReadForCancel, AskCancel,
       FinallyCancel, vars, dbVars
  <2> QED
    BY <1>1, <2>1
<1> QED
  BY <1>2, <1>3, <1>4, <1>5, <1>6, <1>7 DEF Next, RunJob

\* A canceller holds a job from when it takes the credentials.
LEMMA HoldsFacts ==
  ASSUME TypeOK, [Next]_vars, NEW k \in Jobs, NEW d \in Cancellers, Holds(d, k)', ~Holds(d, k)
  PROVE  k \in credentials \ credentials' /\ Writers(k)' # {}
<1> USE DEF TypeOK, Holds
<1>1. ASSUME NEW c \in Cancellers, AskCancel(c)
      PROVE  k \in credentials \ credentials' /\ Writers(k)' # {}
  <2>1. c = d
    BY <1>1 DEF AskCancel, AtCancel
  <2>2. /\ cancel' = [cancel EXCEPT ![c] = [at |-> "write", job |-> cancel[c].job]]
        /\ cancel[c].job \in credentials /\ credentials' = credentials \ {cancel[c].job}
    BY <1>1, <2>1 DEF AskCancel, AtCancel, CancelOwns, Taken, NoCancel
  <2>3. cancel'[c].at = "write" /\ cancel'[c].job = k /\ k = cancel[c].job
    BY <2>1, <2>2
  <2> QED
    BY <2>2, <2>3 DEF Writers
<1>2. ASSUME NEW c \in Cancellers,
             (\E j \in Jobs : ReadForCancel(c, j)) \/ WriteCancelled(c) \/ FinallyCancel(c)
      PROVE  FALSE
  <2>1. \/ \E j \in Jobs : cancel' = [cancel EXCEPT ![c] = [at |-> "asked", job |-> j]]
        \/ /\ cancel[c].at = "write"
           /\ cancel' = [cancel EXCEPT ![c] = [at |-> "finally", job |-> cancel[c].job]]
        \/ cancel' = [cancel EXCEPT ![c] = [at |-> "idle", job |-> NoJob]]
    BY <1>2 DEF ReadForCancel, WriteCancelled, FinallyCancel, AtCancel, NoCancel
  <2>2. d = c
    BY <2>1
  <2> QED
    BY <2>1, <2>2
<1>3. CASE Crash
  BY <1>3 DEF Crash, NoCancel
<1>4. ASSUME \/ \E j \in Jobs : \E todo \in SUBSET Requested[j] : CreateJob(j, todo)
             \/ \E j \in Jobs :
                  \/ HoldCredentials(j) \/ Submit(j) \/ WaitOn(j) \/ HandOver(j) \/ HandoffReturns(j)
                  \/ RequestFails(j)
             \/ WorkerTakes \/ WorkerDone \/ Startup \/ UNCHANGED vars
      PROVE  FALSE
  BY <1>4 DEF CreateJob, HoldCredentials, Submit, WaitOn, HandOver, HandoffReturns, RequestFails,
     WorkerTakes, WorkerDone, Startup, vars, threadVars
<1>5. ASSUME NEW j \in Jobs, RunJob(j) \/ ScanRaises(j) \/ CommitFails(j) PROVE FALSE
  <2>1. UNCHANGED cancel
    BY <1>5, RunStep
  <2> QED
    BY <2>1
<1> QED
  BY <1>1, <1>2, <1>3, <1>4, <1>5 DEF Next

\* run_job with a job that is stopped asks before it goes on, and finds the
\* request to cancel; a job whose credentials are gone is never started.
LEMMA StoppedStep ==
  ASSUME IInv, [Next]_vars, NEW k \in Jobs, Stopped(k)
  PROVE  Stopped(k)'
<1> USE DEF IInv, TypeOK
<1>1. /\ request[k] \notin {"idle", "created"} /\ k \notin credentials
      /\ run[k] \notin {"next", "start"}
  BY DEF Stopped, HandoverInv, OwnerInv, Claimed, InSlot
<1>2. ASSUME request'[k] \notin {"idle", "created"}, k \notin credentials',
             \/ run'[k] \notin {"start", "loop", "next", "scan", "close"}
             \/ run'[k] = run[k] /\ (k \in cancelRequested => k \in cancelRequested')
      PROVE  Stopped(k)'
  BY <1>1, <1>2 DEF Stopped
<1>3. ASSUME NEW j \in Jobs, NEW todo \in SUBSET Requested[j], CreateJob(j, todo) PROVE Stopped(k)'
  BY <1>1, <1>2, <1>3 DEF CreateJob, memoryVars
<1>4. ASSUME NEW j \in Jobs, HoldCredentials(j) PROVE Stopped(k)'
  BY <1>1, <1>2, <1>4 DEF HoldCredentials
<1>5. ASSUME NEW j \in Jobs, Submit(j) \/ WaitOn(j) \/ HandOver(j) \/ HandoffReturns(j) \/ RequestFails(j)
      PROVE  Stopped(k)'
  BY <1>1, <1>2, <1>5 DEF Submit, WaitOn, HandOver, HandoffReturns, RequestFails, memoryVars
<1>6. CASE WorkerTakes
  BY <1>1, <1>2, <1>6, TailFacts DEF WorkerTakes
<1>7. ASSUME NEW j \in Jobs, RunJob(j) \/ ScanRaises(j) \/ CommitFails(j) PROVE Stopped(k)'
  <2> USE DEF Goto, Leave, memoryVars
  <2>1. request'[k] \notin {"idle", "created"}
    <3>1. UNCHANGED request
      BY <1>7, RunStep
    <3> QED
      BY <1>1, <3>1
  <2>2. CASE ClaimCredentials(j)
    BY <1>1, <1>2, <2>1, <2>2 DEF ClaimCredentials, ClaimOutcome, Taken
  <2>3. CASE EnterSlot(j) \/ InterruptOrphan(j) \/ CloseJob(j) \/ InterruptFailedScan(j) \/ ScanRaises(j)
    BY <1>1, <1>2, <2>1, <2>3 DEF EnterSlot, InterruptOrphan, CloseJob, InterruptFailedScan, ScanRaises
  <2>4. CASE StartRunning(j)
    BY <1>1, <1>2, <2>1, <2>4 DEF StartRunning
  <2>5. CASE AskStop(j)
    <3>1. run[j] = "loop" /\ UNCHANGED <<credentials, cancelRequested>>
      BY <2>5 DEF AskStop
    <3>2. CASE k = j
      BY <1>1, <2>1, <2>5, <3>1, <3>2 DEF AskStop, ShouldStop, Stopped
    <3>3. CASE k # j
      BY <1>1, <1>2, <2>1, <2>5, <3>1, <3>3 DEF AskStop
    <3> QED
      BY <3>2, <3>3
  <2>6. CASE Cleanup(j)
    BY <1>1, <1>2, <2>1, <2>6 DEF Cleanup
  <2>7. CASE CommitFails(j)
    BY <1>1, <1>2, <2>1, <2>7 DEF CommitFails
  <2>8. ASSUME NEW h \in Hosts, StartHost(j, h) PROVE Stopped(k)'
    BY <1>1, <1>2, <2>1, <2>8 DEF StartHost
  <2>9. ASSUME NEW h \in Hosts, FinishHost(j, h) PROVE Stopped(k)'
    <3>1. run[j] = "scan" /\ run' = [run EXCEPT ![j] = "loop"] /\ UNCHANGED <<credentials, cancelRequested>>
      BY <2>9 DEF FinishHost
    <3> QED
      BY <1>1, <1>2, <2>1, <3>1 DEF Stopped
  <2> QED
    BY <1>7, <2>2, <2>3, <2>4, <2>5, <2>6, <2>7, <2>8, <2>9 DEF RunJob
<1>8. ASSUME NEW c \in Cancellers, AskCancel(c) PROVE Stopped(k)'
  BY <1>1, <1>2, <1>8 DEF AskCancel, Taken
<1>9. ASSUME NEW c \in Cancellers, FinallyCancel(c) PROVE Stopped(k)'
  <2>1. k = cancel[c].job => run[k] \notin Claimed
    BY <1>9 DEF FinallyCancel, OwnerInv, Holds
  <2> QED
    BY <1>1, <1>2, <1>9, <2>1 DEF FinallyCancel, Claimed, InSlot
<1>10. CASE Crash
  <2>1. /\ request'[k] \in {"lost", request[k]} /\ credentials' = {} /\ run'[k] = "none"
    BY <1>10 DEF Crash
  <2> QED
    BY <1>1, <1>2, <2>1
<1>11. CASE Startup
  BY <1>1, <1>2, <1>11 DEF Startup, threadVars
<1>12. ASSUME \/ WorkerDone \/ UNCHANGED vars
              \/ \E c \in Cancellers : (\E j \in Jobs : ReadForCancel(c, j)) \/ WriteCancelled(c)
       PROVE  Stopped(k)'
  BY <1>1, <1>2, <1>12 DEF WorkerDone, ReadForCancel, WriteCancelled, vars, memoryVars, threadVars
<1> QED
  BY <1>3, <1>4, <1>5, <1>6, <1>7, <1>8, <1>9, <1>10, <1>11, <1>12 DEF Next

\* A request to cancel stands until run_job is through with the job, unless its
\* credentials were taken.
LEMMA AskedStep ==
  ASSUME IInv, [Next]_vars, NEW k \in Jobs, NoHolder(k), status'[k] \in Active,
         k \in cancelRequested \/ run[k] \in {"returned", "raised"} \/ ~up
  PROVE  k \in cancelRequested' \/ run'[k] \in {"returned", "raised"} \/ ~up'
<1> USE DEF IInv, TypeOK
<1>1. ASSUME NEW j \in Jobs, NEW todo \in SUBSET Requested[j], CreateJob(j, todo)
      PROVE  UNCHANGED <<run, cancelRequested, up>>
  BY <1>1 DEF CreateJob, memoryVars, envVars
<1>2. ASSUME NEW j \in Jobs,
             HoldCredentials(j) \/ Submit(j) \/ WaitOn(j) \/ HandoffReturns(j) \/ RequestFails(j)
      PROVE  UNCHANGED <<run, cancelRequested, up>>
  BY <1>2 DEF HoldCredentials, Submit, WaitOn, HandoffReturns, RequestFails, memoryVars, envVars
<1>3. ASSUME NEW j \in Jobs, HandOver(j)
      PROVE  (run'[k] = run[k] \/ run[k] = "none") /\ UNCHANGED <<cancelRequested, up>>
  BY <1>3 DEF HandOver, HandoverInv, envVars
<1>4. CASE WorkerTakes
  <2>1. (run'[k] = run[k] \/ run[k] = "none") /\ UNCHANGED <<cancelRequested, up>>
    BY <1>4, TailFacts DEF WorkerTakes, HandoverInv
  <2> QED
    BY <2>1
<1>5. ASSUME NEW j \in Jobs, RunJob(j) \/ ScanRaises(j) \/ CommitFails(j)
      PROVE  \/ k \in cancelRequested' \/ run'[k] \in {"returned", "raised"} \/ ~up'
  <2> USE DEF Goto, Leave, memoryVars
  <2>1. /\ run[j] \notin {"none", "returned", "raised"}
        /\ k # j => run'[k] = run[k]
    <3>1. run[j] \notin {"none", "returned", "raised"} /\ \E at \in RunAt : run' = [run EXCEPT ![j] = at]
      BY <1>5, RunStep
    <3> QED
      BY <3>1
  <2>2. up
    BY <2>1 DEF DownInv
  <2>3. CASE Cleanup(j)
    BY <2>1, <2>2, <2>3 DEF Cleanup
  <2>4. CASE ~Cleanup(j)
    <3>1. UNCHANGED cancelRequested
      BY <1>5, <2>4 DEF RunJob, EnterSlot, ClaimCredentials, InterruptOrphan, StartRunning, AskStop,
         CloseJob, InterruptFailedScan, StartHost, FinishHost, ScanRaises, CommitFails
    <3> QED
      BY <2>1, <2>2, <3>1
  <2> QED
    BY <2>3, <2>4
<1>6. ASSUME NEW c \in Cancellers, AskCancel(c)
      PROVE  cancelRequested \subseteq cancelRequested' /\ UNCHANGED <<run, up>>
  BY <1>6 DEF AskCancel, envVars
<1>7. ASSUME NEW c \in Cancellers, FinallyCancel(c)
      PROVE  cancelRequested' = cancelRequested \ {cancel[c].job} /\ k # cancel[c].job /\ UNCHANGED <<run, up>>
  BY <1>7 DEF FinallyCancel, NoHolder, Holds, envVars
<1>8. CASE Startup
  BY <1>8 DEF Startup, Caught, Active
<1>9. CASE Crash
  BY <1>9 DEF Crash
<1>10. ASSUME \/ WorkerDone \/ UNCHANGED vars
              \/ \E c \in Cancellers : (\E j \in Jobs : ReadForCancel(c, j)) \/ WriteCancelled(c)
       PROVE  UNCHANGED <<run, cancelRequested, up>>
  BY <1>10 DEF WorkerDone, ReadForCancel, WriteCancelled, vars, memoryVars, threadVars, envVars
<1> QED
  BY <1>1, <1>2, <1>3, <1>4, <1>5, <1>6, <1>7, <1>8, <1>9, <1>10 DEF Next

LEMMA AllowanceStep ==
  ASSUME IInv, AllowanceInv, [CancelNext]_cancelVars
  PROVE  AllowanceInv'
<1> USE DEF AllowanceInv
<1>1. CASE UNCHANGED cancelVars
  BY <1>1 DEF cancelVars, vars, dbVars, memoryVars, threadVars, envVars, AllowanceOf, Stopped, NoHolder, Holds
<1>2. CASE CancelNext
  <2>1. [Next]_vars /\ TypeOK /\ OwnerInv /\ IInv'
    BY <1>2, IInvStep DEF CancelNext, IInv
  <2>2. OwnerInv'
    BY <2>1 DEF IInv
  <2>3. allowance' \in [Jobs -> 0 .. 2]
    BY <1>2 DEF CancelNext, Allow
  <2>4. ASSUME NEW k \in Jobs PROVE AllowanceOf(k)'
    <3> DEFINE Taken2 == k \in credentials \ credentials' /\ Writers(k)' # {}
    <3>1. AllowanceOf(k)
      OBVIOUS
    <3>2. CASE status'[k] \notin Active
      <4>1. allowance'[k] = 2
        BY <1>2, <3>2 DEF CancelNext, Allow
      <4> QED
        BY <3>2, <4>1 DEF AllowanceOf
    <3>3. CASE status'[k] \in Active /\ Taken2
      <4>1. allowance'[k] = 0
        BY <1>2, <3>3 DEF CancelNext, Allow
      <4>2. PICK c \in Cancellers : Holds(c, k)'
        BY <3>3 DEF Writers, Holds
      <4>3. Stopped(k)'
        BY <2>2, <3>3, <4>2 DEF OwnerInv, Claimed, InSlot, Stopped
      <4> QED
        BY <3>3, <4>1, <4>3 DEF AllowanceOf
    <3>4. CASE status'[k] \in Active /\ ~Taken2
      <4>1. NoHolder(k) => NoHolder(k)'
        BY <2>1, <3>4, HoldsFacts DEF NoHolder
      <4>2. CASE allowance[k] = 2
        <5>1. CASE k \in cancelRequested' \ cancelRequested
          <6>1. allowance'[k] = 1
            BY <1>2, <3>4, <4>2, <5>1 DEF CancelNext, Allow
          <6>2. NoHolder(k)
            BY <2>1, <5>1 DEF OwnerInv, NoHolder
          <6> QED
            BY <3>4, <4>1, <5>1, <6>1, <6>2 DEF AllowanceOf
        <5>2. CASE k \notin cancelRequested' \ cancelRequested
          <6>1. allowance'[k] = 2
            BY <1>2, <3>4, <4>2, <5>2 DEF CancelNext, Allow
          <6> QED
            BY <6>1 DEF AllowanceOf
        <5> QED
          BY <5>1, <5>2
      <4>3. CASE allowance[k] = 1
        <5>1. NoHolder(k) /\ (k \in cancelRequested \/ run[k] \in {"returned", "raised"} \/ ~up)
          BY <3>1, <4>3 DEF AllowanceOf
        <5>2. k \in cancelRequested' \/ run'[k] \in {"returned", "raised"} \/ ~up'
          BY <2>1, <3>4, <5>1, AskedStep
        <5>3. CASE Begins(k)
          <6>1. allowance'[k] = 0
            BY <1>2, <3>4, <4>3, <5>3 DEF CancelNext, Allow
          <6>2. run[k] = "next" /\ run'[k] = "scan" /\ UNCHANGED cancelRequested
            BY <2>1, <5>3, BeginsFacts
          <6>3. up
            BY <6>2 DEF IInv, DownInv
          <6>4. Stopped(k)'
            BY <5>1, <6>2, <6>3 DEF Stopped
          <6> QED
            BY <3>4, <6>1, <6>4 DEF AllowanceOf
        <5>4. CASE ~Begins(k)
          <6>1. allowance'[k] = 1
            BY <1>2, <3>4, <4>3, <5>4 DEF CancelNext, Allow
          <6> QED
            BY <3>4, <4>1, <5>1, <5>2, <6>1 DEF AllowanceOf
        <5> QED
          BY <5>3, <5>4
      <4>4. CASE allowance[k] = 0
        <5>1. allowance'[k] = 0
          BY <1>2, <3>4, <4>4 DEF CancelNext, Allow
        <5>2. Stopped(k)'
          BY <2>1, <3>1, <4>4, StoppedStep DEF AllowanceOf
        <5> QED
          BY <3>4, <5>1, <5>2 DEF AllowanceOf
      <4> QED
        BY <4>2, <4>3, <4>4
    <3> QED
      BY <3>2, <3>3, <3>4
  <2> QED
    BY <2>3, <2>4
<1> QED
  BY <1>1, <1>2

\* A cancelled job scans no further host than the one the engine had decided on,
\* for any number of jobs, hosts and cancellers, and whatever fails.
THEOREM CancelledScanStops == CancelSpec => CancelStopsTheScan
<1>1. CancelInit => IInv /\ AllowanceInv
  <2>1. CancelInit => AllowanceInv
    BY DEF CancelInit, Init, AllowanceInv, AllowanceOf
  <2> QED
    BY <2>1, InitIInv DEF CancelInit
<1>2. IInv /\ AllowanceInv /\ [CancelNext]_cancelVars => IInv' /\ AllowanceInv'
  <2>1. [CancelNext]_cancelVars => [Next]_vars
    BY DEF CancelNext, cancelVars
  <2> QED
    BY <2>1, IInvStep, AllowanceStep
<1>3. IInv /\ AllowanceInv /\ [CancelNext]_cancelVars
        => [\A j \in Jobs : Begins(j) => allowance[j] > 0]_cancelVars
  <2> SUFFICES ASSUME IInv, AllowanceInv, CancelNext, NEW j \in Jobs, Begins(j) PROVE allowance[j] > 0
    OBVIOUS
  <2>1. run[j] = "next"
    BY BeginsFacts DEF IInv, CancelNext
  <2>2. allowance[j] # 0 /\ allowance[j] \in 0 .. 2
    BY <2>1 DEF AllowanceInv, AllowanceOf, Stopped
  <2> QED
    BY <2>2
<1> QED
  BY <1>1, <1>2, <1>3, PTL DEF CancelSpec, CancelStopsTheScan
=============================================================================
